---------------------------- MODULE PluginServer ----------------------------
(***************************************************************************)
(* plugin_server as plugin_load starts it: the klog thread and the FTP     *)
(* threads run side by side over one descriptor table.  KILL ends both.    *)
(* pthread_ftp starts the FTP server only if the process is jailbroken.    *)
(***************************************************************************)
EXTENDS FtpServer, Klog

ASSUME ThreadsAssumption == Klog \notin Session \cup {Server}

VARIABLE
    ftp  \* pthread_ftp: "gate" until is_jailbroken has answered, then
         \* "main" in ftp_main, or "refused"

serverVars == <<vars, klogVars, ftp>>

Init == FtpInit /\ KlogInit /\ ftp = "gate"

\* is_jailbroken makes a file, closes and removes it.  If it cannot make one,
\* FTP will not start.
pthread_ftp ==
    /\ Alive /\ ftp = "gate"
    /\ \/ ~Full /\ ftp' = "main"
       \/ (Full \/ "jailbreak" \in Faults) /\ ftp' = "refused"
    /\ UNCHANGED <<vars, klogVars>>

FtpRuns(A) == ftp = "main" /\ A /\ UNCHANGED <<klogVars, ftp>>

KlogRuns(A) == A /\ UNCHANGED <<ftpVars, ftp>>

Next ==
    \/ pthread_ftp
    \/ FtpRuns(FtpNext)
    \/ KlogRuns(KlogNext)

Safety == Init /\ [][Next]_serverVars

\* Fair is only what a thread does without a client: the start, the three
\* second loops of ftp_main and pthread_kserver, and the timeout of select.
Spec ==
    /\ Safety
    /\ WF_serverVars(pthread_ftp)
    /\ WF_serverVars(FtpRuns(Serve))
    /\ WF_serverVars(KlogRuns(KlogServe))
    /\ WF_serverVars(KlogRuns(KlogTimeout))

------------------------------------------------------------------------------
\* Neither service disturbs the other as long as no stale number was closed:
\* the klog thread listens, reads and writes on descriptors of its own.
ServicesApart ==
    Alive /\ stray = {} =>
        /\ klog.pc # "down" => klog.sockfd \in Holds(Klog, {"server"})
        /\ klog.pc = "loop" => klog.file_fd \in Holds(Klog, {"file"})
        /\ srv = "up" => srvfd \in Holds(Server, {"server"})
        /\ \A s \in Session : OwnActive(s) /\ OwnFile(s) /\ OwnData(s)

\* Each service is up again after every failure, unless the table is full or
\* FTP was refused at the start.
ServicesReturn ==
    /\ []<>(srv = "up" \/ ftp = "refused" \/ Full \/ ~Alive)
    /\ []<>(klog.pc # "down" \/ Full \/ ~Alive)
=============================================================================

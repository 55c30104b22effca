-------------------------------- MODULE Klog --------------------------------
(***************************************************************************)
(* The klog server of plugin_server: one thread that copies /dev/klog,     *)
(* byte by byte, to every client connected to it (pthread_kserver,         *)
(* serve_file, serve_file_while_connected).                                *)
(***************************************************************************)
EXTENDS Descriptors, FiniteSets

CONSTANTS
    Klog,   \* the klog thread, owner of its descriptors
    Crowd   \* bound: clients the thread counts at a time

ASSUME KlogAssumption == Klog \in Owner /\ Crowd \in Nat

VARIABLES
    klog,           \* where the thread is, and its descriptors:
                    \* [pc, sockfd, file_fd]
    output_set,     \* the client numbers of serve_file_while_connected
    nb_connections, \* and its count of them
    lost            \* history: clients left open when select failed

klogVars == <<klog, output_set, nb_connections, lost>>

Readable == {"file", "client", "control", "data"}

KlogAt(step) == Alive /\ klog.pc = step

\* close() of clients, and of the device and the listening socket.
CloseAll(clients, others) ==
    /\ Closed(clients \cup others)
    /\ Misuse(Reached(Klog, "client_fd", clients) \cup Reached(Klog, "klog_fd", others))

File == {klog.file_fd}
Sock == {klog.sockfd}

\* serve_file returns; pthread_kserver sleeps and calls it again.
Down == klog' = [pc |-> "down", sockfd |-> None, file_fd |-> None]

Wait == klog' = [klog EXCEPT !.pc = "wait", !.file_fd = None]

NoClients == output_set' = {} /\ nb_connections' = 0

------------------------------------------------------------------------------
\* serve_file up to listen; setsockopt, bind and listen return without
\* closing the socket.
KlogServe ==
    /\ KlogAt("down")
    /\ \E f \in Fd :
        /\ Lowest(f)
        /\ Open(f, "server", Klog)
        /\ \/ klog' = [klog EXCEPT !.pc = "wait", !.sockfd = f]
           \/ "setup" \in Faults /\ UNCHANGED klog
    /\ UNCHANGED <<stray, process, output_set, nb_connections, lost>>

\* select without timeout fails, because sockfd is no descriptor any more or
\* for any other reason: serve_file returns and does not close sockfd.
KlogWaitFails ==
    /\ KlogAt("wait")
    /\ "select" \in Faults \/ ~IsOpen(klog.sockfd)
    /\ Down
    /\ UNCHANGED <<fdVars, output_set, nb_connections, lost>>

\* Someone wants to connect: the device is opened and the loop entered.
KlogOpen ==
    /\ KlogAt("wait")
    /\ IsOpen(klog.sockfd)
    /\ NoClients
    /\ \/ \E f \in Fd :
            /\ Lowest(f)
            /\ Open(f, "file", Klog)
            /\ klog' = [klog EXCEPT !.pc = "loop", !.file_fd = f]
            /\ UNCHANGED stray
       \/ /\ Full \/ "read" \in Faults
          /\ CloseAll({}, Sock)
          /\ Down
    /\ UNCHANGED <<process, lost>>

------------------------------------------------------------------------------
(***************************************************************************)
(* The loop of serve_file_while_connected.  It goes on while               *)
(* nb_connections is above 0, whatever select returned; a pass that        *)
(* accepts a client therefore never is the last one, and the byte it may   *)
(* also read is the next pass here.                                        *)
(***************************************************************************)
KlogSelect ==
    /\ KlogAt("loop")
    /\ IsOpen(klog.sockfd) /\ IsOpen(klog.file_fd)

\* Mutant: continue goes to the top of the loop without its condition.
KlogTimeoutUnchecked ==
    /\ KlogSelect
    /\ nb_connections = 0
    /\ UNCHANGED <<fdVars, klogVars>>

\* Mutant: the listening socket is closed too and waited on again.
KlogTimeoutClosesSock ==
    /\ KlogSelect
    /\ nb_connections = 0
    /\ CloseAll({}, File \cup Sock)
    /\ NoClients
    /\ Wait
    /\ UNCHANGED <<process, lost>>

\* 10 ms pass, nothing is ready, and nobody is counted as connected.
KlogTimeout ==
    /\ KlogSelect
    /\ nb_connections = 0
    /\ CloseAll(output_set, File)
    /\ NoClients
    /\ Wait
    /\ UNCHANGED <<process, lost>>

\* select fails, because a number is closed or for any other reason: the
\* device and the listening socket are closed, and no client is.
KlogSelectFails ==
    /\ KlogAt("loop")
    /\ "select" \in Faults \/ ~IsOpen(klog.sockfd) \/ ~IsOpen(klog.file_fd)
    /\ CloseAll({}, File \cup Sock)
    /\ lost' = lost \cup output_set
    /\ NoClients
    /\ Down
    /\ UNCHANGED process

\* Mutant: accept and read return at once when they fail, as select does.
KlogBreaksAtOnce ==
    /\ KlogSelect
    /\ \/ Full \/ ~Is(klog.sockfd, {"server", "passive"})
       \/ "read" \in Faults \/ ~Is(klog.file_fd, Readable)
    /\ CloseAll({}, File \cup Sock)
    /\ NoClients
    /\ Down
    /\ UNCHANGED <<process, lost>>

\* accept or read fails: everything is closed and serve_file returns -1.
KlogBreaks ==
    /\ KlogSelect
    /\ \/ Full \/ ~Is(klog.sockfd, {"server", "passive"})
       \/ "read" \in Faults \/ ~Is(klog.file_fd, Readable)
    /\ CloseAll(output_set, File \cup Sock)
    /\ NoClients
    /\ Down
    /\ UNCHANGED <<process, lost>>

KlogAccept ==
    /\ KlogSelect
    /\ nb_connections < Crowd
    /\ Is(klog.sockfd, {"server", "passive"})
    /\ \E f \in Fd :
        /\ Lowest(f)
        /\ Open(f, "client", Klog)
        /\ output_set' = output_set \cup {f}
    /\ nb_connections' = nb_connections + 1
    /\ UNCHANGED <<stray, process, klog, lost>>

\* Mutant: a dropped client stays counted.
KlogByteUncounted ==
    /\ KlogSelect
    /\ Is(klog.file_fd, Readable)
    /\ \E gone \in SUBSET output_set :
        /\ {f \in output_set : ~Is(f, Readable)} \subseteq gone
        /\ "send" \in Faults \/ \A f \in gone : ~Is(f, Readable)
        /\ UNCHANGED nb_connections
        /\ CloseAll(gone, {})
        /\ output_set' = output_set \ gone
    /\ UNCHANGED <<process, klog, lost>>

\* Mutant: a dropped client is counted out twice.
KlogByteTwice ==
    /\ KlogSelect
    /\ Is(klog.file_fd, Readable)
    /\ \E gone \in SUBSET output_set :
        /\ {f \in output_set : ~Is(f, Readable)} \subseteq gone
        /\ "send" \in Faults \/ \A f \in gone : ~Is(f, Readable)
        /\ nb_connections' = nb_connections - 2 * Cardinality(gone)
        /\ CloseAll(gone, {})
        /\ output_set' = output_set \ gone
    /\ UNCHANGED <<process, klog, lost>>

\* A byte is written to every client; those that do not take it are closed.
KlogByte ==
    /\ KlogSelect
    /\ Is(klog.file_fd, Readable)
    /\ \E gone \in SUBSET output_set :
        /\ {f \in output_set : ~Is(f, Readable)} \subseteq gone
        /\ "send" \in Faults \/ \A f \in gone : ~Is(f, Readable)
        /\ nb_connections' = nb_connections - Cardinality(gone)
        /\ IF nb_connections' > 0
           THEN /\ CloseAll(gone, {})
                /\ output_set' = output_set \ gone
                /\ UNCHANGED klog
           ELSE /\ CloseAll(output_set, File)
                /\ output_set' = {}
                /\ Wait
    /\ UNCHANGED <<process, lost>>

------------------------------------------------------------------------------
KlogInit ==
    /\ klog = [pc |-> "down", sockfd |-> None, file_fd |-> None]
    /\ output_set = {}
    /\ nb_connections = 0
    /\ lost = {}

KlogNext ==
    \/ KlogServe    \/ KlogWaitFails   \/ KlogOpen
    \/ KlogTimeout  \/ KlogSelectFails \/ KlogBreaks
    \/ KlogAccept   \/ KlogByte

------------------------------------------------------------------------------
KlogTypeOK ==
    /\ klog \in [pc : {"down", "wait", "loop"}, sockfd : Fd \cup {None},
                  file_fd : Fd \cup {None}]
    /\ output_set \subseteq Fd
    /\ nb_connections \in 0 .. Crowd
    /\ lost \subseteq Fd

\* The thread counts the clients it has: a client it drops and the count it
\* keeps cannot drift apart, so the loop ends exactly with its last client.
\* It holds no other client, except those a failed select made it forget
\* (klog.c:81-84 returns without closing them), and these for good: whatever
\* else ends the loop, no client is forgotten, and none is counted twice.
ClientsCounted ==
    Alive /\ stray = {} =>
        /\ nb_connections = Cardinality(output_set)
        /\ output_set \cap lost = {}
        /\ output_set \cup lost = Holds(Klog, {"client"})

\* Out of the loop the thread holds no device, however it left, and of the
\* clients only those select failed on: an accept, a read or a write that
\* fails gives every client back, and so does the end of a crowd.
KlogHoldsNothingIdle ==
    stray = {} /\ klog.pc # "loop" =>
        /\ Holds(Klog, {"file"}) = {}
        /\ Holds(Klog, {"client"}) \subseteq lost

\* The thread does not stay in its loop with nobody connected.
NoIdleLoop == []<>(klog.pc # "loop" \/ output_set # {} \/ stray # {} \/ ~Alive)
=============================================================================

------------------------------ MODULE FtpServer ------------------------------
(***************************************************************************)
(* The FTP server of plugin_server: the listener of ftp_main and ftp_serve *)
(* and one thread per connection (ftp_thread), over the descriptor table   *)
(* all of them share.  This module follows every socket, directory and     *)
(* file descriptor; what the commands do to files, offsets and paths is    *)
(* module FtpFiles.                                                        *)
(*                                                                         *)
(* A handler that blocks is cut into steps where it blocks: PASV between   *)
(* closing the old socket and making the new one, a transfer before        *)
(* connect/accept and before its last pass through the copy loop, the end  *)
(* of a thread before each close.  Between two such points the calls of    *)
(* one handler are one step.                                               *)
(***************************************************************************)
EXTENDS Descriptors

CONSTANTS
    Session,    \* the connections accepted over the life of the process
    Server,     \* the listener thread, owner of its listening socket
    Budget      \* bound: PASV, PORT and transfer commands per connection

ASSUME SessionAssumption ==
    /\ Session \cup {Server} \subseteq Owner
    /\ Server \notin Session
    /\ Budget \in Nat

VARIABLES
    srv, srvfd, \* "up" while ftp_serve is in its accept loop; its socket
    pc,         \* where each connection's thread is
    active_fd, passive_fd, data_fd,     \* members of each ftp_env_t
    sin_port,   \* data_addr.sin_port
    cmd, fd,    \* the running transfer, and the fd or dir of its handler
    left        \* how many commands the bound leaves each connection

srvVars == <<srv, srvfd>>
envVars == <<active_fd, passive_fd, data_fd, sin_port>>
runVars == <<cmd, fd>>
threadVars == <<pc, envVars, runVars, left>>
ftpVars == <<srvVars, threadVars>>
vars == <<fdVars, ftpVars>>

Transfer == {"LIST", "RETR", "STOR"}

Step == {"new", "greet", "idle", "pasv", "open", "copy",
         "end_active", "end_passive", "end_data", "done"}

Exiting == {"end_active", "end_passive", "end_data"}

\* ftp_thread initialises its env; NewEnv(s, None) stands for none.
NewEnv(s, f) ==
    /\ active_fd' = [active_fd EXCEPT ![s] = f]
    /\ passive_fd' = [passive_fd EXCEPT ![s] = None]
    /\ data_fd' = [data_fd EXCEPT ![s] = None]
    /\ sin_port' = [sin_port EXCEPT ![s] = "zero"]

At(s, step) == Alive /\ pc[s] = step

------------------------------------------------------------------------------
(***************************************************************************)
(* Replies.  ftp_active_printf writes to active_fd; the write fails when   *)
(* the client is gone or the number is no connection, and every handler    *)
(* returns its result, which ends the thread when it is not zero.          *)
(***************************************************************************)
Sent(s) == {res \in {"ok", "error"} :
    IF res = "ok" THEN Is(active_fd[s], {"control", "data", "client", "file"})
    ELSE "send" \in Faults \/ ~Is(active_fd[s], {"control", "data", "client"})}

Goto(s, step) == pc' = [pc EXCEPT ![s] = step]

\* The bound.
Spend(s) == left[s] > 0 /\ left' = [left EXCEPT ![s] = @ - 1]

\* The locals of a handler are gone when it returns.
Run(s, c, f) == cmd' = [cmd EXCEPT ![s] = c] /\ fd' = [fd EXCEPT ![s] = f]
Return(s) == Run(s, "none", None)

\* The last reply of a handler.
Reply(s) ==
    \E res \in Sent(s) : Goto(s, IF res = "ok" THEN "idle" ELSE "end_active")

------------------------------------------------------------------------------
(***************************************************************************)
(* The listener.                                                           *)
(***************************************************************************)
\* Mutant: ftp_main does not call ftp_serve a second time.
ServeOnce ==
    /\ Alive /\ srv = "down" /\ srvfd = None
    /\ \E f \in Fd :
        /\ Lowest(f)
        /\ Open(f, "server", Server)
        /\ srv' = "up" /\ srvfd' = f
    /\ UNCHANGED <<stray, process, threadVars>>

\* ftp_serve up to listen.  setsockopt, bind and listen return -1 without
\* closing the socket; ftp_main sleeps and calls ftp_serve again.
Serve ==
    /\ Alive /\ srv = "down"
    /\ \E f \in Fd :
        /\ Lowest(f)
        /\ Open(f, "server", Server)
        /\ \/ srv' = "up" /\ srvfd' = f
           \/ "setup" \in Faults /\ UNCHANGED srvVars
    /\ UNCHANGED <<stray, process, threadVars>>

\* getifaddrs fails: ftp_serve calls exit.
ServeExits ==
    /\ Alive /\ srv = "down"
    /\ "ifaddrs" \in Faults
    /\ Exit
    /\ UNCHANGED <<srvVars, threadVars>>

\* accept and pthread_create.  The result of pthread_create is not looked at.
Accept(s) ==
    /\ Alive /\ srv = "up" /\ pc[s] = "new"
    /\ Is(srvfd, {"server", "passive"})
    /\ \E f \in Fd :
        /\ Lowest(f)
        /\ \/ /\ Open(f, "control", s)
              /\ NewEnv(s, f)
              /\ Goto(s, "greet")
           \/ /\ "thread" \in Faults
              /\ Open(f, "control", Server)
              /\ UNCHANGED <<pc, envVars>>
    /\ UNCHANGED <<stray, process, srvVars, runVars, left>>

\* Mutant: the loop goes on with the socket it closed.
AcceptFailsNoBreak ==
    /\ Alive /\ srv = "up"
    /\ Full \/ ~Is(srvfd, {"server", "passive"}) \/ "accept" \in Faults
    /\ Close(Server, "srvfd", {srvfd})
    /\ UNCHANGED <<process, srvVars, threadVars>>

\* accept fails: no descriptor is left, or srvfd is no listening socket.
AcceptFails ==
    /\ Alive /\ srv = "up"
    /\ Full \/ ~Is(srvfd, {"server", "passive"}) \/ "accept" \in Faults
    /\ Close(Server, "srvfd", {srvfd})
    /\ srv' = "down"
    /\ UNCHANGED <<process, srvfd, threadVars>>

------------------------------------------------------------------------------
(***************************************************************************)
(* Commands that leave the descriptors alone.                              *)
(***************************************************************************)
Greet(s) ==
    /\ At(s, "greet")
    /\ Reply(s)
    /\ UNCHANGED <<fdVars, srvVars, envVars, runVars, left>>

\* Every command whose handler replies once and opens nothing, the error
\* replies of the others before they open anything included.
Command(s) ==
    /\ At(s, "idle")
    /\ Reply(s)
    /\ UNCHANGED <<fdVars, srvVars, envVars, runVars, left>>

\* The client closes, read fails, or QUIT returns -1.
Leave(s) ==
    /\ At(s, "idle")
    /\ Goto(s, "end_active")
    /\ UNCHANGED <<fdVars, srvVars, envVars, runVars, left>>

KILL(s) ==
    /\ At(s, "idle")
    /\ "kill" \in Faults
    /\ Exit
    /\ UNCHANGED <<srvVars, threadVars>>

------------------------------------------------------------------------------
(***************************************************************************)
(* PASV and PORT.                                                          *)
(***************************************************************************)
\* getsockname(active_fd) works; the old socket is closed.
PasvClose(s) ==
    /\ At(s, "idle") /\ Spend(s)
    /\ Is(active_fd[s], {"control", "data", "client", "server", "passive", "port"})
    /\ Close(s, "passive_fd", {passive_fd[s]})
    /\ Goto(s, "pasv")
    /\ UNCHANGED <<process, srvVars, envVars, runVars>>

\* Mutant: the failure is stored as 0.
PasvNoSocketZero(s) ==
    /\ At(s, "pasv")
    /\ Full \/ "socket" \in Faults
    /\ passive_fd' = [passive_fd EXCEPT ![s] = 0]
    /\ Reply(s)
    /\ UNCHANGED <<fdVars, srvVars, active_fd, data_fd, sin_port, runVars, left>>

\* No socket: passive_fd is -1.
PasvNoSocket(s) ==
    /\ At(s, "pasv")
    /\ Full \/ "socket" \in Faults
    /\ passive_fd' = [passive_fd EXCEPT ![s] = None]
    /\ Reply(s)
    /\ UNCHANGED <<fdVars, srvVars, active_fd, data_fd, sin_port, runVars, left>>

\* bind, listen or getsockname fails: the socket is closed again, and
\* passive_fd keeps its number.
PasvUndone(s) ==
    /\ At(s, "pasv")
    /\ "bind" \in Faults
    /\ \E f \in Fd : Lowest(f) /\ passive_fd' = [passive_fd EXCEPT ![s] = f]
    /\ Reply(s)
    /\ UNCHANGED <<fdVars, srvVars, active_fd, data_fd, sin_port, runVars, left>>

PasvListens(s) ==
    /\ At(s, "pasv")
    /\ \E f \in Fd :
        /\ Lowest(f)
        /\ Open(f, "passive", s)
        /\ passive_fd' = [passive_fd EXCEPT ![s] = f]
    /\ Reply(s)
    /\ UNCHANGED <<stray, process, srvVars, active_fd, data_fd, sin_port, runVars, left>>

\* The socket replaces the number in data_fd, which is not closed.
PORT(s) ==
    /\ At(s, "idle") /\ Spend(s)
    /\ \/ /\ Full \/ "socket" \in Faults
          /\ data_fd' = [data_fd EXCEPT ![s] = None]
          /\ UNCHANGED <<table, sin_port>>
       \/ \E f \in Fd :
            /\ Lowest(f)
            /\ Open(f, "port", s)
            /\ \E p \in {"zero", "set"} :
                sin_port' = [sin_port EXCEPT ![s] = p]
            /\ data_fd' = [data_fd EXCEPT ![s] = f]
    /\ Reply(s)
    /\ UNCHANGED <<stray, process, srvVars, active_fd, passive_fd, runVars>>

------------------------------------------------------------------------------
(***************************************************************************)
(* Transfers.  LIST opens a directory, RETR and STOR a file, all before    *)
(* the data connection; RETR and STOR send 150 first, LIST afterwards.     *)
(***************************************************************************)
StartTransfer(s) ==
    /\ At(s, "idle") /\ Spend(s)
    /\ \E c \in Transfer, f \in Fd :
        /\ Lowest(f)
        /\ \/ /\ Open(f, IF c = "LIST" THEN "dir" ELSE "file", s)
              /\ Run(s, c, f)
              /\ c = "LIST" \/ "ok" \in Sent(s)
              /\ Goto(s, "open")
           \/ /\ c # "LIST" /\ "error" \in Sent(s)    \* no 150: close(fd)
              /\ Goto(s, "end_active")
              /\ UNCHANGED <<table, runVars>>
    /\ UNCHANGED <<stray, process, srvVars, envVars>>

\* ftp_data_open after a PORT that once succeeded: connect(data_fd).
DataConnect(s) ==
    /\ At(s, "open") /\ sin_port[s] = "set"
    /\ Is(data_fd[s], {"port"})
    /\ Open(data_fd[s], "data", owner[data_fd[s]])
    /\ Misuse(Reached(s, "connect", {data_fd[s]}))
    /\ Goto(s, "copy")
    /\ UNCHANGED <<process, srvVars, envVars, runVars, left>>

\* ftp_data_open otherwise: accept(passive_fd), once a client is there.
DataAccept(s) ==
    /\ At(s, "open") /\ sin_port[s] = "zero"
    /\ Is(passive_fd[s], {"passive", "server"})
    /\ \E f \in Fd :
        /\ Lowest(f)
        /\ Open(f, "data", s)
        /\ data_fd' = [data_fd EXCEPT ![s] = f]
    /\ Misuse(Reached(s, "accept", {passive_fd[s]}))
    /\ Goto(s, "copy")
    /\ UNCHANGED <<process, srvVars, active_fd, passive_fd, sin_port, runVars, left>>

\* connect fails, or accept: its addr_len is not initialised, so that it may
\* fail at any time.  RETR and STOR close their file; LIST returns with its
\* directory open.
DataOpenFails(s) ==
    /\ At(s, "open")
    /\ IF sin_port[s] = "set"
       THEN /\ "connect" \in Faults \/ ~Is(data_fd[s], {"port"})
            /\ UNCHANGED data_fd
       ELSE data_fd' = [data_fd EXCEPT ![s] = None]
    /\ IF cmd[s] = "LIST" THEN UNCHANGED fdVars
       ELSE Close(s, "fd", {fd[s]})
    /\ Return(s)
    /\ Reply(s)
    /\ UNCHANGED <<process, srvVars, active_fd, passive_fd, sin_port, left>>

\* Mutant: an error path that closes the file and not the data connection.
EndTransferKeepsData(s) ==
    /\ At(s, "copy")
    /\ Close(s, "fd", {fd[s]})
    /\ Return(s)
    /\ Reply(s)
    /\ UNCHANGED <<process, srvVars, envVars, left>>

\* The copy loop ends, by end of file or by an error.  On every path both
\* descriptors are closed and one reply is sent; data_fd keeps its number.
\* STOR does not notice that recv fails: on a number that is no connection
\* it stays in its loop.
EndTransfer(s) ==
    /\ At(s, "copy")
    /\ cmd[s] = "STOR" => Is(data_fd[s], {"control", "data", "client"})
    /\ Closed({data_fd[s], fd[s]})
    /\ Misuse(Reached(s, "data_fd", {data_fd[s]}) \cup Reached(s, "fd", {fd[s]}))
    /\ Return(s)
    /\ Reply(s)
    /\ UNCHANGED <<process, srvVars, envVars, left>>

------------------------------------------------------------------------------
(***************************************************************************)
(* The end of a thread closes whatever numbers its variables hold.         *)
(***************************************************************************)
EndActive(s) ==
    /\ At(s, "end_active")
    /\ Close(s, "active_fd", {active_fd[s]})
    /\ Goto(s, "end_passive")
    /\ UNCHANGED <<process, srvVars, envVars, runVars, left>>

\* Mutant: the end of a thread forgets passive_fd.
EndPassiveKeeps(s) ==
    /\ At(s, "end_passive")
    /\ Goto(s, "end_data")
    /\ UNCHANGED <<fdVars, srvVars, envVars, runVars, left>>

EndPassive(s) ==
    /\ At(s, "end_passive")
    /\ Close(s, "passive_fd", {passive_fd[s]})
    /\ Goto(s, "end_data")
    /\ UNCHANGED <<process, srvVars, envVars, runVars, left>>

EndData(s) ==
    /\ At(s, "end_data")
    /\ Close(s, "data_fd", {data_fd[s]})
    /\ Goto(s, "done")
    /\ NewEnv(s, None)     \* on the thread's stack
    /\ UNCHANGED <<process, srvVars, runVars, left>>

------------------------------------------------------------------------------
FtpInit ==
    /\ FdInit
    /\ srv = "down" /\ srvfd = None
    /\ pc = [s \in Session |-> "new"]
    /\ active_fd = [s \in Session |-> None]
    /\ passive_fd = [s \in Session |-> None]
    /\ data_fd = [s \in Session |-> None]
    /\ sin_port = [s \in Session |-> "zero"]
    /\ cmd = [s \in Session |-> "none"]
    /\ fd = [s \in Session |-> None]
    /\ left = [s \in Session |-> Budget]

SessionStep(s) ==
    \/ Greet(s)        \/ Command(s)     \/ Leave(s)         \/ KILL(s)
    \/ PasvClose(s)    \/ PasvNoSocket(s) \/ PasvUndone(s)   \/ PasvListens(s)
    \/ PORT(s)         \/ StartTransfer(s)
    \/ DataConnect(s)  \/ DataAccept(s)  \/ DataOpenFails(s) \/ EndTransfer(s)
    \/ EndActive(s)    \/ EndPassive(s)  \/ EndData(s)

FtpNext ==
    \/ Serve \/ ServeExits \/ AcceptFails
    \/ \E s \in Session : Accept(s) \/ SessionStep(s)

FtpSpec == FtpInit /\ [][FtpNext]_vars

------------------------------------------------------------------------------
(***************************************************************************)
(* Properties.                                                             *)
(***************************************************************************)
FtpTypeOK ==
    /\ FdTypeOK
    /\ srv \in {"down", "up"} /\ srvfd \in Fd \cup {None}
    /\ pc \in [Session -> Step]
    /\ active_fd \in [Session -> Fd \cup {None}]
    /\ passive_fd \in [Session -> Fd \cup {None}]
    /\ data_fd \in [Session -> Fd \cup {None}]
    /\ fd \in [Session -> Fd \cup {None}]
    /\ sin_port \in [Session -> {"zero", "set"}]
    /\ cmd \in [Session -> Transfer \cup {"none"}]
    /\ left \in [Session -> 0 .. Budget]

OwnActive(s) ==
    pc[s] \notin {"new", "end_passive", "end_data", "done"}
        => active_fd[s] \in Holds(s, {"control"})

OwnPassive(s) ==
    Holds(s, {"passive"}) \subseteq
        IF pc[s] \in {"new", "pasv", "end_data", "done"} THEN {} ELSE {passive_fd[s]}

OwnData(s) ==
    Holds(s, {"data"}) = IF pc[s] = "copy" THEN {data_fd[s]} ELSE {}

OwnFile(s) ==
    pc[s] \in {"open", "copy"} => fd[s] \in Holds(s, {"file", "dir"})

\* As long as no thread has reached another thread's descriptor, each
\* connection reads its commands from its own client, copies between its own
\* file and its own data connection, and its listening socket is the one
\* passive_fd names; the listener listens on its own socket.
Ownership ==
    Alive /\ stray = {} =>
        /\ srv = "up" => srvfd \in Holds(Server, {"server"})
        /\ \A s \in Session : OwnActive(s) /\ OwnPassive(s) /\ OwnData(s) /\ OwnFile(s)

\* A connection that has ended gave back its control connection, its PASV
\* socket, its data connections and its files.  Sockets of PORT and the
\* directories of LIST are not among them: the code loses those.
EndedSessionHoldsNothing ==
    \A s \in Session : stray = {} /\ pc[s] = "done" =>
        Holds(s, Kind \ {"port", "dir"}) = {}

\* The first time a thread reaches another thread's descriptor, it closes,
\* connects or accepts through data_fd or passive_fd, the two variables that
\* keep the number of a descriptor already closed; it never does so through
\* active_fd, srvfd or a local fd.
FirstStrayIsStale ==
    [][stray = {} => stray' \subseteq {"data_fd", "passive_fd", "connect", "accept"}]_stray

\* "Close an existing data connection", cmd.c:178: what a thread closes
\* through data_fd is its own data connection.
ClosesOwnDataOnly == "data_fd" \notin stray

\* "Enter passive mode", cmd.c:254: once PASV listens, the next transfer takes
\* its data connection from the passive socket.
PasvEntersPassiveMode ==
    [][\A s \in Session : PasvListens(s) => sin_port'[s] = "zero"]_vars
==============================================================================

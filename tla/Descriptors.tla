----------------------------- MODULE Descriptors -----------------------------
(***************************************************************************)
(* The descriptor table of the process plugin_server runs in.  The klog    *)
(* thread, the FTP listener and every FTP connection are threads of one    *)
(* process, so the numbers they keep in their variables index one table,   *)
(* and a number that was closed is handed out again by the next open,      *)
(* socket or accept of any thread.                                         *)
(*                                                                         *)
(* The kernel is not part of the repository: this module is what the code  *)
(* of src/plugin_server relies on.  The code sees numbers only; the owner  *)
(* of an entry and the history variable stray exist for the properties.    *)
(***************************************************************************)
EXTENDS Integers

CONSTANTS
    Fd,     \* the numbers the table has room for (0, 1 and 2 stay with stdio)
    Owner,  \* the threads that open descriptors
    Nobody, \* the owner of a number that is not in use
    Faults  \* the failures of the environment that may happen

ASSUME FdAssumption == Fd \subseteq Nat \ {0} /\ Nobody \notin Owner

VARIABLES
    kind,   \* what each number refers to, "closed" if nothing
    owner,  \* the thread that opened it
    stray,  \* the ways a thread first reached another thread's entry
    process \* "exited" once a thread has called exit()

table == <<kind, owner>>
fdVars == <<table, stray, process>>

Alive == process = "running"

\* What the code stores when a call that makes a descriptor fails.
None == -1

Kind == {"server",   \* the listening socket of a service
         "control",  \* an accepted FTP control connection
         "passive",  \* the listening socket of PASV
         "port",     \* the socket made by PORT, not connected
         "data",     \* a connected data connection
         "file",     \* an open file or device
         "dir",      \* an open directory
         "client"}   \* an accepted klog client

\* How a thread reaches an entry: it closes the number of one of its
\* variables, or it connects through data_fd or accepts from passive_fd.
Way == {"active_fd", "passive_fd", "data_fd", "fd", "srvfd", "client_fd",
        "klog_fd", "connect", "accept"}

(***************************************************************************)
(* Questions a system call asks of a number.  A number that is no index of *)
(* the table (None) names no entry, as a closed one.                       *)
(***************************************************************************)
IsOpen(f) == f \in Fd /\ kind[f] # "closed"

Is(f, kinds) == IsOpen(f) /\ kind[f] \in kinds

IsOwn(o, f) == IsOpen(f) /\ owner[f] = o

Foreign(o, f) == IsOpen(f) /\ owner[f] # o

Holds(o, kinds) == {f \in Fd : Is(f, kinds) /\ IsOwn(o, f)}

Full == \A f \in Fd : IsOpen(f)

\* POSIX: a new descriptor is the lowest number that is not in use.
Lowest(f) == ~IsOpen(f) /\ \A g \in Fd : ~IsOpen(g) => f <= g

(***************************************************************************)
(* Effects on the table.                                                   *)
(***************************************************************************)
Open(f, k, o) ==
    /\ kind' = [kind EXCEPT ![f] = k]
    /\ owner' = [owner EXCEPT ![f] = o]

Closed(fs) ==
    /\ kind' = [f \in Fd |-> IF f \in fs THEN "closed" ELSE kind[f]]
    /\ owner' = [f \in Fd |-> IF f \in fs THEN Nobody ELSE owner[f]]

\* The first misuse is kept: what follows from it is not the program's plan.
Misuse(names) == stray' = IF stray = {} THEN names ELSE stray

\* {way} if one of the numbers fs that o reaches this way is not its own.
Reached(o, way, fs) == {w \in {way} : \E f \in fs : Foreign(o, f)}

\* close(): what is there is closed, whoever opened it.
Close(o, way, fs) == Closed(fs) /\ Misuse(Reached(o, way, fs))

\* exit(): the kernel closes every descriptor of every thread.
Exit == process' = "exited" /\ Closed(Fd) /\ UNCHANGED stray

FdTypeOK ==
    /\ process \in {"running", "exited"}
    /\ kind \in [Fd -> Kind \cup {"closed"}]
    /\ owner \in [Fd -> Owner \cup {Nobody}]
    /\ stray \subseteq Way

FdInit ==
    /\ kind = [f \in Fd |-> "closed"]
    /\ owner = [f \in Fd |-> Nobody]
    /\ stray = {}
    /\ process = "running"
==============================================================================

------------------------- MODULE PluginServerProofs -------------------------
(***************************************************************************)
(* Proofs about PluginServer: the klog thread beside the FTP server, for   *)
(* every number of connections and clients, every size of the table and    *)
(* every set of faults.  What FtpServerProofs shows of the FTP threads is  *)
(* used as it stands; what is new is that neither side takes anything from *)
(* the other, and that the count of clients is the number of them.         *)
(***************************************************************************)
EXTENDS PluginServer, FtpServerProofs, FiniteSetTheorems

\* The variables of the thread, whatever has happened.
KlogTypes ==
    /\ klog \in [pc : {"down", "wait", "loop"}, sockfd : Fd \cup {None},
                  file_fd : Fd \cup {None}]
    /\ output_set \subseteq Fd
    /\ IsFiniteSet(output_set)
    /\ nb_connections \in 0 .. Crowd
    /\ Cardinality(output_set) <= nb_connections
    /\ klog.pc # "loop" => output_set = {} /\ nb_connections = 0
    /\ lost \subseteq Fd

\* What they refer to.
KlogRefers ==
    /\ klog.pc # "down" =>
        /\ klog.sockfd \in Fd
        /\ kind[klog.sockfd] = "server"
        /\ owner[klog.sockfd] = Klog
    /\ klog.pc = "loop" =>
        /\ klog.file_fd \in Fd
        /\ kind[klog.file_fd] = "file"
        /\ owner[klog.file_fd] = Klog
    /\ \A f \in output_set \cup lost : kind[f] = "client" /\ owner[f] = Klog
    /\ output_set \cap lost = {}

\* Conversely, where a descriptor of the thread is found.
KlogFound ==
    \A f \in Fd : owner[f] = Klog =>
        /\ kind[f] = "client" => f \in output_set \cup lost
        /\ kind[f] = "file" => klog.pc = "loop" /\ f = klog.file_fd

Counted == nb_connections = Cardinality(output_set)

\* The inductive invariant.
KInv ==
    /\ IInv
    /\ KlogTypes
    /\ Alive /\ stray = {} => KlogRefers /\ KlogFound /\ Counted

USE KlogAssumption, ThreadsAssumption

------------------------------------------------------------------------------
LEMMA InitKInv == Init => KInv
<1> SUFFICES ASSUME Init PROVE KInv
    OBVIOUS
<1>1. IInv
  BY InitIInv DEF Init
<1>2. KlogTypes /\ Counted
  BY FS_EmptySet DEF Init, KlogInit, KlogTypes, Counted
<1>3. KlogRefers /\ KlogFound
  BY DEF Init, KlogInit, FtpInit, FdInit, KlogRefers, KlogFound
<1> QED BY <1>1, <1>2, <1>3 DEF KInv

------------------------------------------------------------------------------
(***************************************************************************)
(* A step of the FTP server.                                               *)
(***************************************************************************)
LEMMA FtpNextMine ==
    ASSUME FtpTypeOK, FtpNext, Alive', stray = {}, stray' = {}
    PROVE  \E o \in Session \cup {Server} : Mine(o)
<1>1. CASE Serve
  BY <1>1, LowestFree, OpenMine DEF Serve
<1>2. CASE ServeExits
  BY <1>2 DEF ServeExits, Exit, Alive
<1>3. CASE AcceptFails
  BY <1>3, CloseMine DEF AcceptFails
<1>4. ASSUME NEW s \in Session, Accept(s) PROVE Mine(s)
  BY <1>4, LowestFree, OpenMine DEF Accept
<1>5. ASSUME NEW s \in Session, SessionStep(s) PROVE Mine(s)
  BY <1>5, SessionStepMine
<1> QED BY <1>1, <1>2, <1>3, <1>4, <1>5 DEF FtpNext

LEMMA KlogKept ==
    ASSUME NEW o, o # Klog, Mine(o), UNCHANGED klogVars, KlogTypes,
           KlogRefers, KlogFound, Counted
    PROVE  KlogRefers' /\ KlogFound' /\ Counted'
<1> USE DEF klogVars, Mine, Foreign, IsOpen
<1>1. \A f \in Fd : kind[f] # "closed" /\ owner[f] = Klog => kind'[f] = kind[f] /\ owner'[f] = Klog
  OBVIOUS
<1>2. \A f \in Fd : kind'[f] # "closed" /\ owner'[f] = Klog => kind'[f] = kind[f] /\ owner[f] = Klog
  OBVIOUS
<1>3. KlogRefers'
  BY <1>1 DEF KlogRefers, KlogTypes
<1>4. KlogFound'
  BY <1>2 DEF KlogFound
<1> QED BY <1>3, <1>4 DEF Counted

LEMMA FtpStepKInv ==
    ASSUME KInv, FtpNext, UNCHANGED klogVars
    PROVE  KInv'
<1>1. IInv'
  BY IInvStep DEF KInv
<1>2. KlogTypes'
  BY DEF KInv, KlogTypes, klogVars
<1>3. ASSUME Alive', stray' = {} PROVE KlogRefers' /\ KlogFound' /\ Counted'
  <2>1. Alive /\ stray = {}
    BY <1>3, Backwards
  <2>2. PICK o \in Session \cup {Server} : Mine(o)
    BY <1>3, <2>1, FtpNextMine DEF KInv, IInv
  <2> QED BY <2>1, <2>2, KlogKept DEF KInv
<1> QED BY <1>1, <1>2, <1>3 DEF KInv
------------------------------------------------------------------------------
(***************************************************************************)
(* A step of the klog thread, seen from the FTP threads.                   *)
(***************************************************************************)
LEMMA KlogNextAlive ==
    ASSUME KlogNext
    PROVE  Alive /\ UNCHANGED process
BY DEF KlogNext, KlogServe, KlogWaitFails, KlogOpen, KlogTimeout, KlogSelectFails, KlogBreaks,
       KlogAccept, KlogByte, KlogAt, KlogSelect, fdVars

\* A step leaves the table alone, opens a free number or closes some.
Opens == \E f \in Fd, k \in Kind : ~IsOpen(f) /\ Open(f, k, Klog) /\ UNCHANGED stray

Closes == \E clients, others : CloseAll(clients, others)

LEMMA KlogNextTable ==
    ASSUME KlogNext
    PROVE  UNCHANGED <<table, stray>> \/ Opens \/ Closes
<1> USE DEF KlogNext, Opens, Closes, Lowest, Kind
<1>1. CASE KlogServe
  BY <1>1 DEF KlogServe
<1>2. CASE KlogWaitFails
  BY <1>2 DEF KlogWaitFails, fdVars
<1>3. CASE KlogOpen
  BY <1>3 DEF KlogOpen
<1>4. CASE KlogTimeout
  BY <1>4, Zenon DEF KlogTimeout
<1>5. CASE KlogSelectFails
  BY <1>5, Zenon DEF KlogSelectFails
<1>6. CASE KlogBreaks
  BY <1>6, Zenon DEF KlogBreaks
<1>7. CASE KlogAccept
  BY <1>7 DEF KlogAccept
<1>8. CASE KlogByte
  <2>1. PICK gone \in SUBSET output_set :
            CloseAll(gone, {}) \/ CloseAll(output_set, File)
    BY <1>8, Zenon DEF KlogByte
  <2> QED BY <2>1, Zenon
<1> QED BY <1>1, <1>2, <1>3, <1>4, <1>5, <1>6, <1>7, <1>8

LEMMA CloseAllReach ==
    ASSUME NEW clients, NEW others, CloseAll(clients, others), stray = {}, stray' = {}
    PROVE  \A f \in clients \cup others : ~Foreign(Klog, f)
BY DEF CloseAll, Misuse, Reached

LEMMA CloseAllStray ==
    ASSUME NEW clients, NEW others, CloseAll(clients, others), stray \subseteq Way
    PROVE  stray' \subseteq Way /\ (stray' = {} => stray = {})
BY DEF CloseAll, Misuse, Reached, Way

LEMMA KlogNextMine ==
    ASSUME FtpTypeOK, KlogNext, stray' = {}
    PROVE  stray = {} /\ Mine(Klog)
<1>1. CASE UNCHANGED <<table, stray>>
  BY <1>1, SameTableMine
<1>2. CASE Opens
  <2>1. PICK f \in Fd, k \in Kind : ~IsOpen(f) /\ Open(f, k, Klog) /\ UNCHANGED stray
    BY <1>2 DEF Opens
  <2>2. ~Foreign(Klog, f)
    BY <2>1 DEF Foreign
  <2> QED BY <2>1, <2>2, OpenMine
<1>3. CASE Closes
  <2>1. PICK clients, others : CloseAll(clients, others)
    BY <1>3 DEF Closes
  <2>2. stray = {}
    BY <2>1, CloseAllStray DEF FtpTypeOK, FdTypeOK
  <2>3. \A f \in clients \cup others : ~Foreign(Klog, f)
    BY <2>1, <2>2, CloseAllReach
  <2> QED BY <2>1, <2>2, <2>3, ClosedMine DEF CloseAll
<1> QED BY <1>1, <1>2, <1>3, KlogNextTable

LEMMA KlogFdType ==
    ASSUME FdTypeOK, KlogNext
    PROVE  FdTypeOK'
<1>1. UNCHANGED process
  BY KlogNextAlive
<1>2. CASE UNCHANGED <<table, stray>>
  BY <1>1, <1>2 DEF FdTypeOK, table
<1>3. CASE Opens
  BY <1>1, <1>3 DEF Opens, Open, FdTypeOK
<1>4. CASE Closes
  <2>1. PICK clients, others : CloseAll(clients, others)
    BY <1>4 DEF Closes
  <2>2. stray' \subseteq Way
    BY <2>1, CloseAllStray DEF FdTypeOK
  <2> QED BY <1>1, <2>1, <2>2 DEF FdTypeOK, CloseAll, Closed
<1> QED BY <1>2, <1>3, <1>4, KlogNextTable

LEMMA KlogStepIInv ==
    ASSUME IInv, KlogNext, UNCHANGED ftpVars
    PROVE  IInv'
<1>1. FtpTypeOK'
  BY KlogFdType DEF IInv, FtpTypeOK, ftpVars, srvVars, threadVars, envVars, runVars
<1>2. Alive'
  BY KlogNextAlive DEF Alive
<1>3. ASSUME stray' = {}
      PROVE  Listens' /\ \A s \in Session : Refers(s)' /\ Found(s)'
  <2>1. Alive /\ stray = {} /\ Mine(Klog)
    BY <1>3, KlogNextMine, KlogNextAlive DEF IInv
  <2>2. Listens'
    BY <2>1 DEF IInv, Listens, Mine, Foreign, IsOpen, ftpVars, srvVars
  <2>3. \A s \in Session : Same(s)
    BY DEF Same, ftpVars, threadVars, envVars, runVars
  <2> QED BY <1>1, <2>1, <2>2, <2>3, OthersKept DEF IInv
<1> QED BY <1>1, <1>2, <1>3 DEF IInv
------------------------------------------------------------------------------
(***************************************************************************)
(* A step of the klog thread, seen from itself.                            *)
(***************************************************************************)
LEMMA NoneLeft ==
    ASSUME NoClients \/ (output_set' = {} /\ nb_connections' = 0)
    PROVE  /\ IsFiniteSet(output_set') /\ Cardinality(output_set') = 0
           /\ output_set' = {} /\ nb_connections' = 0
BY FS_EmptySet DEF NoClients

\* The clients that go, and those that stay.
LEMMA DropClients ==
    ASSUME KlogTypes, NEW gone \in SUBSET output_set
    PROVE  /\ IsFiniteSet(output_set \ gone)
           /\ Cardinality(gone) \in Nat
           /\ Cardinality(output_set) \in Nat
           /\ Cardinality(output_set \ gone) = Cardinality(output_set) - Cardinality(gone)
           /\ Cardinality(gone) <= Cardinality(output_set)
           /\ Cardinality(output_set \ gone) \in Nat
           /\ Cardinality(output_set \ gone) = 0 => output_set = gone
<1>1. IsFiniteSet(output_set) /\ IsFiniteSet(gone) /\ Cardinality(gone) <= Cardinality(output_set)
  BY FS_Subset DEF KlogTypes
<1>2. output_set \cap gone = gone
  OBVIOUS
<1>3. /\ IsFiniteSet(output_set \ gone)
      /\ Cardinality(output_set \ gone) = Cardinality(output_set) - Cardinality(gone)
  BY <1>1, <1>2, FS_Difference
<1>4. Cardinality(output_set \ gone) = 0 => output_set \ gone = {}
  BY <1>3, FS_EmptySet
<1>5. /\ Cardinality(gone) \in Nat /\ Cardinality(output_set) \in Nat
      /\ Cardinality(output_set \ gone) \in Nat
  BY <1>1, <1>3, FS_CardinalityType
<1> QED BY <1>1, <1>3, <1>4, <1>5

LEMMA ByteCounts ==
    ASSUME KlogTypes, KlogByte
    PROVE  \E gone \in SUBSET output_set :
             /\ IsFiniteSet(output_set') /\ Cardinality(output_set') <= nb_connections'
             /\ nb_connections' \in 0 .. Crowd
             /\ Counted => Counted'
             /\ \/ /\ CloseAll(gone, {})
                   /\ output_set' = output_set \ gone
                   /\ UNCHANGED klog
                \/ /\ CloseAll(output_set, File)
                   /\ output_set' = {} /\ nb_connections' = 0
                   /\ Wait
<1>1. PICK gone \in SUBSET output_set :
          /\ nb_connections' = nb_connections - Cardinality(gone)
          /\ IF nb_connections' > 0
             THEN CloseAll(gone, {}) /\ output_set' = output_set \ gone /\ UNCHANGED klog
             ELSE CloseAll(output_set, File) /\ output_set' = {} /\ Wait
  BY Zenon DEF KlogByte
<1>2. /\ IsFiniteSet(output_set \ gone) /\ Cardinality(gone) \in Nat
      /\ Cardinality(output_set) \in Nat
      /\ Cardinality(output_set \ gone) = Cardinality(output_set) - Cardinality(gone)
      /\ Cardinality(gone) <= Cardinality(output_set)
  BY DropClients
<1>3. nb_connections \in 0 .. Crowd /\ Cardinality(output_set) <= nb_connections
  BY DEF KlogTypes
<1>4. CASE nb_connections' > 0
  <2>1. CloseAll(gone, {}) /\ output_set' = output_set \ gone /\ UNCHANGED klog
    BY <1>1, <1>4, Zenon
  <2>2. Cardinality(output_set') = Cardinality(output_set) - Cardinality(gone)
    BY <1>2, <2>1
  <2>3. /\ Cardinality(output_set') <= nb_connections'
        /\ nb_connections' \in 0 .. Crowd
        /\ nb_connections = Cardinality(output_set) => nb_connections' = Cardinality(output_set')
    BY <1>1, <1>2, <1>3, <1>4, <2>2
  <2> QED BY <1>2, <2>1, <2>3, Zenon DEF Counted
<1>5. CASE ~(nb_connections' > 0)
  <2>1. CloseAll(output_set, File) /\ output_set' = {} /\ Wait
    BY <1>1, <1>5, Zenon
  <2>2. nb_connections' = 0
    BY <1>1, <1>2, <1>3, <1>5
  <2>3. IsFiniteSet(output_set') /\ Cardinality(output_set') = 0
    BY <2>1, FS_EmptySet
  <2>4. Cardinality(output_set') <= nb_connections' /\ nb_connections' \in 0 .. Crowd
    BY <2>2, <2>3
  <2>5. Counted'
    BY <2>2, <2>3 DEF Counted
  <2> QED BY <2>1, <2>2, <2>3, <2>4, <2>5, Zenon
<1> QED BY <1>4, <1>5

\* The number a client gets is none of output_set: they are all open.
LEMMA AcceptCounts ==
    ASSUME KlogTypes, NEW f \in Fd, output_set' = output_set \cup {f},
           nb_connections < Crowd, nb_connections' = nb_connections + 1
    PROVE  /\ IsFiniteSet(output_set') /\ Cardinality(output_set') <= nb_connections'
           /\ nb_connections' \in 0 .. Crowd
           /\ Counted /\ f \notin output_set => Counted'
<1>1. /\ IsFiniteSet(output_set \cup {f})
      /\ Cardinality(output_set \cup {f}) =
           IF f \in output_set THEN Cardinality(output_set) ELSE Cardinality(output_set) + 1
  BY FS_AddElement DEF KlogTypes
<1>2. Cardinality(output_set) \in Nat
  BY FS_CardinalityType DEF KlogTypes
<1> QED BY <1>1, <1>2 DEF KlogTypes, Counted

\* Only a failed select in the loop forgets clients.
LEMMA LostKept ==
    ASSUME KlogServe \/ KlogWaitFails \/ KlogOpen \/ KlogTimeout \/ KlogBreaks
             \/ KlogAccept \/ KlogByte
    PROVE  lost' = lost
BY Zenon DEF KlogServe, KlogWaitFails, KlogOpen, KlogTimeout, KlogBreaks, KlogAccept, KlogByte

LEMMA KlogTypesStep ==
    ASSUME KlogTypes, KlogNext
    PROVE  KlogTypes'
<1> USE DEF KlogTypes
<1>0. lost' \subseteq Fd
  <2>1. CASE KlogSelectFails
    BY <2>1 DEF KlogSelectFails
  <2> QED BY <2>1, LostKept DEF KlogNext
<1>1. CASE KlogServe
  BY <1>0, <1>1 DEF KlogServe, KlogAt
<1>2. CASE KlogWaitFails
  <2>1. /\ klog' = [pc |-> "down", sockfd |-> None, file_fd |-> None]
        /\ output_set' = output_set /\ nb_connections' = nb_connections
        /\ klog.pc = "wait"
    BY <1>2 DEF KlogWaitFails, KlogAt, Down
  <2> QED BY <1>0, <2>1
<1>3. CASE KlogOpen
  <2>1. \/ \E f \in Fd : klog' = [klog EXCEPT !.pc = "loop", !.file_fd = f]
        \/ klog' = [pc |-> "down", sockfd |-> None, file_fd |-> None]
    BY <1>3 DEF KlogOpen, Down
  <2>2. /\ IsFiniteSet(output_set') /\ Cardinality(output_set') = 0
        /\ output_set' = {} /\ nb_connections' = 0
    BY <1>3, NoneLeft DEF KlogOpen
  <2>3. /\ Cardinality(output_set') <= nb_connections' /\ nb_connections' \in 0 .. Crowd
        /\ output_set' \subseteq Fd
    BY <2>2
  <2>4. klog' \in [pc : {"down", "wait", "loop"}, sockfd : Fd \cup {None},
                  file_fd : Fd \cup {None}]
    <3>1. ASSUME NEW f \in Fd, klog' = [klog EXCEPT !.pc = "loop", !.file_fd = f]
          PROVE  klog' \in [pc : {"down", "wait", "loop"}, sockfd : Fd \cup {None},
                  file_fd : Fd \cup {None}]
      <4>1. klog' = [pc |-> "loop", sockfd |-> klog.sockfd, file_fd |-> f]
        BY <3>1
      <4>2. klog.sockfd \in Fd \cup {None}
        OBVIOUS
      <4> QED BY <4>1, <4>2
    <3>2. CASE klog' = [pc |-> "down", sockfd |-> None, file_fd |-> None]
      BY <3>2
    <3> QED BY <2>1, <3>1, <3>2
  <2> QED BY <1>0, <2>2, <2>3, <2>4
<1>4. CASE KlogTimeout
  <2>1. /\ IsFiniteSet(output_set') /\ Cardinality(output_set') = 0
        /\ output_set' = {} /\ nb_connections' = 0
    BY <1>4, NoneLeft DEF KlogTimeout
  <2>2. /\ Cardinality(output_set') <= nb_connections' /\ nb_connections' \in 0 .. Crowd
        /\ output_set' \subseteq Fd
    BY <2>1
  <2>3. klog' \in [pc : {"down", "wait", "loop"}, sockfd : Fd \cup {None},
                  file_fd : Fd \cup {None}]
    BY <1>4 DEF KlogTimeout, Wait
  <2> QED BY <1>0, <2>1, <2>2, <2>3
<1>5. CASE KlogSelectFails
  BY <1>0, <1>5, NoneLeft DEF KlogSelectFails, Down
<1>6. CASE KlogBreaks
  BY <1>0, <1>6, NoneLeft DEF KlogBreaks, Down
<1>7. CASE KlogAccept
  <2>1. PICK f \in Fd : output_set' = output_set \cup {f}
    BY <1>7, Zenon DEF KlogAccept
  <2>2. /\ IsFiniteSet(output_set') /\ Cardinality(output_set') <= nb_connections'
        /\ nb_connections' \in 0 .. Crowd
    BY <1>7, <2>1, AcceptCounts DEF KlogAccept
  <2> QED BY <1>0, <1>7, <2>1, <2>2 DEF KlogAccept, KlogSelect, KlogAt
<1>8. CASE KlogByte
  <2>1. PICK gone \in SUBSET output_set :
            /\ IsFiniteSet(output_set') /\ Cardinality(output_set') <= nb_connections'
            /\ nb_connections' \in 0 .. Crowd
            /\ \/ output_set' = output_set \ gone /\ UNCHANGED klog
               \/ output_set' = {} /\ nb_connections' = 0 /\ Wait
    BY <1>8, ByteCounts
  <2>2. klog.pc = "loop"
    BY <1>8 DEF KlogByte, KlogSelect, KlogAt
  <2> QED BY <1>0, <2>1, <2>2 DEF Wait
<1> QED BY <1>1, <1>2, <1>3, <1>4, <1>5, <1>6, <1>7, <1>8 DEF KlogNext

LEMMA KlogStepOwn ==
    ASSUME FtpTypeOK, KlogTypes, KlogRefers, KlogFound, Counted, KlogNext,
           stray = {}, stray' = {}
    PROVE  KlogRefers' /\ KlogFound' /\ Counted'
<1> USE DEF KlogTypes, KlogRefers, KlogFound, FtpTypeOK, FdTypeOK
<1>1. CASE KlogServe
  <2>0. lost' = lost
    BY <1>1, LostKept
  <2>1. Counted'
    BY <1>1 DEF KlogServe, Counted
  <2>2. PICK f \in Fd :
            /\ Lowest(f) /\ Open(f, "server", Klog)
            /\ \/ klog' = [klog EXCEPT !.pc = "wait", !.sockfd = f]
               \/ UNCHANGED klog
    BY <1>1 DEF KlogServe
  <2>3. klog.pc = "down" /\ output_set = {} /\ output_set' = {}
    BY <1>1 DEF KlogServe, KlogAt
  <2>4. KlogRefers'
    <3>1. CASE klog' = [klog EXCEPT !.pc = "wait", !.sockfd = f]
      <4>1. klog'.pc = "wait" /\ klog'.sockfd = f
        BY <3>1
      <4>2. kind'[f] = "server" /\ owner'[f] = Klog
        BY <2>2 DEF Open
      <4>3. \A g \in lost : kind'[g] = "client" /\ owner'[g] = Klog
        BY <2>2 DEF Open, Lowest, IsOpen
      <4> QED BY <2>0, <2>3, <4>1, <4>2, <4>3
    <3>2. CASE UNCHANGED klog
      <4>1. \A g \in lost : kind'[g] = "client" /\ owner'[g] = Klog
        BY <2>2 DEF Open, Lowest, IsOpen
      <4> QED BY <2>0, <2>3, <3>2, <4>1
    <3> QED BY <2>2, <3>1, <3>2
  <2>5. KlogFound'
    BY <2>0, <2>2, <2>3 DEF Open
  <2> QED BY <2>1, <2>4, <2>5
<1>2. CASE KlogWaitFails
  <2>1. /\ klog'.pc = "down" /\ klog.pc = "wait" /\ lost' = lost
        /\ output_set' = output_set /\ nb_connections' = nb_connections
        /\ kind' = kind /\ owner' = owner
    BY <1>2, LostKept DEF KlogWaitFails, KlogAt, Down, fdVars, table
  <2> QED BY <2>1 DEF Counted
<1>3. CASE KlogOpen
  <2>0. lost' = lost
    BY <1>3, LostKept
  <2>1. Counted'
    BY <1>3, NoneLeft DEF KlogOpen, Counted
  <2>2. output_set' = {} /\ output_set = {} /\ klog.pc = "wait"
    BY <1>3 DEF KlogOpen, NoClients, KlogAt
  <2>3. ASSUME NEW f \in Fd, Lowest(f), Open(f, "file", Klog),
               klog' = [klog EXCEPT !.pc = "loop", !.file_fd = f]
        PROVE  KlogRefers' /\ KlogFound'
    <3>1. f # klog.sockfd
      BY <1>3, <2>3 DEF KlogOpen, Lowest
    <3>2. klog'.pc = "loop" /\ klog'.file_fd = f /\ klog'.sockfd = klog.sockfd
      BY <2>3
    <3>3. KlogRefers'
      BY <2>0, <2>2, <2>3, <3>1, <3>2 DEF Open, Lowest, IsOpen
    <3>4. KlogFound'
      BY <2>0, <2>2, <2>3, <3>1, <3>2 DEF Open
    <3> QED BY <3>3, <3>4
  <2>4. CASE CloseAll({}, Sock) /\ Down
    <3>1. klog'.pc = "down"
      BY <2>4 DEF Down
    <3>2. \A f \in Fd : kind'[f] = "closed" \/ (kind'[f] = kind[f] /\ owner'[f] = owner[f])
      BY <2>4 DEF CloseAll, Closed
    <3>3. \A f \in lost : kind'[f] = kind[f] /\ owner'[f] = owner[f]
      BY <2>2, <2>4 DEF CloseAll, Closed, Sock
    <3> QED BY <2>0, <2>1, <2>2, <3>1, <3>2, <3>3
  <2> QED BY <1>3, <2>1, <2>3, <2>4 DEF KlogOpen
<1>4. CASE KlogTimeout
  <2>1. Counted' /\ output_set' = {}
    BY <1>4, NoneLeft DEF KlogTimeout, Counted
  <2>2. CloseAll(output_set, File) /\ Wait /\ klog.pc = "loop"
    BY <1>4 DEF KlogTimeout, KlogSelect, KlogAt
  <2>3. klog'.pc = "wait" /\ klog'.sockfd = klog.sockfd /\ lost' = lost
    BY <1>4, <2>2, LostKept DEF Wait
  <2>4. Closed(output_set \cup {klog.file_fd})
    BY <2>2 DEF CloseAll, File
  <2> QED BY <2>1, <2>2, <2>3, <2>4 DEF Closed
<1>5. CASE KlogSelectFails
  <2>1. Counted' /\ output_set' = {} /\ klog'.pc = "down" /\ klog.pc = "loop"
    BY <1>5, NoneLeft DEF KlogSelectFails, Counted, KlogAt, Down
  <2>2. lost' = lost \cup output_set
    BY <1>5 DEF KlogSelectFails
  <2>3. Closed({klog.file_fd, klog.sockfd})
    <3>1. {} \cup (File \cup Sock) = {klog.file_fd, klog.sockfd}
      BY DEF File, Sock
    <3>2. CloseAll({}, File \cup Sock)
      BY <1>5 DEF KlogSelectFails
    <3>3. Closed({} \cup (File \cup Sock))
      BY <3>2 DEF CloseAll
    <3> QED BY <3>1, <3>3
  <2> QED BY <2>1, <2>2, <2>3 DEF Closed
<1>6. CASE KlogBreaks
  <2>1. Counted' /\ output_set' = {}
    BY <1>6, NoneLeft DEF KlogBreaks, Counted
  <2>2. CloseAll(output_set, File \cup Sock) /\ Down /\ klog.pc = "loop"
    BY <1>6 DEF KlogBreaks, KlogSelect, KlogAt
  <2>3. klog'.pc = "down" /\ lost' = lost
    BY <1>6, <2>2, LostKept DEF Down
  <2>4. Closed(output_set \cup {klog.file_fd, klog.sockfd})
    <3>1. output_set \cup (File \cup Sock) = output_set \cup {klog.file_fd, klog.sockfd}
      BY DEF File, Sock
    <3> QED BY <2>2, <3>1 DEF CloseAll
  <2> QED BY <2>1, <2>2, <2>3, <2>4 DEF Closed
<1>7. CASE KlogAccept
  <2>0. lost' = lost
    BY <1>7, LostKept
  <2>1. PICK f \in Fd : Lowest(f) /\ Open(f, "client", Klog) /\ output_set' = output_set \cup {f}
    BY <1>7, Zenon DEF KlogAccept
  <2>2. ~IsOpen(f)
    BY <2>1 DEF Lowest
  <2>3. f \notin output_set
    BY <2>2 DEF IsOpen
  <2>4. Counted'
    BY <1>7, <2>1, <2>3, AcceptCounts DEF KlogAccept
  <2>5. KlogRefers'
    BY <1>7, <2>0, <2>1, <2>2 DEF KlogAccept, Open, IsOpen
  <2>6. KlogFound'
    BY <1>7, <2>0, <2>1, <2>2 DEF KlogAccept, Open, IsOpen
  <2> QED BY <2>4, <2>5, <2>6
<1>8. CASE KlogByte
  <2>0. lost' = lost
    BY <1>8, LostKept
  <2>1. PICK gone \in SUBSET output_set :
            /\ Counted'
            /\ \/ CloseAll(gone, {}) /\ output_set' = output_set \ gone /\ UNCHANGED klog
               \/ CloseAll(output_set, File) /\ output_set' = {} /\ Wait
    BY <1>8, ByteCounts
  <2>2. klog.pc = "loop"
    BY <1>8 DEF KlogByte, KlogSelect, KlogAt
  <2>3. CASE CloseAll(gone, {}) /\ output_set' = output_set \ gone /\ UNCHANGED klog
    <3>1. klog.sockfd \notin gone /\ klog.file_fd \notin gone
      BY <2>2
    <3>2. Closed(gone)
      <4>1. gone \cup {} = gone
        OBVIOUS
      <4> QED BY <2>3, <4>1 DEF CloseAll
    <3>3. KlogRefers'
      BY <2>0, <2>2, <2>3, <3>1, <3>2 DEF Closed
    <3>4. KlogFound'
      BY <2>0, <2>2, <2>3, <3>1, <3>2 DEF Closed
    <3> QED BY <2>1, <3>3, <3>4
  <2>4. CASE CloseAll(output_set, File) /\ output_set' = {} /\ Wait
    <3>1. klog'.pc = "wait" /\ klog'.sockfd = klog.sockfd
      BY <2>4 DEF Wait
    <3>2. Closed(output_set \cup {klog.file_fd})
      BY <2>4 DEF CloseAll, File
    <3> QED BY <2>0, <2>1, <2>2, <2>4, <3>1, <3>2 DEF Closed
  <2> QED BY <2>1, <2>3, <2>4
<1> QED BY <1>1, <1>2, <1>3, <1>4, <1>5, <1>6, <1>7, <1>8 DEF KlogNext

LEMMA KlogStepKInv ==
    ASSUME KInv, KlogNext, UNCHANGED ftpVars
    PROVE  KInv'
<1>1. IInv'
  BY KlogStepIInv DEF KInv
<1>2. KlogTypes'
  BY KlogTypesStep DEF KInv
<1>3. ASSUME stray' = {} PROVE KlogRefers' /\ KlogFound' /\ Counted'
  <2>1. FtpTypeOK /\ Alive /\ stray = {}
    BY <1>3, KlogNextMine, KlogNextAlive DEF KInv, IInv
  <2> QED BY <1>3, <2>1, KlogStepOwn DEF KInv
<1> QED BY <1>1, <1>2, <1>3 DEF KInv

LEMMA KInvSame ==
    ASSUME KInv, UNCHANGED <<vars, klogVars>>
    PROVE  KInv'
<1>1. IInv'
  BY IInvStep DEF KInv
<1>2. KlogTypes'
  BY DEF KInv, KlogTypes, klogVars
<1>3. (Alive /\ stray = {})' => KlogRefers' /\ KlogFound' /\ Counted'
  BY DEF KInv, KlogRefers, KlogFound, Counted, Alive, vars, fdVars, table, klogVars
<1> QED BY <1>1, <1>2, <1>3 DEF KInv

LEMMA KInvInductive == Safety => []KInv
<1>1. KInv /\ UNCHANGED serverVars => KInv'
  BY KInvSame DEF serverVars
<1>2. KInv /\ [Next]_serverVars => KInv'
  <2>1. ASSUME KInv, Next PROVE KInv'
    <3>1. CASE pthread_ftp
      BY <2>1, <3>1, KInvSame DEF pthread_ftp
    <3>2. CASE FtpRuns(FtpNext)
      BY <2>1, <3>2, FtpStepKInv DEF FtpRuns
    <3>3. CASE KlogRuns(KlogNext)
      BY <2>1, <3>3, KlogStepKInv DEF KlogRuns
    <3> QED BY <2>1, <3>1, <3>2, <3>3 DEF Next
  <2> QED BY <1>1, <2>1
<1> QED BY <1>2, InitKInv, PTL DEF Safety

------------------------------------------------------------------------------
LEMMA KInvCounted == KInv => ClientsCounted
<1> SUFFICES ASSUME KInv, Alive, stray = {}
             PROVE  /\ nb_connections = Cardinality(output_set)
                    /\ output_set \cap lost = {}
                    /\ output_set \cup lost = Holds(Klog, {"client"})
    BY DEF ClientsCounted
<1>1. output_set \cap lost = {} /\ output_set \cup lost = Holds(Klog, {"client"})
  BY DEF KInv, KlogTypes, KlogRefers, KlogFound, Holds, Is, IsOwn, IsOpen
<1> QED BY <1>1 DEF KInv, Counted

LEMMA KInvIdle == KInv => KlogHoldsNothingIdle
<1> SUFFICES ASSUME KInv, stray = {}, klog.pc # "loop", NEW f \in Holds(Klog, {"client", "file"})
             PROVE  kind[f] = "client" /\ f \in lost
    BY DEF KlogHoldsNothingIdle, Holds, Is, IsOwn, IsOpen
<1>1. f \in Fd /\ kind[f] \in {"client", "file"} /\ owner[f] = Klog
  BY DEF Holds, Is, IsOwn, IsOpen
<1>2. Alive
  BY <1>1 DEF KInv, IInv
<1> QED BY <1>1, <1>2 DEF KInv, KlogFound, KlogTypes

LEMMA KInvApart == KInv => ServicesApart
<1> SUFFICES ASSUME KInv, Alive, stray = {}
             PROVE  /\ klog.pc # "down" => klog.sockfd \in Holds(Klog, {"server"})
                    /\ klog.pc = "loop" => klog.file_fd \in Holds(Klog, {"file"})
                    /\ srv = "up" => srvfd \in Holds(Server, {"server"})
                    /\ \A s \in Session : OwnActive(s) /\ OwnFile(s) /\ OwnData(s)
    BY DEF ServicesApart
<1>1. Ownership
  BY IInvOwnership DEF KInv
<1>2. /\ klog.pc # "down" => klog.sockfd \in Holds(Klog, {"server"})
      /\ klog.pc = "loop" => klog.file_fd \in Holds(Klog, {"file"})
  BY DEF KInv, KlogRefers, Holds, Is, IsOwn, IsOpen
<1> QED BY <1>1, <1>2 DEF Ownership

\* The klog thread's variables keep the values the code can give them: the
\* count never falls below zero, even where stale numbers were closed.
THEOREM KlogTypeCorrect == Safety => []KlogTypeOK
<1>1. KInv => KlogTypeOK
  BY DEF KInv, KlogTypes, KlogTypeOK
<1> QED BY <1>1, KInvInductive, PTL

\* The count is the number of clients, and the clients are all it holds: the
\* loop ends with its last client.
THEOREM CountIsTrue == Safety => []ClientsCounted
BY KInvCounted, KInvInductive, PTL

\* Between two crowds neither the device nor a client stays open.
THEOREM IdleHoldsNothing == Safety => []KlogHoldsNothingIdle
BY KInvIdle, KInvInductive, PTL

\* Side by side in one table, neither service takes a descriptor of the
\* other until a stale number is closed.
THEOREM ApartFromEachOther == Safety => []ServicesApart
BY KInvApart, KInvInductive, PTL
=============================================================================

--------------------------- MODULE FtpServerProofs ---------------------------
(***************************************************************************)
(* Proofs about FtpServer, for every number of connections, every size of  *)
(* the descriptor table, every bound and every set of faults.              *)
(***************************************************************************)
EXTENDS FtpServer, TLAPS

\* A thread that has its control connection.
Live == {"greet", "idle", "pasv", "open", "copy", "end_active"}

\* A thread that may have a PASV socket.
MayListen == {"idle", "open", "copy", "end_active", "end_passive"}

\* What the variables of a thread refer to.
Refers(s) ==
    /\ pc[s] \in Live =>
        /\ active_fd[s] \in Fd
        /\ kind[active_fd[s]] = "control"
        /\ owner[active_fd[s]] = s
        /\ passive_fd[s] # active_fd[s]
        /\ data_fd[s] # active_fd[s]
    /\ pc[s] \in {"open", "copy"} =>
        /\ fd[s] \in Fd
        /\ kind[fd[s]] = IF cmd[s] = "LIST" THEN "dir" ELSE "file"
        /\ owner[fd[s]] = s
    /\ pc[s] = "copy" =>
        /\ data_fd[s] \in Fd
        /\ kind[data_fd[s]] = "data"
        /\ owner[data_fd[s]] = s

\* Conversely, where a descriptor of the thread is found.
Found(s) ==
    \A f \in Fd : kind[f] # "closed" /\ owner[f] = s =>
        /\ kind[f] = "control" => pc[s] \in Live /\ f = active_fd[s]
        /\ kind[f] = "passive" => pc[s] \in MayListen /\ f = passive_fd[s]
        /\ kind[f] = "data" => pc[s] = "copy" /\ f = data_fd[s]
        /\ kind[f] = "file" => pc[s] \in {"open", "copy"} /\ f = fd[s]
        /\ kind[f] \notin {"server", "client"}

Listens ==
    srv = "up" => /\ srvfd \in Fd
              /\ kind[srvfd] = "server"
              /\ owner[srvfd] = Server

\* The inductive invariant.
IInv ==
    /\ FtpTypeOK
    /\ ~Alive => \A f \in Fd : kind[f] = "closed"
    /\ Alive /\ stray = {} => Listens /\ \A s \in Session : Refers(s) /\ Found(s)

USE FdAssumption, SessionAssumption

------------------------------------------------------------------------------
LEMMA InitIInv == FtpInit => IInv
BY DEF Alive, FdInit, FtpInit, IInv, FtpTypeOK, FdTypeOK, Listens, Refers, Found, Kind, Step, None, Live, MayListen, Transfer

\* What a last reply does to the thread.
LEMMA ReplyGoto ==
    ASSUME NEW s \in Session, Reply(s)
    PROVE  Goto(s, "idle") \/ Goto(s, "end_active")
BY DEF Reply

LEMMA GotoType ==
    ASSUME NEW s \in Session, NEW step \in Step, Goto(s, step),
           pc \in [Session -> Step]
    PROVE  pc' \in [Session -> Step]
BY DEF Goto

LEMMA ReplyType ==
    ASSUME NEW s \in Session, Reply(s), pc \in [Session -> Step]
    PROVE  pc' \in [Session -> Step]
BY ReplyGoto, GotoType DEF Step

LEMMA SpendType ==
    ASSUME NEW s \in Session, Spend(s), left \in [Session -> 0 .. Budget]
    PROVE  left' \in [Session -> 0 .. Budget]
<1>1. left[s] \in 0 .. Budget /\ left[s] > 0
  BY DEF Spend
<1>2. left[s] - 1 \in 0 .. Budget
  BY <1>1
<1> QED BY <1>2 DEF Spend

LEMMA MisuseType ==
    ASSUME NEW names, names \subseteq Way, stray \subseteq Way, Misuse(names)
    PROVE  stray' \subseteq Way
BY DEF Misuse

LEMMA ReachedType ==
    ASSUME NEW o, NEW way \in Way, NEW fs
    PROVE  Reached(o, way, fs) \subseteq Way
BY DEF Reached

LEMMA CloseType ==
    ASSUME NEW o, NEW way \in Way, NEW fs, FdTypeOK, UNCHANGED process, Close(o, way, fs)
    PROVE  FdTypeOK'
<1>1. stray' \subseteq Way
  BY MisuseType, ReachedType DEF Close, FdTypeOK
<1> QED BY <1>1 DEF FdTypeOK, Close, Closed

LEMMA TypeStep == FtpTypeOK /\ [FtpNext]_vars => FtpTypeOK'
<1> SUFFICES ASSUME FtpTypeOK, [FtpNext]_vars PROVE FtpTypeOK'
    OBVIOUS
<1> USE DEF FtpTypeOK
<1>1. CASE Serve
  BY <1>1 DEF Serve, FdTypeOK, Kind, Open, table, srvVars, envVars, runVars, threadVars
<1>2. CASE AcceptFails
  BY <1>2, CloseType DEF AcceptFails, Way, srvVars, envVars, runVars, threadVars
<1>3. ASSUME NEW s \in Session, Accept(s) PROVE FtpTypeOK'
  BY <1>3 DEF Accept, FdTypeOK, Kind, Open, NewEnv, Goto, Step, srvVars, envVars, runVars
<1>4. ASSUME NEW s \in Session, Greet(s) \/ Command(s) PROVE FtpTypeOK'
  BY <1>4, ReplyType DEF Greet, Command, FdTypeOK, fdVars, table, srvVars, envVars, runVars
<1>5. ASSUME NEW s \in Session, Leave(s) PROVE FtpTypeOK'
  BY <1>5, GotoType DEF Leave, Step, FdTypeOK, fdVars, table, srvVars, envVars, runVars
<1>6. ASSUME NEW s \in Session, KILL(s) PROVE FtpTypeOK'
  BY <1>6 DEF KILL, Exit, FdTypeOK, Closed, srvVars, envVars, runVars, threadVars
<1>7. ASSUME NEW s \in Session, PasvClose(s) PROVE FtpTypeOK'
  <2> USE <1>7 DEF PasvClose
  <2>1. FdTypeOK'
    BY CloseType DEF Way
  <2>2. pc' \in [Session -> Step]
    BY GotoType DEF Step
  <2>3. left' \in [Session -> 0 .. Budget]
    BY SpendType
  <2> QED BY <2>1, <2>2, <2>3 DEF srvVars, envVars, runVars
<1>8. ASSUME NEW s \in Session, PasvNoSocket(s) PROVE FtpTypeOK'
  BY <1>8, ReplyType DEF PasvNoSocket, FdTypeOK, fdVars, table, srvVars, runVars
<1>9. ASSUME NEW s \in Session, PasvUndone(s) PROVE FtpTypeOK'
  BY <1>9, ReplyType DEF PasvUndone, FdTypeOK, fdVars, table, srvVars, runVars
<1>10. ASSUME NEW s \in Session, PasvListens(s) PROVE FtpTypeOK'
  BY <1>10, ReplyType DEF PasvListens, FdTypeOK, Kind, Open, srvVars, runVars
<1>11. ASSUME NEW s \in Session, PORT(s) PROVE FtpTypeOK'
  <2> USE <1>11 DEF PORT
  <2>1. FdTypeOK'
    BY DEF FdTypeOK, Kind, Open, table
  <2>2. left' \in [Session -> 0 .. Budget]
    BY SpendType
  <2>3. data_fd' \in [Session -> Fd \cup {None}] /\ sin_port' \in [Session -> {"zero", "set"}]
    OBVIOUS
  <2> QED BY <2>1, <2>2, <2>3, ReplyType DEF srvVars, runVars
<1>12. ASSUME NEW s \in Session, StartTransfer(s) PROVE FtpTypeOK'
  <2> USE <1>12 DEF StartTransfer
  <2>1. FdTypeOK'
    BY DEF FdTypeOK, Kind, Open, table
  <2>2. left' \in [Session -> 0 .. Budget]
    BY SpendType
  <2>3. pc' \in [Session -> Step]
    BY GotoType DEF Step
  <2>4. cmd' \in [Session -> Transfer \cup {"none"}] /\ fd' \in [Session -> Fd \cup {None}]
    BY DEF Run, runVars
  <2> QED BY <2>1, <2>2, <2>3, <2>4 DEF srvVars, envVars
<1>13. ASSUME NEW s \in Session, DataConnect(s) PROVE FtpTypeOK'
  <2> USE <1>13 DEF DataConnect
  <2>1. FdTypeOK'
    <3>1. stray' \subseteq Way
      BY MisuseType, ReachedType DEF FdTypeOK, Way
    <3> QED BY <3>1 DEF FdTypeOK, Kind, Open, Is, IsOpen
  <2> QED BY <2>1, GotoType DEF Step, srvVars, envVars, runVars
<1>14. ASSUME NEW s \in Session, DataAccept(s) PROVE FtpTypeOK'
  <2> USE <1>14 DEF DataAccept
  <2>1. FdTypeOK'
    <3>1. stray' \subseteq Way
      BY MisuseType, ReachedType DEF FdTypeOK, Way
    <3> QED BY <3>1 DEF FdTypeOK, Kind, Open
  <2>2. data_fd' \in [Session -> Fd \cup {None}]
    OBVIOUS
  <2> QED BY <2>1, <2>2, GotoType DEF Step, srvVars, runVars
<1>15. ASSUME NEW s \in Session, DataOpenFails(s) PROVE FtpTypeOK'
  <2> USE <1>15 DEF DataOpenFails
  <2>1. FdTypeOK'
    <3>1. CASE cmd[s] = "LIST"
      BY <3>1 DEF FdTypeOK, fdVars, table
    <3>2. CASE cmd[s] # "LIST"
      BY <3>2, CloseType DEF Way
    <3> QED BY <3>1, <3>2
  <2>2. data_fd' \in [Session -> Fd \cup {None}]
    OBVIOUS
  <2>3. cmd' \in [Session -> Transfer \cup {"none"}] /\ fd' \in [Session -> Fd \cup {None}]
    BY DEF Return, Run
  <2> QED BY <2>1, <2>2, <2>3, ReplyType DEF srvVars
<1>16. ASSUME NEW s \in Session, EndTransfer(s) PROVE FtpTypeOK'
  <2> USE <1>16 DEF EndTransfer
  <2>1. FdTypeOK'
    <3>1. Reached(s, "data_fd", {data_fd[s]}) \cup Reached(s, "fd", {fd[s]}) \subseteq Way
      BY ReachedType DEF Way
    <3>2. stray' \subseteq Way
      BY <3>1, MisuseType DEF FdTypeOK
    <3> QED BY <3>2 DEF FdTypeOK, Closed
  <2>2. cmd' \in [Session -> Transfer \cup {"none"}] /\ fd' \in [Session -> Fd \cup {None}]
    BY DEF Return, Run
  <2> QED BY <2>1, <2>2, ReplyType DEF srvVars, envVars
<1>17. ASSUME NEW s \in Session, EndActive(s) \/ EndPassive(s) PROVE FtpTypeOK'
  <2>1. FdTypeOK'
    BY <1>17, CloseType DEF EndActive, EndPassive, Way
  <2> QED BY <1>17, <2>1, GotoType DEF EndActive, EndPassive, Step, srvVars, envVars, runVars
<1>18. ASSUME NEW s \in Session, EndData(s) PROVE FtpTypeOK'
  <2>1. FdTypeOK'
    BY <1>18, CloseType DEF EndData, Way
  <2> QED BY <1>18, <2>1, GotoType DEF EndData, NewEnv, Step, srvVars, runVars
<1>19. CASE UNCHANGED vars
  BY <1>19 DEF FdTypeOK, vars, fdVars, table, ftpVars, srvVars, threadVars, envVars, runVars
<1>20. CASE ServeExits
  BY <1>20 DEF ServeExits, Exit, FdTypeOK, Closed, srvVars, envVars, runVars, threadVars
<1> QED
  BY <1>1, <1>2, <1>3, <1>4, <1>5, <1>6, <1>7, <1>8, <1>9, <1>10, <1>11, <1>12, <1>13,
     <1>14, <1>15, <1>16, <1>17, <1>18, <1>19, <1>20 DEF FtpNext, SessionStep
------------------------------------------------------------------------------
(***************************************************************************)
(* A step of one thread, seen from the others.                             *)
(***************************************************************************)
\* The variables of thread t are left alone.
Same(t) ==
    /\ pc'[t] = pc[t]
    /\ active_fd'[t] = active_fd[t]
    /\ passive_fd'[t] = passive_fd[t]
    /\ data_fd'[t] = data_fd[t]
    /\ cmd'[t] = cmd[t]
    /\ fd'[t] = fd[t]

\* Of the table, only free entries and entries of o change, and what o opens
\* belongs to o or to the listener.
Mine(o) ==
    \A f \in Fd :
        \/ kind'[f] = kind[f] /\ owner'[f] = owner[f]
        \/ ~Foreign(o, f) /\ (kind'[f] = "closed" \/ owner'[f] \in {o, Server})

LEMMA OthersKept ==
    ASSUME FtpTypeOK, FtpTypeOK', NEW o, Mine(o),
           NEW t \in Session, t # o, Same(t), Refers(t), Found(t)
    PROVE  Refers(t)' /\ Found(t)'
<1> USE DEF Same, Mine, Foreign, IsOpen
<1>1. \A f \in Fd : kind[f] # "closed" /\ owner[f] = t => kind'[f] = kind[f] /\ owner'[f] = t
  OBVIOUS
<1>2. \A f \in Fd : kind'[f] # "closed" /\ owner'[f] = t => kind'[f] = kind[f] /\ owner[f] = t
  OBVIOUS
<1>3. Refers(t)'
  BY <1>1 DEF Refers
<1>4. Found(t)'
  <2> SUFFICES ASSUME NEW f \in Fd, kind'[f] # "closed", owner'[f] = t
               PROVE  /\ kind'[f] = "control" => pc'[t] \in Live /\ f = active_fd'[t]
                      /\ kind'[f] = "passive" => pc'[t] \in MayListen /\ f = passive_fd'[t]
                      /\ kind'[f] = "data" => pc'[t] = "copy" /\ f = data_fd'[t]
                      /\ kind'[f] = "file" => pc'[t] \in {"open", "copy"} /\ f = fd'[t]
                      /\ kind'[f] \notin {"server", "client"}
    BY Zenon DEF Found
  <2>1. kind'[f] = kind[f] /\ owner[f] = t
    BY <1>2
  <2>2. /\ kind[f] = "control" => pc[t] \in Live /\ f = active_fd[t]
        /\ kind[f] = "passive" => pc[t] \in MayListen /\ f = passive_fd[t]
        /\ kind[f] = "data" => pc[t] = "copy" /\ f = data_fd[t]
        /\ kind[f] = "file" => pc[t] \in {"open", "copy"} /\ f = fd[t]
        /\ kind[f] \notin {"server", "client"}
    BY <2>1, Zenon DEF Found
  <2> QED BY <2>1, <2>2
<1> QED BY <1>3, <1>4

LEMMA ListensKept ==
    ASSUME NEW s \in Session, Mine(s), UNCHANGED srvVars, Listens
    PROVE  Listens'
BY DEF Listens, Mine, Foreign, IsOpen, srvVars

LEMMA NoReach ==
    ASSUME NEW o, NEW way, NEW fs, Misuse(Reached(o, way, fs)), stray = {}, stray' = {}
    PROVE  \A f \in fs : ~Foreign(o, f)
BY DEF Misuse, Reached

\* The three ways a step changes the table.
LEMMA OpenMine ==
    ASSUME FtpTypeOK, NEW o, NEW p \in {o, Server}, NEW f \in Fd, NEW k,
           ~Foreign(o, f), Open(f, k, p)
    PROVE  Mine(o)
BY DEF Mine, Open, FtpTypeOK, FdTypeOK

LEMMA ClosedMine ==
    ASSUME NEW o, NEW fs, \A f \in fs : ~Foreign(o, f), Closed(fs)
    PROVE  Mine(o)
BY DEF Mine, Closed

LEMMA SameTableMine ==
    ASSUME NEW o, UNCHANGED table
    PROVE  Mine(o)
BY DEF Mine, table

LEMMA CloseMine ==
    ASSUME NEW o, NEW way, NEW fs, Close(o, way, fs), stray = {}, stray' = {}
    PROVE  Mine(o)
BY NoReach, ClosedMine DEF Close

LEMMA LowestFree ==
    ASSUME NEW f, Lowest(f), NEW o
    PROVE  ~IsOpen(f) /\ ~Foreign(o, f)
BY DEF Lowest, Foreign

LEMMA SessionStepMine ==
    ASSUME FtpTypeOK, NEW s \in Session, SessionStep(s), Alive', stray = {}, stray' = {}
    PROVE  Mine(s)
<1>1. CASE Greet(s) \/ Command(s) \/ Leave(s) \/ PasvNoSocket(s) \/ PasvUndone(s)
  BY <1>1, SameTableMine DEF Greet, Command, Leave, PasvNoSocket, PasvUndone, fdVars
<1>2. CASE KILL(s)
  BY <1>2 DEF KILL, Exit, Alive
<1>3. CASE PasvClose(s)
  BY <1>3, CloseMine DEF PasvClose
<1>4. CASE PasvListens(s)
  BY <1>4, LowestFree, OpenMine DEF PasvListens
<1>5. CASE PORT(s)
  BY <1>5, LowestFree, OpenMine, SameTableMine DEF PORT
<1>6. CASE StartTransfer(s)
  BY <1>6, LowestFree, OpenMine, SameTableMine DEF StartTransfer
<1>7. CASE DataConnect(s)
  <2>1. data_fd[s] \in Fd /\ kind[data_fd[s]] # "closed" /\ ~Foreign(s, data_fd[s])
    BY <1>7, NoReach DEF DataConnect, Is, IsOpen
  <2>2. owner[data_fd[s]] = s
    BY <2>1 DEF Foreign, IsOpen
  <2> QED BY <1>7, <2>1, <2>2, OpenMine DEF DataConnect
<1>8. CASE DataAccept(s)
  BY <1>8, LowestFree, OpenMine DEF DataAccept
<1>9. CASE DataOpenFails(s)
  BY <1>9, CloseMine, SameTableMine DEF DataOpenFails, fdVars
<1>10. CASE EndTransfer(s)
  <2>1. \A f \in {data_fd[s], fd[s]} : ~Foreign(s, f)
    BY <1>10 DEF EndTransfer, Misuse, Reached
  <2> QED BY <1>10, <2>1, ClosedMine DEF EndTransfer
<1>11. CASE EndActive(s) \/ EndPassive(s) \/ EndData(s)
  BY <1>11, CloseMine DEF EndActive, EndPassive, EndData
<1> QED
  BY <1>1, <1>2, <1>3, <1>4, <1>5, <1>6, <1>7, <1>8, <1>9, <1>10, <1>11 DEF SessionStep

LEMMA SessionStepSame ==
    ASSUME FtpTypeOK, NEW s \in Session, SessionStep(s)
    PROVE  UNCHANGED srvVars /\ \A t \in Session \ {s} : Same(t)
<1> USE DEF Same, FtpTypeOK, Goto, Run, Return, envVars, runVars
<1>1. CASE Greet(s) \/ Command(s) \/ Leave(s)
  BY <1>1, ReplyGoto DEF Greet, Command, Leave
<1>2. CASE KILL(s)
  BY <1>2 DEF KILL, threadVars
<1>3. CASE PasvClose(s)
  BY <1>3 DEF PasvClose
<1>4. CASE PasvNoSocket(s) \/ PasvUndone(s) \/ PasvListens(s)
  BY <1>4, ReplyGoto DEF PasvNoSocket, PasvUndone, PasvListens
<1>5. CASE PORT(s)
  BY <1>5, ReplyGoto DEF PORT
<1>6. CASE StartTransfer(s)
  BY <1>6 DEF StartTransfer
<1>7. CASE DataConnect(s) \/ DataAccept(s)
  BY <1>7 DEF DataConnect, DataAccept
<1>8. CASE DataOpenFails(s)
  BY <1>8, ReplyGoto DEF DataOpenFails
<1>9. CASE EndTransfer(s)
  BY <1>9, ReplyGoto DEF EndTransfer
<1>10. CASE EndActive(s) \/ EndPassive(s)
  BY <1>10 DEF EndActive, EndPassive
<1>11. CASE EndData(s)
  BY <1>11 DEF EndData, NewEnv
<1> QED
  BY <1>1, <1>2, <1>3, <1>4, <1>5, <1>6, <1>7, <1>8, <1>9, <1>10, <1>11 DEF SessionStep
------------------------------------------------------------------------------
(***************************************************************************)
(* A step, seen from the thread that takes it.                             *)
(***************************************************************************)
LEMMA SessionStepOwn ==
    ASSUME FtpTypeOK, FtpTypeOK', NEW s \in Session, SessionStep(s),
           Refers(s), Found(s), Alive', stray = {}, stray' = {}
    PROVE  Refers(s)' /\ Found(s)'
<1> USE DEF FtpTypeOK, FdTypeOK, Refers, Found, Live, MayListen, At, envVars, runVars
<1>1. CASE Greet(s) \/ Command(s) \/ Leave(s)
  BY <1>1, ReplyGoto DEF Greet, Command, Leave, Goto, fdVars, table
<1>2. CASE KILL(s)
  BY <1>2 DEF KILL, Exit, Alive
<1>3. CASE PasvClose(s)
  BY <1>3, NoReach DEF PasvClose, Close, Closed, Goto, Foreign, IsOpen
<1>4. CASE PasvNoSocket(s)
  BY <1>4, ReplyGoto DEF PasvNoSocket, Goto, fdVars, table, None
<1>5. CASE PasvUndone(s)
  BY <1>5, ReplyGoto DEF PasvUndone, Goto, fdVars, table, Lowest, IsOpen
<1>6. CASE PasvListens(s)
  BY <1>6, ReplyGoto DEF PasvListens, Goto, Open, Lowest, IsOpen
<1>7. CASE PORT(s)
  <2> USE <1>7 DEF PORT, Goto
  <2>1. pc[s] = "idle" /\ pc'[s] \in {"idle", "end_active"}
    BY ReplyGoto
  <2>2. CASE data_fd' = [data_fd EXCEPT ![s] = None] /\ UNCHANGED table
    BY <2>1, <2>2 DEF table, None
  <2>3. ASSUME NEW f \in Fd, Lowest(f), Open(f, "port", s),
               data_fd' = [data_fd EXCEPT ![s] = f]
        PROVE  Refers(s)' /\ Found(s)'
    BY <2>1, <2>3 DEF Open, Lowest, IsOpen
  <2> QED BY <2>2, <2>3
<1>8. CASE StartTransfer(s)
  <2> USE <1>8 DEF StartTransfer, Goto
  <2>1. PICK c \in Transfer, f \in Fd :
          /\ Lowest(f)
          /\ \/ /\ Open(f, IF c = "LIST" THEN "dir" ELSE "file", s)
                /\ Run(s, c, f)
                /\ Goto(s, "open")
             \/ Goto(s, "end_active") /\ UNCHANGED <<table, runVars>>
    BY Zenon
  <2>2. CASE Open(f, IF c = "LIST" THEN "dir" ELSE "file", s) /\ Run(s, c, f) /\ Goto(s, "open")
    <3>1. Refers(s)'
      BY <2>1, <2>2 DEF Open, Lowest, IsOpen, Run
    <3>2. Found(s)'
      BY <2>1, <2>2 DEF Open, Lowest, IsOpen, Run
    <3> QED BY <3>1, <3>2
  <2>3. CASE Goto(s, "end_active") /\ UNCHANGED <<table, runVars>>
    BY <2>1, <2>3 DEF table
  <2> QED BY <2>1, <2>2, <2>3
<1>9. CASE DataConnect(s)
  BY <1>9, NoReach DEF DataConnect, Goto, Open, Is, Foreign, IsOpen
<1>10. CASE DataAccept(s)
  BY <1>10 DEF DataAccept, Goto, Open, Lowest, IsOpen
<1>11. CASE DataOpenFails(s)
  <2> USE <1>11 DEF DataOpenFails
  <2>1. pc[s] = "open" /\ pc'[s] \in {"idle", "end_active"}
    BY ReplyGoto DEF Goto
  <2>2. data_fd'[s] \in {data_fd[s], None}
    OBVIOUS
  <2>3. CASE cmd[s] = "LIST"
    BY <2>1, <2>2, <2>3 DEF fdVars, table, None
  <2>4. CASE cmd[s] # "LIST"
    <3>1. Closed({fd[s]})
      BY <2>4 DEF Close
    <3> QED BY <2>1, <2>2, <2>4, <3>1 DEF Closed, None
  <2> QED BY <2>3, <2>4
<1>12. CASE EndTransfer(s)
  <2> USE <1>12 DEF EndTransfer
  <2>1. pc[s] = "copy" /\ pc'[s] \in {"idle", "end_active"}
    BY ReplyGoto DEF Goto
  <2>2. Closed({data_fd[s], fd[s]})
    OBVIOUS
  <2>3. Refers(s)'
    BY <2>1, <2>2 DEF Closed
  <2>4. Found(s)'
    BY <2>1, <2>2 DEF Closed
  <2> QED BY <2>3, <2>4
<1>13. CASE EndActive(s)
  BY <1>13 DEF EndActive, Goto, Close, Closed
<1>14. CASE EndPassive(s)
  BY <1>14 DEF EndPassive, Goto, Close, Closed
<1>15. CASE EndData(s)
  BY <1>15 DEF EndData, NewEnv, Goto, Close, Closed
<1> QED
  BY <1>1, <1>2, <1>3, <1>4, <1>5, <1>6, <1>7, <1>8, <1>9, <1>10, <1>11, <1>12, <1>13,
     <1>14, <1>15 DEF SessionStep
------------------------------------------------------------------------------
(***************************************************************************)
(* The invariant and what follows from it.                                 *)
(***************************************************************************)
\* A step may end a thread's plan, it does not restore it: neither exit nor
\* a stray close is undone.
LEMMA Backwards ==
    ASSUME FtpNext, Alive', stray' = {}
    PROVE  Alive /\ stray = {}
BY ZenonT(60) DEF FtpNext, SessionStep, Alive, Misuse, Close, At, fdVars,
       Serve, ServeExits, Exit, AcceptFails, Accept, Greet, Command, Leave, KILL, PasvClose, PasvNoSocket,
       PasvUndone, PasvListens, PORT, StartTransfer, DataConnect, DataAccept, DataOpenFails,
       EndTransfer, EndActive, EndPassive, EndData

LEMMA ExitCloses ==
    ASSUME FtpNext, ~Alive'
    PROVE  \A f \in Fd : kind'[f] = "closed"
<1>1. ServeExits \/ \E s \in Session : KILL(s)
  BY DEF FtpNext, SessionStep, Alive, At, fdVars,
       Serve, AcceptFails, Accept, Greet, Command, Leave, PasvClose, PasvNoSocket,
       PasvUndone, PasvListens, PORT, StartTransfer, DataConnect, DataAccept, DataOpenFails,
       EndTransfer, EndActive, EndPassive, EndData
<1> QED BY <1>1 DEF ServeExits, KILL, Exit, Closed

LEMMA IInvStep == IInv /\ [FtpNext]_vars => IInv'
<1> SUFFICES ASSUME IInv, [FtpNext]_vars PROVE IInv'
    OBVIOUS
<1>1. FtpTypeOK /\ FtpTypeOK'
  BY TypeStep DEF IInv
<1>2. CASE UNCHANGED vars
  BY <1>1, <1>2 DEF IInv, Alive, Listens, Refers, Found, vars, fdVars, table, ftpVars, srvVars,
     threadVars, envVars, runVars
<1>3. ASSUME FtpNext, Alive', stray' = {}
      PROVE  Listens' /\ \A t \in Session : Refers(t)' /\ Found(t)'
  <2>1. stray = {} /\ Listens /\ \A t \in Session : Refers(t) /\ Found(t)
    BY <1>3, Backwards DEF IInv
  <2>2. CASE Serve
    <3>1. Mine(Server)
      BY <1>1, <2>2, LowestFree, OpenMine DEF Serve
    <3>2. \A t \in Session : Same(t)
      BY <2>2 DEF Serve, Same, threadVars, envVars, runVars
    <3>3. Listens'
      BY <1>1, <2>1, <2>2 DEF Serve, Listens, Open, srvVars, FtpTypeOK, FdTypeOK, Lowest, IsOpen
    <3> QED BY <1>1, <2>1, <3>1, <3>2, <3>3, OthersKept
  <2>3. CASE AcceptFails
    <3>1. Mine(Server)
      BY <1>3, <2>1, <2>3, CloseMine DEF AcceptFails
    <3>2. \A t \in Session : Same(t)
      BY <2>3 DEF AcceptFails, Same, threadVars, envVars, runVars
    <3>3. Listens'
      BY <2>3 DEF AcceptFails, Listens
    <3> QED BY <1>1, <2>1, <3>1, <3>2, <3>3, OthersKept
  <2>4. ASSUME NEW s \in Session, Accept(s)
        PROVE  Listens' /\ \A t \in Session : Refers(t)' /\ Found(t)'
    <3>1. Mine(s) /\ UNCHANGED srvVars
      BY <1>1, <2>4, LowestFree, OpenMine DEF Accept
    <3>2. \A t \in Session \ {s} : Same(t)
      BY <1>1, <2>4 DEF Accept, Same, NewEnv, Goto, FtpTypeOK, envVars, runVars
    <3>3. Refers(s)' /\ Found(s)'
      <4>1. pc[s] = "new" /\ Refers(s) /\ Found(s)
        BY <2>1, <2>4 DEF Accept
      <4>2. PICK f \in Fd :
              /\ Lowest(f)
              /\ \/ Open(f, "control", s) /\ NewEnv(s, f) /\ Goto(s, "greet")
                 \/ Open(f, "control", Server) /\ UNCHANGED <<pc, envVars>>
        BY <2>4, Zenon DEF Accept
      <4>3. CASE Open(f, "control", s) /\ NewEnv(s, f) /\ Goto(s, "greet")
        BY <1>1, <4>1, <4>2, <4>3 DEF FtpTypeOK, FdTypeOK, Open, NewEnv, Goto, Refers, Found,
           Live, MayListen, None
      <4>4. CASE Open(f, "control", Server) /\ UNCHANGED <<pc, envVars>>
        BY <1>1, <4>1, <4>2, <4>4 DEF FtpTypeOK, FdTypeOK, Open, Refers, Found,
           Live, MayListen
      <4> QED BY <4>2, <4>3, <4>4
    <3> QED BY <1>1, <2>1, <3>1, <3>2, <3>3, OthersKept, ListensKept
  <2>5. ASSUME NEW s \in Session, SessionStep(s)
        PROVE  Listens' /\ \A t \in Session : Refers(t)' /\ Found(t)'
    <3>1. Mine(s)
      BY <1>1, <1>3, <2>1, <2>5, SessionStepMine
    <3>2. UNCHANGED srvVars /\ \A t \in Session \ {s} : Same(t)
      BY <1>1, <2>5, SessionStepSame
    <3>3. Refers(s)' /\ Found(s)'
      BY <1>1, <1>3, <2>1, <2>5, SessionStepOwn
    <3> QED BY <1>1, <2>1, <3>1, <3>2, <3>3, OthersKept, ListensKept
  <2>6. CASE ServeExits
    BY <1>3, <2>6 DEF ServeExits, Exit, Alive
  <2> QED BY <1>3, <2>2, <2>3, <2>4, <2>5, <2>6 DEF FtpNext
<1>4. ASSUME FtpNext PROVE IInv'
  BY <1>1, <1>3, <1>4, ExitCloses DEF IInv
<1> QED BY <1>2, <1>4

\* Every variable keeps the values the code can give it.
THEOREM FtpTypeCorrect == FtpSpec => []FtpTypeOK
<1>1. FtpInit => FtpTypeOK
  BY InitIInv DEF IInv
<1> QED BY <1>1, TypeStep, PTL DEF FtpSpec

LEMMA FtpInductive == FtpSpec => []IInv
BY InitIInv, IInvStep, PTL DEF FtpSpec

LEMMA IInvOwnership == IInv => Ownership
<1> SUFFICES ASSUME IInv, Alive, stray = {} PROVE
      /\ srv = "up" => srvfd \in Holds(Server, {"server"})
      /\ \A s \in Session : OwnActive(s) /\ OwnPassive(s) /\ OwnData(s) /\ OwnFile(s)
    BY DEF Ownership
<1> USE DEF IInv, FtpTypeOK, FdTypeOK, Holds, Is, IsOwn, IsOpen
<1>1. srv = "up" => srvfd \in Holds(Server, {"server"})
  BY DEF Listens
<1>2. ASSUME NEW s \in Session
      PROVE  OwnActive(s) /\ OwnPassive(s) /\ OwnData(s) /\ OwnFile(s)
  <2>1. Refers(s) /\ Found(s) /\ pc[s] \in Step
    OBVIOUS
  <2>2. OwnActive(s)
    BY <2>1 DEF OwnActive, Refers, Live, Step
  <2>3. OwnPassive(s)
    BY <2>1 DEF OwnPassive, Found, MayListen
  <2>4. OwnData(s)
    <3>1. CASE pc[s] = "copy"
      <4>1. \A f \in Fd : f \in Holds(s, {"data"}) <=> f = data_fd[s]
        <5>1. ASSUME NEW f \in Holds(s, {"data"}) PROVE f = data_fd[s]
          BY <2>1, <5>1 DEF Found
        <5>2. data_fd[s] \in Fd /\ kind[data_fd[s]] = "data" /\ owner[data_fd[s]] = s
          BY <2>1, <3>1 DEF Refers
        <5>3. data_fd[s] \in Holds(s, {"data"})
          BY <5>2
        <5> QED BY <5>1, <5>3
      <4>2. data_fd[s] \in Fd
        BY <2>1, <3>1 DEF Refers
      <4> QED BY <3>1, <4>1, <4>2 DEF OwnData
    <3>2. CASE pc[s] # "copy"
      BY <2>1, <3>2 DEF OwnData, Found
    <3> QED BY <3>1, <3>2
  <2>5. OwnFile(s)
    BY <2>1 DEF OwnFile, Refers
  <2> QED BY <2>2, <2>3, <2>4, <2>5
<1> QED BY <1>1, <1>2

LEMMA IInvEnded == IInv => EndedSessionHoldsNothing
<1> SUFFICES ASSUME IInv, NEW s \in Session, stray = {}, pc[s] = "done",
                    NEW f \in Holds(s, Kind \ {"port", "dir"})
             PROVE  FALSE
    BY DEF EndedSessionHoldsNothing
<1>1. f \in Fd /\ kind[f] # "closed" /\ kind[f] \in Kind \ {"port", "dir"} /\ owner[f] = s
  BY DEF Holds, Is, IsOwn, IsOpen
<1>2. Alive /\ Found(s)
  BY <1>1 DEF IInv
<1> QED BY <1>1, <1>2 DEF Found, Live, MayListen, Kind

\* For every number of connections: until a stale number is closed, every
\* thread works on descriptors of its own.
THEOREM OwnershipHolds == FtpSpec => []Ownership
BY FtpInductive, IInvOwnership, PTL

\* And a connection that has ended has given back what it closes at all.
THEOREM EndedHoldsNothing == FtpSpec => []EndedSessionHoldsNothing
BY FtpInductive, IInvEnded, PTL

------------------------------------------------------------------------------
(***************************************************************************)
(* The first stray.                                                        *)
(***************************************************************************)
Stale == {"data_fd", "passive_fd", "connect", "accept"}

LEMMA CloseReaches ==
    ASSUME NEW o, NEW way, NEW fs, Close(o, way, fs), stray = {}
    PROVE  stray' \subseteq {way}
BY DEF Close, Misuse, Reached

\* The number is the thread's own: nothing stray.
LEMMA CloseOwn ==
    ASSUME NEW o, NEW way, NEW f, ~Foreign(o, f), Close(o, way, {f}), stray = {}
    PROVE  stray' = {}
BY DEF Close, Misuse, Reached

LEMMA FirstStray ==
    ASSUME IInv, [FtpNext]_vars, stray = {}
    PROVE  stray' \subseteq Stale
<1> USE DEF Stale
<1>1. CASE UNCHANGED vars
  BY <1>1 DEF vars, fdVars
<1>2. CASE Serve \/ ServeExits
  BY <1>2 DEF Serve, ServeExits, Exit
<1>3. CASE AcceptFails
  <2>1. ~Foreign(Server, srvfd)
    BY <1>3 DEF AcceptFails, IInv, Listens, Foreign
  <2> QED BY <1>3, <2>1, CloseOwn DEF AcceptFails
<1>4. ASSUME NEW s \in Session, Accept(s) PROVE stray' \subseteq Stale
  BY <1>4 DEF Accept
<1>5. ASSUME NEW s \in Session, SessionStep(s) PROVE stray' \subseteq Stale
  <2>1. Alive /\ Refers(s)
    BY <1>5 DEF IInv, SessionStep, At, Greet, Command, Leave, KILL, PasvClose, PasvNoSocket,
       PasvUndone, PasvListens, PORT, StartTransfer, DataConnect, DataAccept, DataOpenFails,
       EndTransfer, EndActive, EndPassive, EndData
  <2>2. CASE \/ Greet(s) \/ Command(s) \/ Leave(s) \/ KILL(s) \/ PasvNoSocket(s)
             \/ PasvUndone(s) \/ PasvListens(s) \/ PORT(s) \/ StartTransfer(s)
    BY <2>2 DEF Greet, Command, Leave, KILL, Exit, PasvNoSocket, PasvUndone, PasvListens, PORT,
       StartTransfer, fdVars
  <2>3. CASE PasvClose(s) \/ EndPassive(s)
    BY <2>3, CloseReaches DEF PasvClose, EndPassive
  <2>4. CASE DataConnect(s) \/ DataAccept(s)
    BY <2>4 DEF DataConnect, DataAccept, Misuse, Reached
  <2>5. CASE DataOpenFails(s)
    <3>1. ~Foreign(s, fd[s])
      BY <2>1, <2>5 DEF DataOpenFails, At, Refers, Foreign
    <3> QED BY <2>5, <3>1, CloseOwn DEF DataOpenFails, fdVars
  <2>6. CASE EndTransfer(s)
    <3>1. ~Foreign(s, fd[s]) /\ ~Foreign(s, data_fd[s])
      BY <2>1, <2>6 DEF EndTransfer, At, Refers, Foreign
    <3> QED BY <2>6, <3>1 DEF EndTransfer, Misuse, Reached
  <2>7. CASE EndActive(s)
    <3>1. ~Foreign(s, active_fd[s])
      BY <2>1, <2>7 DEF EndActive, At, Refers, Foreign, Live
    <3> QED BY <2>7, <3>1, CloseOwn DEF EndActive
  <2>8. CASE EndData(s)
    BY <2>8, CloseReaches DEF EndData
  <2> QED BY <1>5, <2>2, <2>3, <2>4, <2>5, <2>6, <2>7, <2>8 DEF SessionStep
<1> QED BY <1>1, <1>2, <1>3, <1>4, <1>5 DEF FtpNext

\* Only the two variables that keep the number of a closed descriptor lead a
\* thread to another thread's entry first.
THEOREM FirstStrayHolds == FtpSpec => FirstStrayIsStale
<1>1. IInv /\ [FtpNext]_vars => [stray = {} => stray' \subseteq Stale]_stray
  BY FirstStray
<1>2. QED
  BY <1>1, FtpInductive, PTL DEF FtpSpec, FirstStrayIsStale, Stale
==============================================================================

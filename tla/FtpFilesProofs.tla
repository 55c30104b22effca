--------------------------- MODULE FtpFilesProofs ---------------------------
(***************************************************************************)
(* Proofs about FtpFiles, for every number of connections, paths and       *)
(* files, every length of a transfer and every number of commands.         *)
(***************************************************************************)
EXTENDS FtpFiles, TLAPS

Storing == {"STOR", "APPE", "reset"}

\* What a thread's variables say, whoever changes its file.
Counts(s) ==
    /\ (job[s] = "none" <=> file[s] = Absent)
    /\ job[s] = "appe" => path[s] \in Name /\ data_offset[s] = Len(old[s])
    /\ job[s] = "APPE" => first[s] = Len(old[s])
    /\ job[s] \in {"STOR", "APPE"} =>
            pos[s] = first[s] + Len(got[s]) /\ off[s] = first[s] + Len(got[s])
    /\ job[s] = "RETR" => pos[s] = Len(got[s])

\* And what its file contains, if nobody does.
Contents(s) ==
    s \notin disturbed =>
        /\ job[s] \in {"appe", "RETR"} => data[file[s]] = old[s]
        /\ job[s] \in Storing => data[file[s]] = Stored(old[s], first[s], got[s])
        /\ job[s] = "RETR" =>
            /\ Len(got[s]) <= Len(old[s])
            /\ \A i \in 1 .. Len(got[s]) : got[s][i] = old[s][i]

HistoryTypes ==
    /\ first \in [Session -> Nat]
    /\ old \in [Session -> Seq(Byte)] /\ got \in [Session -> Seq(Byte)]

\* The inductive invariant.
IInv == FilesTypeOK /\ HistoryTypes /\ \A s \in Session : Counts(s) /\ Contents(s)

USE FilesAssumption

------------------------------------------------------------------------------
(***************************************************************************)
(* Files.                                                                  *)
(***************************************************************************)
LEMMA WriteType ==
    ASSUME NEW c \in Seq(Byte), NEW n \in Nat, NEW b \in Byte
    PROVE  Write(c, n, b) \in Seq(Byte)
BY DEF Write, Byte

LEMMA ResizeType ==
    ASSUME NEW c \in Seq(Byte), NEW n \in Nat
    PROVE  Resize(c, n) \in Seq(Byte)
BY DEF Resize, Byte

LEMMA StoredNothing ==
    ASSUME NEW c \in Seq(Byte), NEW n \in Nat
    PROVE  Stored(c, n, <<>>) = c
BY DEF Stored

\* One more byte.
LEMMA StoredByte ==
    ASSUME NEW c \in Seq(Byte), NEW n \in Nat, NEW b \in Seq(Byte), NEW x \in Byte
    PROVE  Write(Stored(c, n, b), n + Len(b), x) = Stored(c, n, Append(b, x))
<1> DEFINE f == Stored(c, n, b)
           len == IF n + Len(b) < Len(c) THEN Len(c) ELSE n + Len(b) + 1
<1>1. f = [i \in 1 .. (IF b = <<>> \/ n + Len(b) < Len(c) THEN Len(c) ELSE n + Len(b)) |->
            IF i \in n + 1 .. n + Len(b) THEN b[i - n]
            ELSE IF i <= Len(c) THEN c[i] ELSE Empty]
  BY DEF Stored
<1>2. Len(f) \in Nat /\ Len(f) = IF b = <<>> \/ n + Len(b) < Len(c) THEN Len(c) ELSE n + Len(b)
  BY <1>1
<1>3. \A i \in 1 .. Len(f) : f[i] = IF i \in n + 1 .. n + Len(b) THEN b[i - n]
                                   ELSE IF i <= Len(c) THEN c[i] ELSE Empty
  BY <1>1, <1>2
<1> HIDE DEF f
<1>4. Write(f, n + Len(b), x) = [i \in 1 .. len |->
            IF i \in n + 1 .. n + Len(b) + 1 THEN Append(b, x)[i - n]
            ELSE IF i <= Len(c) THEN c[i] ELSE Empty]
  <2>1. (IF n + Len(b) < Len(f) THEN Len(f) ELSE n + Len(b) + 1) = len
    BY <1>2
  <2>2. ASSUME NEW i \in 1 .. len
        PROVE  (IF i = n + Len(b) + 1 THEN x ELSE IF i <= Len(f) THEN f[i] ELSE Empty)
                 = IF i \in n + 1 .. n + Len(b) + 1 THEN Append(b, x)[i - n]
                   ELSE IF i <= Len(c) THEN c[i] ELSE Empty
    <3>1. CASE i = n + Len(b) + 1
      BY <3>1
    <3>2. CASE i \in n + 1 .. n + Len(b)
      <4>1. i \in 1 .. Len(f) /\ f[i] = b[i - n]
        BY <1>2, <1>3, <3>2
      <4>2. Append(b, x)[i - n] = b[i - n]
        BY <3>2
      <4> QED
        BY <3>2, <4>1, <4>2
    <3>3. CASE i \notin n + 1 .. n + Len(b) + 1
      <4>1. i <= Len(f) => f[i] = IF i <= Len(c) THEN c[i] ELSE Empty
        BY <1>2, <1>3, <3>3
      <4>2. i > Len(f) => i > Len(c)
        BY <1>2, <3>3
      <4> QED
        BY <1>2, <3>3, <4>1, <4>2
    <3> QED
      BY <3>1, <3>2, <3>3
  <2>3. Write(f, n + Len(b), x) =
            [i \in 1 .. len |-> IF i = n + Len(b) + 1 THEN x ELSE IF i <= Len(f) THEN f[i] ELSE Empty]
    BY <2>1 DEF Write
  <2> HIDE DEF len
  <2> QED
    BY <2>2, <2>3, Zenon
<1>5. Stored(c, n, Append(b, x)) = [i \in 1 .. len |->
            IF i \in n + 1 .. n + Len(b) + 1 THEN Append(b, x)[i - n]
            ELSE IF i <= Len(c) THEN c[i] ELSE Empty]
  <2> DEFINE ab == Append(b, x)
  <2>1. ab # <<>> /\ Len(ab) = Len(b) + 1
    OBVIOUS
  <2> HIDE DEF ab
  <2>2. (IF ab = <<>> \/ n + Len(ab) < Len(c) THEN Len(c) ELSE n + Len(ab)) = len
    BY <2>1
  <2>3. \A i : i \in n + 1 .. n + Len(ab) <=> i \in n + 1 .. n + Len(b) + 1
    BY <2>1
  <2> HIDE DEF len
  <2> QED
    BY <2>2, <2>3, Zenon DEF Stored, ab
<1> HIDE DEF len
<1> QED
  BY <1>4, <1>5, Zenon DEF f

\* The end.
LEMMA StoredCut ==
    ASSUME NEW c \in Seq(Byte), NEW n \in Nat, NEW b \in Seq(Byte)
    PROVE  Resize(Stored(c, n, b), n + Len(b)) = Resize(c, n) \o b
BY DEF Stored, Resize

LEMMA ResizeSame ==
    ASSUME NEW c \in Seq(Byte) PROVE Resize(c, Len(c)) = c
BY DEF Resize

------------------------------------------------------------------------------
(***************************************************************************)
(* Steps.                                                                  *)
(***************************************************************************)
SessionStep(s) ==
    \/ REST(s)      \/ RNFR(s)         \/ RNTO(s)      \/ DELE(s)
    \/ STOR(s)      \/ AppeAtOffset(s) \/ AppeStat(s)  \/ AppeStore(s)
    \/ StorByte(s)  \/ StorReset(s)    \/ StorFails(s) \/ StorEnds(s)
    \/ RETR(s)      \/ RetrByte(s)     \/ RetrEnds(s)  \/ RetrFails(s)

RunTypes ==
    /\ job \in [Session -> Job]
    /\ path \in [Session -> Name \cup {Absent}]
    /\ file \in [Session -> File \cup {Absent}]
    /\ pos \in [Session -> Nat] /\ off \in [Session -> Nat \cup {-1}]
    /\ HistoryTypes

DiskTypes ==
    /\ names \in [Name -> File \cup {Absent}]
    /\ DOMAIN data = File /\ \A f \in File : data[f] \in Seq(Byte)

Types ==
    /\ DiskTypes /\ RunTypes
    /\ data_offset \in [Session -> Int]
    /\ rename_path \in [Session -> Name \cup {Absent}]
    /\ disturbed \subseteq Session

LEMMA SameTypes == Types <=> FilesTypeOK /\ HistoryTypes
BY DEF Types, DiskTypes, RunTypes, FilesTypeOK

\* A thread that is set to work, or has come to the end of it.
LEMMA BeginRun ==
    ASSUME RunTypes, NEW s \in Session, NEW cmd \in Job, NEW p \in Name \cup {Absent},
           NEW f \in File \cup {Absent}, NEW start \in Nat, NEW contents \in Seq(Byte),
           Begin(s, cmd, p, f, start, contents)
    PROVE  /\ RunTypes'
           /\ job'[s] = cmd /\ path'[s] = p /\ file'[s] = f /\ pos'[s] = start /\ off'[s] = start
           /\ first'[s] = start /\ old'[s] = contents /\ got'[s] = <<>>
           /\ \A t \in Session \ {s} :
                /\ job'[t] = job[t] /\ path'[t] = path[t] /\ file'[t] = file[t] /\ pos'[t] = pos[t] /\ off'[t] = off[t]
                /\ first'[t] = first[t] /\ old'[t] = old[t] /\ got'[t] = got[t]
BY DEF Begin, RunTypes, HistoryTypes

\* open(O_CREAT) leaves the contents of what is open.
LEMMA OpensDisk ==
    ASSUME DiskTypes, NEW p \in Name, NEW f \in File, Opens(p, f)
    PROVE  /\ DiskTypes'
           /\ \A t \in Session : file[t] \in File => data'[file[t]] = data[file[t]]
<1>1. CASE UNCHANGED diskVars
  BY <1>1 DEF diskVars, DiskTypes
<1>2. CASE /\ ~Named(f) /\ \A t \in Session : file[t] # f
           /\ names' = [names EXCEPT ![p] = f]
           /\ data' = [data EXCEPT ![f] = <<>>]
  <2>1. names' \in [Name -> File \cup {Absent}]
    BY <1>2 DEF DiskTypes
  <2>2. DOMAIN data' = File /\ \A g \in File : data'[g] = IF g = f THEN <<>> ELSE data[g]
    BY <1>2 DEF DiskTypes
  <2>3. <<>> \in Seq(Byte)
    OBVIOUS
  <2> QED
    BY <1>2, <2>1, <2>2, <2>3 DEF DiskTypes
<1> QED
  BY <1>1, <1>2 DEF Opens

LEMMA ChangeDisk ==
    ASSUME Types, NEW s \in Session, file[s] \in File, NEW c \in Seq(Byte), Change(s, c), UNCHANGED names
    PROVE  /\ DiskTypes' /\ data'[file[s]] = c
           /\ \A t \in Session \ {s} :
                t \notin disturbed' /\ job[t] # "none" => data'[file[t]] = data[file[t]]
           /\ disturbed \subseteq disturbed' /\ disturbed' \subseteq Session
           /\ s \in disturbed' <=> s \in disturbed
BY DEF Types, DiskTypes, Change, Users, Idle

\* What a store may do before its copy loop.
LEMMA StoreStep ==
    ASSUME IInv, NEW s \in Session, NEW cmd \in {"STOR", "APPE"}, NEW p \in Name, Store(s, cmd, p)
    PROVE  /\ DiskTypes' /\ data_offset' \in [Session -> Int]
           /\ \A t \in Session \ {s} : data_offset'[t] = data_offset[t]
           /\ \A t \in Session : file[t] \in File => data'[file[t]] = data[file[t]]
           /\ \/ Finish(s) /\ UNCHANGED disturbed
              \/ \E f \in File :
                    /\ data_offset[s] >= 0
                    /\ IF cmd = "APPE"
                       THEN /\ Begin(s, cmd, p, f, data_offset[s], old[s])
                            /\ disturbed' = IF f = file[s] THEN disturbed ELSE disturbed \cup {s}
                       ELSE /\ Begin(s, cmd, p, f, data_offset[s], data'[f])
                            /\ disturbed' = disturbed \ {s}
<1>1. DiskTypes /\ data_offset \in [Session -> Int]
  BY SameTypes DEF IInv, Types
<1>2. /\ data_offset' \in [Session -> Int]
      /\ \A t \in Session \ {s} : data_offset'[t] = data_offset[t]
  BY <1>1 DEF Store
<1>3. CASE Finish(s) /\ UNCHANGED <<diskVars, disturbed>>
  BY <1>1, <1>2, <1>3 DEF diskVars, DiskTypes
<1>4. CASE \E f \in File :
            /\ Opens(p, f)
            /\ \/ Finish(s) /\ UNCHANGED disturbed
               \/ /\ data_offset[s] >= 0
                  /\ IF cmd = "APPE"
                     THEN /\ Begin(s, cmd, p, f, data_offset[s], old[s])
                          /\ disturbed' = IF f = file[s] THEN disturbed
                                          ELSE disturbed \cup {s}
                     ELSE /\ Begin(s, cmd, p, f, data_offset[s], data'[f])
                          /\ disturbed' = disturbed \ {s}
  <2>1. PICK f \in File :
            /\ Opens(p, f)
            /\ \/ Finish(s) /\ UNCHANGED disturbed
               \/ /\ data_offset[s] >= 0
                  /\ IF cmd = "APPE"
                     THEN /\ Begin(s, cmd, p, f, data_offset[s], old[s])
                          /\ disturbed' = IF f = file[s] THEN disturbed
                                          ELSE disturbed \cup {s}
                     ELSE /\ Begin(s, cmd, p, f, data_offset[s], data'[f])
                          /\ disturbed' = disturbed \ {s}
    BY <1>4
  <2>2. DiskTypes' /\ \A t \in Session : file[t] \in File => data'[file[t]] = data[file[t]]
    BY <1>1, <2>1, OpensDisk
  <2> QED
    BY <1>2, <2>1, <2>2, Zenon
<1> QED
  BY <1>3, <1>4 DEF Store

\* The thread that takes a step, and the others.
Kept(s) ==
    /\ Types'
    /\ \A t \in Session \ {s} :
        /\ job'[t] = job[t] /\ path'[t] = path[t] /\ file'[t] = file[t] /\ pos'[t] = pos[t] /\ off'[t] = off[t]
        /\ first'[t] = first[t] /\ old'[t] = old[t] /\ got'[t] = got[t]
        /\ data_offset'[t] = data_offset[t]
        /\ t \notin disturbed' => t \notin disturbed
        /\ t \notin disturbed' /\ job[t] # "none" => data'[file[t]] = data[file[t]]

LEMMA KeptInv ==
    ASSUME IInv, NEW s \in Session, Kept(s), Counts(s)', Contents(s)'
    PROVE  IInv'
<1>1. FilesTypeOK' /\ HistoryTypes'
  BY SameTypes DEF Kept, Types, RunTypes, DiskTypes, FilesTypeOK
<1>2. ASSUME NEW t \in Session \ {s} PROVE Counts(t)' /\ Contents(t)'
  <2>1. Counts(t)'
    BY <1>2 DEF IInv, Kept, Counts
  <2>2. Contents(t)'
    BY <1>2 DEF IInv, Kept, Counts, Contents, Storing
  <2> QED
    BY <2>1, <2>2
<1> QED
  BY <1>1, <1>2 DEF IInv

\* A thread that is at work has a file, and the reverse.
LEMMA AtWork ==
    ASSUME IInv, NEW s \in Session
    PROVE  Types /\ Counts(s) /\ Contents(s) /\ (job[s] # "none" => file[s] \in File)
BY SameTypes DEF IInv, Counts, Types, RunTypes

LEMMA FinishInv ==
    ASSUME IInv, NEW s \in Session, Finish(s), DiskTypes', disturbed' \subseteq Session,
           data_offset' \in [Session -> Int], UNCHANGED rename_path,
           \A t \in Session \ {s} :
                /\ data_offset'[t] = data_offset[t]
                /\ t \notin disturbed' => t \notin disturbed
                /\ t \notin disturbed' /\ job[t] # "none" => data'[file[t]] = data[file[t]]
    PROVE  IInv'
<1>1. /\ RunTypes' /\ job'[s] = "none" /\ file'[s] = Absent /\ pos'[s] = 0 /\ off'[s] = 0
      /\ first'[s] = 0 /\ old'[s] = <<>> /\ got'[s] = <<>>
      /\ \A t \in Session \ {s} :
           /\ job'[t] = job[t] /\ path'[t] = path[t] /\ file'[t] = file[t] /\ pos'[t] = pos[t] /\ off'[t] = off[t]
           /\ first'[t] = first[t] /\ old'[t] = old[t] /\ got'[t] = got[t]
  <2>1. "none" \in Job /\ <<>> \in Seq(Byte) /\ 0 \in Nat /\ Absent \in Name \cup {Absent} /\ Absent \in File \cup {Absent}
    BY DEF Job
  <2>2. RunTypes /\ Begin(s, "none", Absent, Absent, 0, <<>>)
    BY AtWork DEF Types, Finish
  <2> QED
    BY <2>1, <2>2 DEF Begin, RunTypes, HistoryTypes
<1>2. Kept(s)
  BY <1>1, AtWork DEF Kept, Types
<1>3. Counts(s)' /\ Contents(s)'
  BY <1>1 DEF Counts, Contents, Storing
<1> QED
  BY <1>2, <1>3, KeptInv

\* The commands on names.
LEMMA NamesInv ==
    ASSUME IInv, NEW s \in Session, REST(s) \/ RNFR(s) \/ RNTO(s) \/ DELE(s)
    PROVE  IInv'
<1>1. Types /\ Counts(s) /\ Contents(s) /\ job[s] = "none"
  BY AtWork DEF REST, RNFR, RNTO, DELE, Idle
<1>2. UNCHANGED runVars /\ UNCHANGED data
  BY DEF REST, RNFR, RNTO, DELE, diskVars
<1>3. /\ names' \in [Name -> File \cup {Absent}] /\ rename_path' \in [Session -> Name \cup {Absent}]
      /\ data_offset' \in [Session -> Int]
      /\ \A t \in Session \ {s} : data_offset'[t] = data_offset[t]
  <2>1. CASE REST(s) \/ RNFR(s)
    BY <1>1, <2>1 DEF REST, RNFR, diskVars, Types, DiskTypes
  <2>2. CASE RNTO(s)
    <3>1. PICK q \in Name : names' = [names EXCEPT ![q] = names[rename_path[s]], ![rename_path[s]] = Absent]
      BY <2>2 DEF RNTO
    <3>2. rename_path[s] \in Name
      BY <1>1, <2>2 DEF RNTO, Types
    <3> QED
      BY <1>1, <2>2, <3>1, <3>2 DEF RNTO, Types, DiskTypes
  <2>3. CASE DELE(s)
    BY <1>1, <2>3 DEF DELE, Types, DiskTypes
  <2> QED
    BY <2>1, <2>2, <2>3
<1>4. disturbed \subseteq disturbed' /\ disturbed' \subseteq Session
  BY <1>1 DEF REST, RNFR, RNTO, DELE, Users, Types
<1>5. Kept(s)
  BY <1>1, <1>2, <1>3, <1>4 DEF Kept, Types, DiskTypes, RunTypes, HistoryTypes, runVars
<1>6. Counts(s)' /\ Contents(s)'
  BY <1>1, <1>2 DEF Counts, Contents, runVars, Storing
<1> QED
  BY <1>5, <1>6, KeptInv

\* STOR and the second half of APPE.
LEMMA StoreInv ==
    ASSUME IInv, NEW s \in Session, NEW cmd \in {"STOR", "APPE"}, NEW p \in Name, Store(s, cmd, p),
           UNCHANGED rename_path,
           cmd = "APPE" => job[s] = "appe"
    PROVE  IInv'
<1>1. /\ Types /\ Counts(s) /\ Contents(s)
      /\ (job[s] # "none" => file[s] \in File)
      /\ \A t \in Session : job[t] # "none" => file[t] \in File
  BY AtWork
<1>2. /\ DiskTypes' /\ data_offset' \in [Session -> Int]
      /\ \A t \in Session \ {s} : data_offset'[t] = data_offset[t]
      /\ \A t \in Session : file[t] \in File => data'[file[t]] = data[file[t]]
  BY StoreStep
<1>3. CASE Finish(s) /\ UNCHANGED disturbed
  BY <1>1, <1>2, <1>3, FinishInv DEF Types
<1>4. ASSUME NEW f \in File, cmd = "STOR", data_offset[s] >= 0,
             Begin(s, cmd, p, f, data_offset[s], data'[f]), disturbed' = disturbed \ {s}
      PROVE  IInv'
  <2>1. data_offset[s] \in Nat /\ data'[f] \in Seq(Byte) /\ cmd \in Job
    BY <1>1, <1>2, <1>4 DEF Types, DiskTypes, Job
  <2>2. /\ RunTypes' /\ job'[s] = "STOR" /\ file'[s] = f /\ pos'[s] = data_offset[s]
        /\ off'[s] = data_offset[s] /\ first'[s] = data_offset[s] /\ old'[s] = data'[f] /\ got'[s] = <<>>
        /\ \A t \in Session \ {s} :
             /\ job'[t] = job[t] /\ path'[t] = path[t] /\ file'[t] = file[t] /\ pos'[t] = pos[t] /\ off'[t] = off[t]
             /\ first'[t] = first[t] /\ old'[t] = old[t] /\ got'[t] = got[t]
    BY <1>1, <1>4, <2>1, BeginRun DEF Types
  <2>3. Kept(s)
    BY <1>1, <1>2, <1>4, <2>2 DEF Kept, Types
  <2>4. Counts(s)'
    BY <2>1, <2>2 DEF Counts
  <2>5. Contents(s)'
    BY <2>1, <2>2, StoredNothing DEF Contents
  <2> QED
    BY <2>3, <2>4, <2>5, KeptInv
<1>5. ASSUME NEW f \in File, cmd = "APPE", data_offset[s] >= 0,
             Begin(s, cmd, p, f, data_offset[s], old[s]),
             disturbed' = IF f = file[s] THEN disturbed ELSE disturbed \cup {s}
      PROVE  IInv'
  <2>1. data_offset[s] \in Nat /\ data_offset[s] = Len(old[s]) /\ old[s] \in Seq(Byte) /\ cmd \in Job
    BY <1>1, <1>5 DEF Types, RunTypes, HistoryTypes, Counts, Job
  <2>2. /\ RunTypes' /\ job'[s] = "APPE" /\ file'[s] = f /\ pos'[s] = data_offset[s]
        /\ off'[s] = data_offset[s] /\ first'[s] = data_offset[s] /\ old'[s] = old[s] /\ got'[s] = <<>>
        /\ \A t \in Session \ {s} :
             /\ job'[t] = job[t] /\ path'[t] = path[t] /\ file'[t] = file[t] /\ pos'[t] = pos[t] /\ off'[t] = off[t]
             /\ first'[t] = first[t] /\ old'[t] = old[t] /\ got'[t] = got[t]
    BY <1>1, <1>5, <2>1, BeginRun DEF Types
  <2>3. Kept(s)
    BY <1>1, <1>2, <1>5, <2>2 DEF Kept, Types
  <2>4. Counts(s)'
    BY <2>1, <2>2 DEF Counts
  <2>5. s \notin disturbed' => data'[f] = old[s]
    BY <1>1, <1>2, <1>5 DEF Contents
  <2>6. Contents(s)'
    BY <2>1, <2>2, <2>5, StoredNothing DEF Contents
  <2> QED
    BY <2>3, <2>4, <2>6, KeptInv
<1> QED
  BY StoreStep, <1>3, <1>4, <1>5

\* AppeStat and RETR start from what the file contains.
LEMMA StartInv ==
    ASSUME IInv, NEW s \in Session, AppeStat(s) \/ RETR(s)
    PROVE  IInv'
<1>1. Types /\ Counts(s) /\ Contents(s)
  BY AtWork
<1>2. PICK cmd \in {"appe", "RETR"}, p \in Name :
        /\ names[p] # Absent /\ Begin(s, cmd, p, names[p], 0, data[names[p]])
        /\ IF cmd = "appe" THEN data_offset' = [data_offset EXCEPT ![s] = Len(data[names[p]])]
           ELSE UNCHANGED data_offset
        /\ disturbed' = disturbed \ {s} /\ UNCHANGED <<diskVars, rename_path>>
  BY DEF AppeStat, RETR
<1>3. /\ names[p] \in File /\ data[names[p]] \in Seq(Byte) /\ Len(data[names[p]]) \in Nat /\ 0 \in Nat
      /\ cmd \in Job
  BY <1>1, <1>2 DEF Types, DiskTypes, Job
<1>4. /\ RunTypes' /\ job'[s] = cmd /\ path'[s] = p /\ file'[s] = names[p] /\ pos'[s] = 0 /\ off'[s] = 0
      /\ first'[s] = 0 /\ old'[s] = data[names[p]] /\ got'[s] = <<>>
      /\ \A t \in Session \ {s} :
           /\ job'[t] = job[t] /\ path'[t] = path[t] /\ file'[t] = file[t] /\ pos'[t] = pos[t] /\ off'[t] = off[t]
           /\ first'[t] = first[t] /\ old'[t] = old[t] /\ got'[t] = got[t]
  BY <1>1, <1>2, <1>3, BeginRun DEF Types
<1>5. /\ data_offset' \in [Session -> Int]
      /\ \A t \in Session \ {s} : data_offset'[t] = data_offset[t]
      /\ cmd = "appe" => data_offset'[s] = Len(data[names[p]])
  BY <1>1, <1>2, <1>3 DEF Types
<1>6. Kept(s)
  BY <1>1, <1>2, <1>4, <1>5 DEF Kept, Types, DiskTypes, diskVars
<1>7. Counts(s)'
  BY <1>3, <1>4, <1>5 DEF Counts
<1>8. Contents(s)'
  BY <1>2, <1>3, <1>4 DEF Contents, Storing, diskVars
<1> QED
  BY <1>6, <1>7, <1>8, KeptInv

\* A byte is received and written.
LEMMA StorByteInv ==
    ASSUME IInv, NEW s \in Session, StorByte(s)
    PROVE  IInv'
<1>1. /\ Types /\ Counts(s) /\ Contents(s) /\ file[s] \in File /\ job[s] \in {"STOR", "APPE"}
      /\ job[s] \in Storing
  BY AtWork DEF StorByte, Storing
<1> DEFINE c == Write(data[file[s]], pos[s], s)
<1>2. /\ data[file[s]] \in Seq(Byte) /\ pos[s] \in Nat /\ off[s] \in Nat /\ s \in Byte /\ c \in Seq(Byte)
      /\ old[s] \in Seq(Byte) /\ got[s] \in Seq(Byte) /\ first[s] \in Nat
  <2>1. /\ data[file[s]] \in Seq(Byte) /\ pos[s] \in Nat /\ s \in Byte
        /\ old[s] \in Seq(Byte) /\ got[s] \in Seq(Byte) /\ first[s] \in Nat
    BY <1>1 DEF Types, DiskTypes, RunTypes, HistoryTypes, Byte
  <2> QED
    BY <1>1, <2>1, WriteType DEF Counts
<1>3. /\ job' = job /\ file' = file /\ first' = first /\ old' = old /\ UNCHANGED <<names, data_offset, rename_path, path>>
      /\ pos' = [pos EXCEPT ![s] = @ + 1] /\ off' = [off EXCEPT ![s] = @ + 1]
      /\ got' = [got EXCEPT ![s] = Append(@, s)]
  BY DEF StorByte
<1> HIDE DEF c
<1>4. /\ DiskTypes' /\ data'[file[s]] = c
      /\ \A t \in Session \ {s} :
           t \notin disturbed' /\ job[t] # "none" => data'[file[t]] = data[file[t]]
      /\ disturbed \subseteq disturbed' /\ disturbed' \subseteq Session
      /\ s \in disturbed' <=> s \in disturbed
  <2>1. Change(s, c) /\ UNCHANGED names
    BY DEF StorByte, c
  <2> QED
    BY <1>1, <1>2, <2>1, ChangeDisk
<1>5. Append(got[s], s) \in Seq(Byte) /\ Len(Append(got[s], s)) = Len(got[s]) + 1
  BY <1>2
<1>6. RunTypes' /\ pos'[s] = pos[s] + 1 /\ off'[s] = off[s] + 1 /\ got'[s] = Append(got[s], s)
  BY <1>1, <1>2, <1>3, <1>5, SMTT(30) DEF Types, RunTypes, HistoryTypes
<1>7. Kept(s)
  BY <1>1, <1>3, <1>4, <1>6 DEF Kept, Types, RunTypes, HistoryTypes
<1>8. Counts(s)'
  BY <1>1, <1>2, <1>3, <1>5, <1>6 DEF Counts
<1>9. s \notin disturbed => c = Stored(old[s], first[s], Append(got[s], s))
  <2>1. s \notin disturbed => data[file[s]] = Stored(old[s], first[s], got[s])
    BY <1>1 DEF Contents
  <2>2. pos[s] = first[s] + Len(got[s])
    BY <1>1 DEF Counts
  <2>3. Write(Stored(old[s], first[s], got[s]), first[s] + Len(got[s]), s) =
            Stored(old[s], first[s], Append(got[s], s))
    BY <1>2, StoredByte, ZenonT(30)
  <2> QED
    BY <2>1, <2>2, <2>3 DEF c
<1>10. Contents(s)'
  BY <1>1, <1>3, <1>4, <1>6, <1>9 DEF Contents
<1> QED
  BY <1>7, <1>8, <1>10, KeptInv

LEMMA StorResetInv ==
    ASSUME IInv, NEW s \in Session, StorReset(s)
    PROVE  IInv'
<1>1. /\ Types /\ Counts(s) /\ Contents(s) /\ file[s] \in File /\ job[s] \in {"STOR", "APPE"}
      /\ job[s] \in Storing
  BY AtWork DEF StorReset, Storing
<1>2. off[s] \in Nat /\ file[s] # Absent
  BY <1>1 DEF Counts, Types, RunTypes, HistoryTypes
<1>3. /\ job' = [job EXCEPT ![s] = "reset"] /\ off' = [off EXCEPT ![s] = @ - 1]
      /\ UNCHANGED <<names, data, data_offset, rename_path, path, file, pos, first, old, got, disturbed>>
  BY DEF StorReset, diskVars
<1>4. Kept(s)
  BY <1>1, <1>2, <1>3 DEF Kept, Types, DiskTypes, RunTypes, HistoryTypes, Job
<1>5. job'[s] = "reset"
  BY <1>1, <1>3 DEF Types, RunTypes
<1>6. Counts(s)' /\ Contents(s)'
  BY <1>1, <1>2, <1>3, <1>5 DEF Counts, Contents, Storing
<1> QED
  BY <1>4, <1>6, KeptInv

\* The end of a transfer, good or bad.
LEMMA EndInv ==
    ASSUME IInv, NEW s \in Session, StorFails(s) \/ StorEnds(s) \/ RetrEnds(s) \/ RetrFails(s)
    PROVE  IInv'
<1>1. Types /\ Counts(s) /\ Contents(s) /\ file[s] \in File
  BY AtWork DEF StorFails, StorEnds, RetrEnds, RetrFails
<1>2. CASE StorFails(s) \/ RetrEnds(s) \/ RetrFails(s)
  <2>1. Finish(s) /\ UNCHANGED <<names, data, data_offset, rename_path, disturbed>>
    BY <1>2 DEF StorFails, RetrEnds, RetrFails, diskVars
  <2>2. /\ DiskTypes'
        /\ \A t \in Session \ {s} :
             t \notin disturbed' /\ job[t] # "none" => data'[file[t]] = data[file[t]]
        /\ disturbed \subseteq disturbed' /\ disturbed' \subseteq Session
    BY <1>1, <2>1 DEF Types, DiskTypes
  <2> QED
    BY <1>1, <2>1, <2>2, FinishInv DEF Types
<1>3. CASE StorEnds(s)
  <2>1. Resize(data[file[s]], off[s]) \in Seq(Byte)
    <3>1. data[file[s]] \in Seq(Byte) /\ off[s] \in Nat
      BY <1>1, <1>3 DEF StorEnds, Types, DiskTypes, RunTypes
    <3> QED
      BY <3>1, ResizeType
  <2>2. Change(s, Resize(data[file[s]], off[s])) /\ UNCHANGED <<names, data_offset, rename_path>> /\ Finish(s)
    BY <1>3 DEF StorEnds
  <2>3. /\ DiskTypes'
        /\ \A t \in Session \ {s} :
             t \notin disturbed' /\ job[t] # "none" => data'[file[t]] = data[file[t]]
        /\ disturbed \subseteq disturbed' /\ disturbed' \subseteq Session
    BY <1>1, <2>1, <2>2, ChangeDisk
  <2> QED
    BY <1>1, <2>2, <2>3, FinishInv DEF Types
<1> QED
  BY <1>2, <1>3

LEMMA RetrByteInv ==
    ASSUME IInv, NEW s \in Session, RetrByte(s)
    PROVE  IInv'
<1>1. Types /\ Counts(s) /\ Contents(s) /\ file[s] \in File /\ job[s] = "RETR"
  BY AtWork DEF RetrByte
<1> DEFINE b == data[file[s]][pos[s] + 1]
<1>2. /\ data[file[s]] \in Seq(Byte) /\ pos[s] \in Nat /\ pos[s] < Len(data[file[s]])
      /\ old[s] \in Seq(Byte) /\ got[s] \in Seq(Byte) /\ pos[s] = Len(got[s])
  BY <1>1 DEF Types, DiskTypes, RunTypes, HistoryTypes, RetrByte, Counts
<1>3. b \in Byte
  BY <1>2
<1>4. /\ got' = [got EXCEPT ![s] = Append(@, b)] /\ pos' = [pos EXCEPT ![s] = @ + 1]
      /\ UNCHANGED <<names, data, data_offset, rename_path, job, path, file, off, first, old, disturbed>>
  BY DEF RetrByte, diskVars
<1> HIDE DEF b
<1>5. /\ Append(got[s], b) \in Seq(Byte) /\ Len(Append(got[s], b)) = Len(got[s]) + 1
      /\ \A i \in 1 .. Len(got[s]) : Append(got[s], b)[i] = got[s][i]
      /\ Append(got[s], b)[Len(got[s]) + 1] = b
  BY <1>2, <1>3
<1>6. got'[s] = Append(got[s], b) /\ pos'[s] = pos[s] + 1 /\ RunTypes'
  BY <1>1, <1>2, <1>4, <1>5 DEF Types, RunTypes, HistoryTypes
<1>7. Kept(s)
  BY <1>1, <1>4, <1>6 DEF Kept, Types, DiskTypes, RunTypes, HistoryTypes
<1>8. Counts(s)'
  BY <1>1, <1>2, <1>4, <1>5, <1>6 DEF Counts
<1>9. s \notin disturbed =>
        /\ Len(got[s]) + 1 <= Len(old[s])
        /\ \A i \in 1 .. Len(got[s]) + 1 : Append(got[s], b)[i] = old[s][i]
  BY <1>1, <1>2, <1>5 DEF Contents, b
<1>10. Contents(s)'
  BY <1>1, <1>4, <1>5, <1>6, <1>9 DEF Contents, Storing
<1> QED
  BY <1>7, <1>8, <1>10, KeptInv

LEMMA StepInv == ASSUME IInv, NEW s \in Session, SessionStep(s) PROVE IInv'
<1>1. CASE REST(s) \/ RNFR(s) \/ RNTO(s) \/ DELE(s)
  BY <1>1, NamesInv
<1>2. CASE STOR(s)
  BY <1>2, StoreInv DEF STOR
<1>3. CASE AppeAtOffset(s)
  BY <1>3, StoreInv DEF AppeAtOffset
<1>4. CASE AppeStore(s)
  <2>1. path[s] \in Name
    BY <1>4, AtWork DEF Counts, AppeStore
  <2> QED
    BY <1>4, <2>1, StoreInv DEF AppeStore
<1>5. CASE AppeStat(s) \/ RETR(s)
  BY <1>5, StartInv
<1>6. CASE StorByte(s) \/ StorReset(s)
  BY <1>6, StorByteInv, StorResetInv
<1>7. CASE StorFails(s) \/ StorEnds(s) \/ RetrEnds(s) \/ RetrFails(s) \/ RetrByte(s)
  BY <1>7, EndInv, RetrByteInv
<1> QED
  BY <1>1, <1>2, <1>3, <1>4, <1>5, <1>6, <1>7 DEF SessionStep

LEMMA InitIInv == FilesInit => IInv
<1> SUFFICES ASSUME FilesInit PROVE IInv
  OBVIOUS
<1>1. DiskTypes
  <2>1. PICK p \in Name, f \in File :
            /\ names = [q \in Name |-> IF q = p THEN f ELSE Absent]
            /\ data = [g \in File |-> IF g = f THEN <<Old, Old>> ELSE <<>>]
    BY DEF FilesInit
  <2>2. <<Old, Old>> \in Seq(Byte) /\ <<>> \in Seq(Byte)
    BY DEF Byte
  <2> QED
    BY <2>1, <2>2 DEF DiskTypes
<1>2. RunTypes
  BY DEF FilesInit, RunTypes, HistoryTypes, Job
<1>3. FilesTypeOK /\ HistoryTypes
  BY <1>1, <1>2, SameTypes DEF FilesInit, Types
<1>4. \A s \in Session : Counts(s) /\ Contents(s)
  BY DEF FilesInit, Counts, Contents, Storing
<1> QED
  BY <1>3, <1>4 DEF IInv

LEMMA Inductive == FilesSpec => []IInv
<1>1. IInv /\ [FilesNext]_filesVars => IInv'
  <2> SUFFICES ASSUME IInv, [FilesNext]_filesVars PROVE IInv'
    OBVIOUS
  <2>1. CASE FilesNext
    <3>1. PICK s \in Session : SessionStep(s)
      BY <2>1 DEF FilesNext, SessionStep
    <3> QED
      BY <3>1, StepInv
  <2>2. CASE UNCHANGED filesVars
    BY <2>2 DEF filesVars, diskVars, runVars, IInv, FilesTypeOK, HistoryTypes, Counts, Contents
  <2> QED
    BY <2>1, <2>2
<1> QED
  BY <1>1, InitIInv, PTL DEF FilesSpec

------------------------------------------------------------------------------
(***************************************************************************)
(* What follows.                                                           *)
(***************************************************************************)
THEOREM FilesTypeCorrect == FilesSpec => []FilesTypeOK
<1>1. IInv => FilesTypeOK
  BY DEF IInv
<1> QED
  BY <1>1, Inductive, PTL

\* A store in progress changes the bytes it has received and no other.
THEOREM StoredInPlace == FilesSpec => []StorInPlace
<1>1. IInv => StorInPlace
  BY DEF IInv, Contents, StorInPlace, Storing
<1> QED
  BY <1>1, Inductive, PTL

\* What the end of a store makes of the file.
LEMMA EndOfStore ==
    ASSUME IInv, NEW s \in Session, StorEnds(s), s \notin disturbed, job[s] # "reset"
    PROVE  /\ data'[file[s]] = Resize(old[s], first[s]) \o got[s]
           /\ job[s] = "APPE" => data'[file[s]] = old[s] \o got[s]
<1>1. /\ Types /\ Counts(s) /\ Contents(s) /\ file[s] \in File /\ job[s] \in {"STOR", "APPE"}
      /\ job[s] \in Storing
  BY AtWork DEF StorEnds, Storing
<1>2. old[s] \in Seq(Byte) /\ got[s] \in Seq(Byte) /\ first[s] \in Nat
  BY <1>1 DEF Types, RunTypes, HistoryTypes
<1>3. data'[file[s]] = Resize(data[file[s]], off[s])
  BY <1>1 DEF StorEnds, Change, Types, DiskTypes
<1>4. data[file[s]] = Stored(old[s], first[s], got[s]) /\ off[s] = first[s] + Len(got[s])
  BY <1>1 DEF Contents, Counts
<1>5. Resize(Stored(old[s], first[s], got[s]), first[s] + Len(got[s])) = Resize(old[s], first[s]) \o got[s]
  BY <1>2, StoredCut
<1>6. job[s] = "APPE" => Resize(old[s], first[s]) = old[s]
  BY <1>1, <1>2, ResizeSame DEF Counts
<1> QED
  BY <1>3, <1>4, <1>5, <1>6

\* A store that nobody disturbs leaves the old file up to its offset, followed
\* by what was received.
THEOREM StoreCompletes == FilesSpec => StorComplete
<1>1. IInv /\ [FilesNext]_filesVars =>
        [\A s \in Session : StorEnds(s) /\ s \notin disturbed /\ job[s] # "reset" =>
            data'[file[s]] = Resize(old[s], first[s]) \o got[s]]_filesVars
  BY EndOfStore
<1> QED
  BY <1>1, Inductive, PTL DEF FilesSpec, StorComplete

\* An append that nobody disturbs keeps the file it found, however the size
\* it read and the offset of the store it became are apart in time.
THEOREM AppendCompletes == FilesSpec => AppendKeeps
<1>1. IInv /\ [FilesNext]_filesVars =>
        [\A s \in Session : StorEnds(s) /\ job[s] = "APPE" /\ s \notin disturbed =>
            data'[file[s]] = old[s] \o got[s]]_filesVars
  BY EndOfStore
<1> QED
  BY <1>1, Inductive, PTL DEF FilesSpec, AppendKeeps

\* A client that marked no offset and is told 226 has the file to its end, and
\* the file as it was all the time if nobody changed it.
THEOREM RetrieveCompletes == FilesSpec => RetrWhole
<1>1. ASSUME IInv, NEW s \in Session, RetrEnds(s)
      PROVE  /\ Len(got[s]) >= Len(data[file[s]])
             /\ s \notin disturbed => got[s] = data[file[s]]
  <2>1. Types /\ Counts(s) /\ Contents(s) /\ job[s] = "RETR" /\ pos[s] >= Len(data[file[s]])
    BY <1>1, AtWork DEF RetrEnds
  <2>2. old[s] \in Seq(Byte) /\ got[s] \in Seq(Byte)
    BY <2>1 DEF Types, RunTypes, HistoryTypes
  <2>3. Len(got[s]) >= Len(data[file[s]])
    BY <2>1 DEF Counts
  <2>4. ASSUME s \notin disturbed PROVE got[s] = data[file[s]]
    <3>1. /\ data[file[s]] = old[s] /\ Len(got[s]) = Len(old[s])
          /\ \A i \in 1 .. Len(got[s]) : got[s][i] = old[s][i]
      BY <2>1, <2>2, <2>4 DEF Contents, Counts
    <3> QED
      BY <2>2, <3>1
  <2> QED BY <2>3, <2>4
<1>2. IInv /\ [FilesNext]_filesVars =>
        [\A s \in Session : RetrEnds(s) /\ data_offset[s] = 0 =>
            /\ Len(got[s]) >= Len(data[file[s]])
            /\ s \notin disturbed => got[s] = data[file[s]]]_filesVars
  BY <1>1
<1> QED
  BY <1>2, Inductive, PTL DEF FilesSpec, RetrWhole
=============================================================================

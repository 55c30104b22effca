------------------------------ MODULE FtpFiles ------------------------------
(***************************************************************************)
(* What the FTP commands do to files: the offset of REST, the names of     *)
(* RNFR and RNTO, and transfers of several connections that meet on one    *)
(* file.  Module FtpServer follows the descriptors; here an open file is   *)
(* the file itself, which keeps its contents when its name is gone.        *)
(*                                                                         *)
(* One directory stands for all of them, and a path is its name.  A        *)
(* transfer moves one byte per step, and APPE is two steps, so that the    *)
(* threads interleave between any two of their system calls that matter.   *)
(***************************************************************************)
EXTENDS Integers, Sequences, SequencesExt

CONSTANTS
    Session,    \* the connections
    Name,       \* the paths they use
    File,       \* the files the disk has room for
    Absent,     \* what a path without a file names, and no path
    Empty,      \* the byte of a hole
    Old,        \* the byte the files contain at first
    MaxLen,     \* bound: bytes per transfer, and the offsets of REST
    Budget      \* bound: commands per connection

ASSUME FilesAssumption ==
    /\ Absent \notin File \cup Name
    /\ MaxLen \in Nat /\ Budget \in Nat

VARIABLES
    names,          \* the directory: Name -> File or Absent
    data,           \* the contents of each file
    data_offset,    \* ftp_env.data_offset
    rename_path,    \* ftp_env.rename_path
    job,            \* what each thread is doing
    path, file,     \* the path of its handler and the file it opened
    pos, off,       \* the position in the file and the local off
    first, old, got,\* history: the position and the contents it started from,
                    \* the bytes it has read or received
    disturbed,      \* history: transfers whose file someone else changed
    left            \* how many commands the bound leaves

diskVars == <<names, data>>
runVars == <<job, path, file, pos, off, first, old, got>>
filesVars == <<diskVars, data_offset, rename_path, runVars, disturbed, left>>

Job == {"none", "appe", "STOR", "APPE", "reset", "RETR"}

\* A connection stores its own byte, so that contents tell who wrote them.
Byte == Session \cup {Old, Empty}

Idle(s) == job[s] = "none"

Spend(s) == left[s] > 0 /\ left' = [left EXCEPT ![s] = @ - 1]

------------------------------------------------------------------------------
(***************************************************************************)
(* Files.                                                                  *)
(***************************************************************************)
\* write() of one byte at position n.
Write(c, n, b) ==
    [i \in 1 .. (IF n < Len(c) THEN Len(c) ELSE n + 1) |->
        IF i = n + 1 THEN b ELSE IF i <= Len(c) THEN c[i] ELSE Empty]

\* ftruncate() to n bytes.
Resize(c, n) == [i \in 1 .. n |-> IF i <= Len(c) THEN c[i] ELSE Empty]

\* The other threads at work on file f.
Users(s, f) == {t \in Session \ {s} : ~Idle(t) /\ file[t] = f}

Named(f) == \E p \in Name : names[p] = f

\* The thread changes the file it has open.
Change(s, c) ==
    /\ data' = [data EXCEPT ![file[s]] = c]
    /\ disturbed' = disturbed \cup Users(s, file[s])

Begin(s, cmd, p, f, start, contents) ==
    /\ job' = [job EXCEPT ![s] = cmd]
    /\ path' = [path EXCEPT ![s] = p]
    /\ file' = [file EXCEPT ![s] = f]
    /\ pos' = [pos EXCEPT ![s] = start]
    /\ off' = [off EXCEPT ![s] = start]
    /\ first' = [first EXCEPT ![s] = start]
    /\ old' = [old EXCEPT ![s] = contents]
    /\ got' = [got EXCEPT ![s] = <<>>]

Finish(s) == Begin(s, "none", Absent, Absent, 0, <<>>)

------------------------------------------------------------------------------
(***************************************************************************)
(* REST, RNFR, RNTO, DELE.                                                 *)
(***************************************************************************)
\* atol takes any sign.
REST(s) ==
    /\ Idle(s) /\ Spend(s)
    /\ \E n \in -1 .. MaxLen : data_offset' = [data_offset EXCEPT ![s] = n]
    /\ UNCHANGED <<diskVars, rename_path, runVars, disturbed>>

\* The path is kept whether or not stat finds it.
RNFR(s) ==
    /\ Idle(s) /\ Spend(s)
    /\ \E p \in Name : rename_path' = [rename_path EXCEPT ![s] = p]
    /\ UNCHANGED <<diskVars, data_offset, runVars, disturbed>>

\* rename() replaces what q named; rename_path is kept.
RNTO(s) ==
    /\ Idle(s) /\ Spend(s)
    /\ rename_path[s] # Absent
    /\ \E q \in Name \ {rename_path[s]} :
        LET p == rename_path[s] IN
        /\ names[p] # Absent
        /\ names' = [names EXCEPT ![q] = names[p], ![p] = Absent]
        /\ disturbed' = disturbed \cup Users(s, names[p]) \cup Users(s, names[q])
    /\ UNCHANGED <<data, data_offset, rename_path, runVars>>

DELE(s) ==
    /\ Idle(s) /\ Spend(s)
    /\ \E p \in Name :
        /\ names[p] # Absent
        /\ names' = [names EXCEPT ![p] = Absent]
        /\ disturbed' = disturbed \cup Users(s, names[p])
    /\ UNCHANGED <<data, data_offset, rename_path, runVars>>

------------------------------------------------------------------------------
(***************************************************************************)
(* STOR and APPE.                                                          *)
(***************************************************************************)
\* open(O_CREAT) of p yields file f.
Opens(p, f) ==
    IF names[p] # Absent
    THEN f = names[p] /\ UNCHANGED diskVars
    ELSE /\ ~Named(f) /\ \A t \in Session : file[t] # f
         /\ names' = [names EXCEPT ![p] = f]
         /\ data' = [data EXCEPT ![f] = <<>>]

\* ftp_cmd_STOR up to its copy loop.  It does not truncate, and the offset
\* is used up also when it fails.
Store(s, cmd, p) ==
    /\ data_offset' = [data_offset EXCEPT ![s] = 0]
    /\ \/ Finish(s) /\ UNCHANGED <<diskVars, disturbed>>    \* open fails
       \/ \E f \in File :
            /\ Opens(p, f)
            /\ \/ Finish(s) /\ UNCHANGED disturbed  \* lseek, 150 or ftp_data_open fails
               \/ /\ data_offset[s] >= 0
                  /\ IF cmd = "APPE"    \* measured from its stat on
                     THEN /\ Begin(s, cmd, p, f, data_offset[s], old[s])
                          /\ disturbed' = IF f = file[s] THEN disturbed
                                          ELSE disturbed \cup {s}
                     ELSE /\ Begin(s, cmd, p, f, data_offset[s], data'[f])
                          /\ disturbed' = disturbed \ {s}

STOR(s) ==
    /\ Idle(s) /\ Spend(s)
    /\ \E p \in Name : Store(s, "STOR", p)
    /\ UNCHANGED rename_path

\* APPE with an offset pending is STOR.
AppeAtOffset(s) ==
    /\ Idle(s) /\ Spend(s)
    /\ data_offset[s] # 0
    /\ \E p \in Name : Store(s, "STOR", p)
    /\ UNCHANGED rename_path

\* Mutant: the size is read after the offset was cleared.
AppeStatLost(s) ==
    /\ Idle(s) /\ Spend(s)
    /\ data_offset[s] = 0
    /\ \E p \in Name :
        /\ names[p] # Absent
        /\ Begin(s, "appe", p, names[p], 0, data[names[p]])
    /\ disturbed' = disturbed \ {s}
    /\ UNCHANGED <<diskVars, data_offset, rename_path>>

\* APPE otherwise: the size of the file becomes the offset ...
AppeStat(s) ==
    /\ Idle(s) /\ Spend(s)
    /\ data_offset[s] = 0
    /\ \E p \in Name :
        /\ names[p] # Absent
        /\ data_offset' = [data_offset EXCEPT ![s] = Len(data[names[p]])]
        /\ Begin(s, "appe", p, names[p], 0, data[names[p]])
    /\ disturbed' = disturbed \ {s}
    /\ UNCHANGED <<diskVars, rename_path>>

\* ... of the STOR that follows.
AppeStore(s) ==
    /\ job[s] = "appe"
    /\ Store(s, "APPE", path[s])
    /\ UNCHANGED <<rename_path, left>>

\* Mutant: every write goes to the offset the transfer started from.
StorByteStuck(s) ==
    /\ job[s] \in {"STOR", "APPE"}
    /\ Len(got[s]) < MaxLen
    /\ Change(s, Write(data[file[s]], pos[s], s))
    /\ off' = [off EXCEPT ![s] = @ + 1]
    /\ got' = [got EXCEPT ![s] = Append(@, s)]
    /\ UNCHANGED <<names, data_offset, rename_path, job, path, file, pos, first, old, left>>

\* recv and write.
StorByte(s) ==
    /\ job[s] \in {"STOR", "APPE"}
    /\ Len(got[s]) < MaxLen
    /\ Change(s, Write(data[file[s]], pos[s], s))
    /\ pos' = [pos EXCEPT ![s] = @ + 1]
    /\ off' = [off EXCEPT ![s] = @ + 1]
    /\ got' = [got EXCEPT ![s] = Append(@, s)]
    /\ UNCHANGED <<names, data_offset, rename_path, job, path, file, first, old, left>>

\* Mutant: recv fails again and again.
StorResetLoops(s) ==
    /\ job[s] \in {"STOR", "APPE"}
    /\ off' = [off EXCEPT ![s] = @ - 1]
    /\ UNCHANGED <<diskVars, data_offset, rename_path, job, path, file, pos, first, old, got,
                   disturbed, left>>

\* recv fails: len is (size_t)-1, and so is the result of write, which
\* therefore passes for a complete one; off += len takes one off.  The next
\* recv finds the connection at its end.
StorReset(s) ==
    /\ job[s] \in {"STOR", "APPE"}
    /\ job' = [job EXCEPT ![s] = "reset"]
    /\ off' = [off EXCEPT ![s] = @ - 1]
    /\ UNCHANGED <<diskVars, data_offset, rename_path, path, file, pos, first, old, got,
                   disturbed, left>>

\* write fails, or ftruncate below 0: an error reply.
StorFails(s) ==
    /\ (job[s] \in {"STOR", "APPE"} \/ (job[s] = "reset" /\ off[s] < 0))
    /\ Finish(s)
    /\ UNCHANGED <<diskVars, data_offset, rename_path, disturbed, left>>

\* Mutant: without ftruncate.
StorUncut(s) ==
    /\ job[s] \in {"STOR", "APPE", "reset"}
    /\ off[s] >= 0
    /\ Finish(s)
    /\ UNCHANGED <<diskVars, data_offset, rename_path, disturbed, left>>

\* The end of the data: ftruncate and 226.
StorEnds(s) ==
    /\ job[s] \in {"STOR", "APPE", "reset"}
    /\ off[s] >= 0
    /\ Change(s, Resize(data[file[s]], off[s]))
    /\ Finish(s)
    /\ UNCHANGED <<names, data_offset, rename_path, left>>

------------------------------------------------------------------------------
(***************************************************************************)
(* RETR.                                                                   *)
(***************************************************************************)
\* From the first byte on; data_offset is not looked at and stays what it is.
RETR(s) ==
    /\ Idle(s) /\ Spend(s)
    /\ \E p \in Name :
        /\ names[p] # Absent
        /\ Begin(s, "RETR", p, names[p], 0, data[names[p]])
    /\ disturbed' = disturbed \ {s}
    /\ UNCHANGED <<diskVars, data_offset, rename_path>>

RetrByte(s) ==
    /\ job[s] = "RETR"
    /\ pos[s] < Len(data[file[s]])
    /\ got' = [got EXCEPT ![s] = Append(@, data[file[s]][pos[s] + 1])]
    /\ pos' = [pos EXCEPT ![s] = @ + 1]
    /\ UNCHANGED <<diskVars, data_offset, rename_path, job, path, file, off, first, old,
                   disturbed, left>>

\* Mutant: a file whose last read was short is taken for finished.
RetrEndsEarly(s) ==
    /\ job[s] = "RETR"
    /\ pos[s] + 1 >= Len(data[file[s]])
    /\ Finish(s)
    /\ UNCHANGED <<diskVars, data_offset, rename_path, disturbed, left>>

\* read returns 0: 226.
RetrEnds(s) ==
    /\ job[s] = "RETR"
    /\ pos[s] >= Len(data[file[s]])
    /\ Finish(s)
    /\ UNCHANGED <<diskVars, data_offset, rename_path, disturbed, left>>

\* The data connection fails before or during the transfer.
RetrFails(s) ==
    /\ job[s] = "RETR"
    /\ Finish(s)
    /\ UNCHANGED <<diskVars, data_offset, rename_path, disturbed, left>>

------------------------------------------------------------------------------
\* One file of two bytes, under the first of the names.
FilesInit ==
    /\ \E p \in Name, f \in File :
        /\ names = [q \in Name |-> IF q = p THEN f ELSE Absent]
        /\ data = [g \in File |-> IF g = f THEN <<Old, Old>> ELSE <<>>]
    /\ data_offset = [s \in Session |-> 0]
    /\ rename_path = [s \in Session |-> Absent]
    /\ job = [s \in Session |-> "none"]
    /\ path = [s \in Session |-> Absent]
    /\ file = [s \in Session |-> Absent]
    /\ pos = [s \in Session |-> 0]
    /\ off = [s \in Session |-> 0]
    /\ first = [s \in Session |-> 0]
    /\ old = [s \in Session |-> <<>>]
    /\ got = [s \in Session |-> <<>>]
    /\ disturbed = {}
    /\ left = [s \in Session |-> Budget]

FilesNext ==
    \E s \in Session :
        \/ REST(s)      \/ RNFR(s)         \/ RNTO(s)      \/ DELE(s)
        \/ STOR(s)      \/ AppeAtOffset(s) \/ AppeStat(s)  \/ AppeStore(s)
        \/ StorByte(s)  \/ StorReset(s)    \/ StorFails(s) \/ StorEnds(s)
        \/ RETR(s)      \/ RetrByte(s)     \/ RetrEnds(s)  \/ RetrFails(s)

FilesSpec == FilesInit /\ [][FilesNext]_filesVars

------------------------------------------------------------------------------
(***************************************************************************)
(* Properties.                                                             *)
(***************************************************************************)
FilesTypeOK ==
    /\ names \in [Name -> File \cup {Absent}]
    /\ DOMAIN data = File /\ \A f \in File : data[f] \in Seq(Byte)
    /\ data_offset \in [Session -> Int]
    /\ rename_path \in [Session -> Name \cup {Absent}]
    /\ job \in [Session -> Job]
    /\ path \in [Session -> Name \cup {Absent}]
    /\ file \in [Session -> File \cup {Absent}]
    /\ pos \in [Session -> Nat] /\ off \in [Session -> Nat \cup {-1}]
    /\ disturbed \subseteq Session

\* The contents a transfer that started from c at offset n and received b
\* has made of the file so far.
Stored(c, n, b) ==
    [i \in 1 .. (IF b = <<>> \/ n + Len(b) < Len(c) THEN Len(c) ELSE n + Len(b)) |->
        IF i \in n + 1 .. n + Len(b) THEN b[i - n]
        ELSE IF i <= Len(c) THEN c[i] ELSE Empty]

\* A store that nobody else disturbs changes the bytes it has received and no
\* other: one that breaks off leaves the rest of the old file in place.
StorInPlace ==
    \A s \in Session : job[s] \in {"STOR", "APPE", "reset"} /\ s \notin disturbed =>
        data[file[s]] = Stored(old[s], first[s], got[s])

\* And when 226 is sent, the file is the old one up to the offset, followed
\* by the bytes received, and nothing else.
StorComplete ==
    [][\A s \in Session : StorEnds(s) /\ s \notin disturbed /\ job[s] # "reset" =>
            data'[file[s]] = Resize(old[s], first[s]) \o got[s]]_filesVars

\* An append without a pending offset keeps the whole file APPE found, if
\* nobody else writes to it, renames or deletes it after APPE's stat.
AppendKeeps ==
    [][\A s \in Session : StorEnds(s) /\ job[s] = "APPE" /\ s \notin disturbed =>
            data'[file[s]] = old[s] \o got[s]]_filesVars

\* A client that marked no offset and is told 226 has been sent the file to
\* its end, whoever made it longer or shorter meanwhile, or took its name; and
\* exactly the file, if nobody changed it.
RetrWhole ==
    [][\A s \in Session : RetrEnds(s) /\ data_offset[s] = 0 =>
            /\ Len(got[s]) >= Len(data[file[s]])
            /\ s \notin disturbed => got[s] = data[file[s]]]_filesVars

\* "Mark the offset to start from in a future file transer.", cmd.c:563: a
\* file that is retrieved after REST is sent from the offset on.
RetrStartsAtMark ==
    [][\A s \in Session : RetrEnds(s) /\ s \notin disturbed /\ data_offset[s] >= 0 =>
            got[s] = SubSeq(data[file[s]], data_offset[s] + 1, Len(data[file[s]]))]_filesVars

\* "Store recieved data in a given file.", cmd.c:736: a file that is told to
\* be complete has every byte received.
StorKeepsReceived ==
    [][\A s \in Session : StorEnds(s) /\ s \notin disturbed =>
            IsSuffix(got[s], data'[file[s]])]_filesVars
=============================================================================

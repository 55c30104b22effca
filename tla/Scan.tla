-------------------------------- MODULE Scan --------------------------------
(***************************************************************************)
(* The searches of common/memory.c for code by a pattern of bytes.         *)
(* PatternScan goes over memory of the process itself; pid_chunk_scan      *)
(* copies another process's memory to its stack, chunk by chunk, and       *)
(* searches the copies.  Memory is a sequence of bytes, a place the number *)
(* of bytes before it.                                                     *)
(***************************************************************************)
EXTENDS Integers, Sequences

CONSTANTS
    Chunk,      \* chunk_size
    Wild,       \* the byte 0xff: pattern_to_byte makes one of each "?"
    Stack       \* what may be on the stack from pid_chunk_scan's mem on

ASSUME StackAssumption ==
    Chunk \in Nat \ {0} /\ \A s \in Stack : s \in Seq(Nat) /\ Chunk <= Len(s)

NotFound == -1

Matches(mem, i, pat) ==
    \A j \in DOMAIN pat : i + j \in DOMAIN mem /\ pat[j] \in {Wild, mem[i + j]}

\* The first of size places.  A match may end behind the last of them.
PatternScan(mem, size, pat) ==
    LET from[i \in 0 .. size] ==
            IF i = size THEN NotFound
            ELSE IF Matches(mem, i, pat) THEN i
            ELSE from[i + 1]
    IN  from[0]

\* Where the chunks start that are copied, for memory of at least a chunk:
\* mem_sz - chunk_size is unsigned.
Starts(size) == {i \in 0 .. size : i % Chunk = 0 /\ i < size - Chunk}

\* What PatternScan goes over for the chunk at i: the stack, with the copy of
\* the last chunk up to i that could be read.  Nobody looks whether one could.
View(mem, stack, read) ==
    [i \in DOMAIN stack |->
        LET done == {k \in read : k <= i}
            last == CHOOSE k \in done : \A l \in done : l <= k
        IN  [o \in DOMAIN stack[i] |->
                IF done # {} /\ o <= Chunk THEN mem[last + o] ELSE stack[i][o]]]

\* Mutant: a pattern at the start of a chunk passes for none.
ChunkZero(view, size, pat) ==
    LET from[i \in 0 .. size] ==
            IF i >= size - Chunk THEN NotFound
            ELSE LET found == PatternScan(view[i], Chunk, pat)
                 IN  IF found > 0 THEN i + found ELSE from[i + Chunk]
    IN  from[0]

\* The loop of pid_chunk_scan.
ChunkScan(view, size, pat) ==
    LET from[i \in 0 .. size] ==
            IF i >= size - Chunk THEN NotFound
            ELSE LET found == PatternScan(view[i], Chunk, pat)
                 IN  IF found # NotFound THEN i + found ELSE from[i + Chunk]
    IN  from[0]

------------------------------------------------------------------------------
(***************************************************************************)
(* What the scan by chunks is to find: the first place that holds the      *)
(* pattern.  It does not look at the last chunk, be it whole or not, and   *)
(* of a pattern that reaches into a second chunk it sees the start only.   *)
(***************************************************************************)
Holds(mem, size, pat) ==
    {i \in 0 .. size - Len(pat) : Matches(mem, i, pat)}

InOneChunk(i, size, pat) ==
    /\ (i % Chunk) + Len(pat) <= Chunk
    /\ i - (i % Chunk) < size - Chunk

Seen(mem, size, pat) == {i \in Holds(mem, size, pat) : InOneChunk(i, size, pat)}

\* The end of the chunk at i cuts the pattern: what is in the chunk is as in
\* the pattern, the rest is whatever follows on the stack.
CutAt(mem, i, pat) ==
    /\ (i % Chunk) + Len(pat) > Chunk
    /\ \A j \in DOMAIN pat : (i % Chunk) + j <= Chunk => pat[j] \in {Wild, mem[i + j]}

\* Whatever is on the stack, if every chunk could be read.
FindsFirst(mem, size, pat) ==
    \A stack \in [Starts(size) -> Stack] :
        LET place == ChunkScan(View(mem, stack, Starts(size)), size, pat)
            seen == Seen(mem, size, pat)
        IN  IF place = NotFound THEN seen = {}
            ELSE /\ \A i \in seen : place <= i
                 /\ place \in seen \/ CutAt(mem, place, pat)
=============================================================================

---------------------------- MODULE MCMonoPlugin ----------------------------
(* MonoPlugin on small instances for TLC. *)
EXTENDS MonoPlugin, TLC

CONSTANTS t1, t2    \* two threads of ShellUI

\* Two instructions are moved of one function, none of OnPress.
MCEnds == [f \in Func |-> CASE f = "SearchDir" -> 1 .. 3
                             [] f = "OnPress" -> {1}
                             [] OTHER -> 1 .. 2]

MCMinSize == [f \in Func |-> IF f \in {"SearchDir", "OnPress"} THEN 2 ELSE 1]

MCInstaller == <<"SearchDir">>
MCBranch == <<"OnPress", "OnCheckVisible">>

\* A load of an address (1), a call (2), its operand and a test (3).
MCPattern == <<1, 2, Wild, 3>>
MCInstead == <<4, 0>>

\* The pattern across two chunks, in the last one, and in both of the others.
MCCores ==
    {[o \in 1 .. CoreSize |->
        LET in == {p \in places : o - p \in 1 .. 4} IN
        IF in = {} THEN (o + 1) % 2 ELSE <<1, 2, 5, 3>>[o - CHOOSE p \in in : TRUE]] :
            places \in {{0, 6}, {3}, {5}, {10}}}

\* Nothing of the pattern, and its start, which may end the copy of a chunk as
\* well, with what is missing of it behind.
MCStack == {<<0, 0, 0, 0, 0, 7, 7, 7>>, <<1, 2, 5, 3, 0, 2, 3, 3>>}

Threads == Permutations({t1, t2})
=============================================================================

-------------------------------- MODULE Hooks --------------------------------
(***************************************************************************)
(* The hooks of common/memory.c in one process.  CreatePrologueHook copies *)
(* the first instructions of a function to the cave, with a jump back      *)
(* behind them; its caller keeps the place in the cave as the original and *)
(* then writes a jump over the function (WriteJump64, Make32to64Jmp).      *)
(*                                                                         *)
(* The cave is the bytes of cavePadFunc and what follows them.  A block is *)
(* one step to write, as its room was checked before, and a jump is two:   *)
(* no call writes it at once.  Threads that hook functions are not kept    *)
(* from each other.                                                        *)
(***************************************************************************)
EXTENDS Integers, Sequences

CONSTANTS
    Thread,     \* the threads of the process
    Func,       \* the functions that are hooked
    Short,      \* those with room for a jump of five bytes only
    Ends,       \* Func -> where its first instructions end, as far as decoded
    MinSize,    \* Func -> the bytes that the jump to the hook needs
    Stub, Addr, \* sizes of JMPstub and of an address
    CaveMax     \* MAX_CAVE_SIZE

ASSUME HooksAssumption ==
    /\ Short \subseteq Func
    /\ Ends \in [Func -> SUBSET (Nat \ {0})] /\ MinSize \in [Func -> Nat \ {0}]
    /\ Stub \in Nat \ {0} /\ Addr \in Nat \ {0} /\ CaveMax \in Nat

VARIABLES
    code,           \* function -> what is at its entry
    original,       \* function -> offset in the cave, None before it is set
    cave,           \* offset -> what is there
    caveInstSize,
    once,           \* the flag of CaveBlockInit
    todo,           \* thread -> the functions it goes on to hook
    at,             \* thread -> where it is with the first of them, and pHook
    raced           \* history: two threads were in CreatePrologueHook at once

hookVars == <<code, original, cave, caveInstSize, once, todo, at, raced>>

None == -1
Trap == <<>>

Room == 0 .. CaveMax + Addr - 1

\* Whole instructions until there are MinSize bytes; 0 where hde64_disasm
\* comes upon one it does not know.
GetInstructionSize(f) ==
    LET enough == {end \in Ends[f] : end >= MinSize[f]} IN
    IF enough = {} THEN 0 ELSE CHOOSE end \in enough : \A e \in enough : end <= e

\* The moved instructions, the stub, the address.
Size(f) == GetInstructionSize(f) + Stub + Addr

\* Where CreatePrologueHook and its caller are.
Inside == {"init", "wipe", "copy", "advance"}
Stage == {"idle", "store", "jump", "tail"} \cup Inside

Installs(t) == todo[t] # <<>>
Fn(t) == Head(todo[t])

On(t, stage) == Installs(t) /\ at[t].stage = stage
To(t, stage) == at' = [at EXCEPT ![t].stage = stage] /\ UNCHANGED todo

\* The thread goes on to the next function.
Drop(t) ==
    /\ todo' = [todo EXCEPT ![t] = Tail(@)]
    /\ at' = [at EXCEPT ![t] = [stage |-> "idle", pHook |-> None]]

------------------------------------------------------------------------------
\* The method is looked up; it may not be there.
Begin(t) ==
    /\ On(t, "idle")
    /\ \/ Drop(t) /\ UNCHANGED raced
       \/ /\ To(t, "init")
          /\ raced' = (raced \/ \E u \in Thread \ {t} : at[u].stage \in Inside)
    /\ UNCHANGED <<code, original, cave, caveInstSize, once>>

\* CaveBlockInit: once is read at its start and set at its end.
CaveBlockInit(t) ==
    /\ On(t, "init")
    /\ To(t, IF once THEN "copy" ELSE "wipe")
    /\ UNCHANGED <<code, original, cave, caveInstSize, once, raced>>

CaveBlockWipe(t) ==
    /\ On(t, "wipe")
    /\ To(t, "copy")
    /\ cave' = [o \in Room |-> IF o < CaveMax THEN Trap ELSE cave[o]]
    /\ once' = TRUE
    /\ UNCHANGED <<code, original, caveInstSize, raced>>

Block(f, start) ==
    [o \in Room |-> IF o - start \in 0 .. Size(f) - 1 THEN <<f, code[f], o - start>>
                    ELSE cave[o]]

\* validnateBlockSize: the address is not counted.
Valid(f) == caveInstSize + GetInstructionSize(f) + Stub <= CaveMax

Copy(t) ==
    /\ On(t, "copy")
    /\ \/ /\ GetInstructionSize(Fn(t)) = 0 \/ ~Valid(Fn(t))
          /\ Drop(t) /\ UNCHANGED cave
       \/ /\ GetInstructionSize(Fn(t)) # 0 /\ Valid(Fn(t))
          /\ cave' = Block(Fn(t), caveInstSize)
          /\ To(t, "advance")
    /\ UNCHANGED <<code, original, caveInstSize, once, raced>>

\* Mutant: what is returned is the place behind the block.
AdvanceFirst(t) ==
    /\ On(t, "advance")
    /\ caveInstSize' = caveInstSize + Size(Fn(t))
    /\ at' = [at EXCEPT ![t] = [stage |-> "store", pHook |-> caveInstSize']]
    /\ UNCHANGED <<code, original, cave, once, todo, raced>>

\* Mutant: a block takes the size of its instructions.
AdvanceShort(t) ==
    /\ On(t, "advance")
    /\ at' = [at EXCEPT ![t] = [stage |-> "store", pHook |-> caveInstSize]]
    /\ caveInstSize' = caveInstSize + GetInstructionSize(Fn(t))
    /\ UNCHANGED <<code, original, cave, once, todo, raced>>

\* caveAddr and the new size.
Advance(t) ==
    /\ On(t, "advance")
    /\ at' = [at EXCEPT ![t] = [stage |-> "store", pHook |-> caveInstSize]]
    /\ caveInstSize' = caveInstSize + Size(Fn(t))
    /\ UNCHANGED <<code, original, cave, once, todo, raced>>

Store(t) ==
    /\ On(t, "store")
    /\ original' = [original EXCEPT ![Fn(t)] = at[t].pHook]
    /\ To(t, "jump")
    /\ UNCHANGED <<code, cave, caveInstSize, once, raced>>

\* Make32to64Jmp where the code has no padding left for a jump of 64 bits.
NoJumpArea(t) ==
    /\ On(t, "jump") /\ Fn(t) \in Short
    /\ Drop(t)
    /\ UNCHANGED <<code, original, cave, caveInstSize, once, raced>>

\* Where it has: the jump to that place, before there is one in it.
WriteJump32(t) ==
    /\ On(t, "jump") /\ Fn(t) \in Short
    /\ code' = [code EXCEPT ![Fn(t)] = "cut"]
    /\ To(t, "tail")
    /\ UNCHANGED <<original, cave, caveInstSize, once, raced>>

\* WriteJump64 over the function itself: the stub, then the address.
WriteStub(t) ==
    /\ On(t, "jump") /\ Fn(t) \notin Short
    /\ code' = [code EXCEPT ![Fn(t)] = "cut"]
    /\ To(t, "tail")
    /\ UNCHANGED <<original, cave, caveInstSize, once, raced>>

\* The rest of WriteJump64, over the function or the padding.
WriteJump64(t) ==
    /\ On(t, "tail")
    /\ code' = [code EXCEPT ![Fn(t)] = "hooked"]
    /\ Drop(t)
    /\ UNCHANGED <<original, cave, caveInstSize, once, raced>>

HookStep(t) ==
    \/ Begin(t) \/ CaveBlockInit(t) \/ CaveBlockWipe(t) \/ Copy(t) \/ Advance(t)
    \/ Store(t) \/ NoJumpArea(t) \/ WriteJump32(t) \/ WriteStub(t) \/ WriteJump64(t)

\* A process that has just started.
HooksInit ==
    /\ code = [f \in Func |-> "plain"]
    /\ original = [f \in Func |-> None]
    /\ cave = [o \in Room |-> Trap]
    /\ caveInstSize = 0
    /\ once = FALSE
    /\ todo = [t \in Thread |-> <<>>]
    /\ at = [t \in Thread |-> [stage |-> "idle", pHook |-> None]]
    /\ raced = FALSE

\* The same of the process that takes its place.
HooksRestart ==
    /\ code' = [f \in Func |-> "plain"]
    /\ original' = [f \in Func |-> None]
    /\ cave' = [o \in Room |-> Trap]
    /\ caveInstSize' = 0
    /\ once' = FALSE
    /\ todo' = [t \in Thread |-> <<>>]
    /\ at' = [t \in Thread |-> [stage |-> "idle", pHook |-> None]]
    /\ raced' = FALSE

------------------------------------------------------------------------------
(***************************************************************************)
(* Properties.                                                             *)
(***************************************************************************)
HooksTypeOK ==
    /\ code \in [Func -> {"plain", "cut", "hooked"}]
    /\ original \in [Func -> Nat \cup {None}]
    /\ ~raced => \A f \in Func : original[f] \in Room \cup {None}
    /\ DOMAIN cave = Room
    /\ caveInstSize \in Nat /\ once \in BOOLEAN /\ raced \in BOOLEAN
    /\ todo \in [Thread -> Seq(Func)]
    /\ at \in [Thread -> [stage : Stage, pHook : Nat \cup {None}]]

\* The bytes at f's original: its own first instructions as they were before
\* any jump, and the jump back.
LeadsBack(f) ==
    /\ original[f] # None
    /\ \A i \in 0 .. Size(f) - 1 : cave[original[f] + i] = <<f, "plain", i>>

\* From the first byte of its jump on, a hook that calls its original gets to
\* the function, and to no other and not to itself: the original is set
\* before the jump is written, no later block covers it, no wipe of the cave
\* clears it and it is no copy of a jump.  Only threads that are in
\* CreatePrologueHook at the same time can break this: nothing keeps them
\* apart.
HooksLeadBack ==
    ~raced => \A f \in Func : code[f] # "plain" => LeadsBack(f)
=============================================================================

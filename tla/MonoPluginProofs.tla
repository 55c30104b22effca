-------------------------- MODULE MonoPluginProofs --------------------------
(***************************************************************************)
(* Proofs about MonoPlugin and Hooks, for every number of threads, every   *)
(* set of functions and every size of the cave.                            *)
(***************************************************************************)
EXTENDS MonoPlugin, DataLemmas, FiniteSetTheorems, TLAPS

\* The functions of UploadNewPkgInstallerPath and UploadOnBranch.
Methods == Installer \o Branch
MethodSet == {Methods[i] : i \in DOMAIN Methods}

\* What a thread may be hooking.
Of(what) ==
    CASE what = "none"   -> {}
      [] what = "post"   -> {FinishBoot}
      [] what = "tick"   -> {Resource}
      [] what = "branch" -> MethodSet

\* Two threads that hook functions hook different ones.
Apart ==
    \A t, u \in Thread : t # u =>
        /\ doing[t] \in {"post", "branch"} => doing[u] \notin {"post", "branch"}
        /\ doing[t] = "tick" => doing[u] # "tick"

\* What a thread goes on to hook is its own, is there once, and is not hooked.
Plain(t) ==
    /\ \A i \in DOMAIN todo[t] : todo[t][i] \in Of(doing[t])
    /\ \A i, j \in DOMAIN todo[t] : i # j => todo[t][i] # todo[t][j]
    /\ \A i \in DOMAIN todo[t] : code[todo[t][i]] = "plain" \/ (i = 1 /\ at[t].stage = "tail")
    /\ at[t].stage # "idle" => todo[t] # <<>>

\* The flags of the chain tell what is not hooked yet.
Flags ==
    /\ \A t \in Thread : doing[t] = "post" => ~test
    /\ ~test /\ (\A t \in Thread : doing[t] # "post") => code[FinishBoot] = "plain"
    /\ App_Exe = "none" => \A f \in MethodSet : code[f] = "plain"
    /\ App_Exe = "none" => \A t \in Thread : doing[t] # "branch"
    /\ ~booted /\ (\A t \in Thread : doing[t] # "tick") => code[Resource] = "plain"

ChainInv == Apart /\ Flags /\ \A t \in Thread : Plain(t)

------------------------------------------------------------------------------
\* The cave has f's block at p.
Block_at(f, p) ==
    /\ p \in Nat /\ p + Size(f) <= CaveMax + Addr
    /\ \A i \in 0 .. Size(f) - 1 : cave[p + i] = <<f, "plain", i>>

Kept(f, p) == Block_at(f, p) /\ p + Size(f) <= caveInstSize

\* One thread at a time is in CreatePrologueHook.
Alone == \A t, u \in Thread : t # u => at[t].stage \notin Inside \/ at[u].stage \notin Inside

Originals ==
    /\ caveInstSize <= CaveMax + Addr
    /\ \A f \in Func : original[f] # None => Kept(f, original[f])
    /\ \A f \in Func : code[f] # "plain" => original[f] # None

AtStage(t) ==
    /\ at[t].stage = "advance" => Block_at(Fn(t), caveInstSize)
    /\ at[t].stage = "store" => at[t].pHook \in Nat /\ Kept(Fn(t), at[t].pHook)
    /\ at[t].stage \in {"jump", "tail"} => original[Fn(t)] # None
    /\ at[t].stage = "wipe" => ~once

\* The cave is wiped before anything is in it.
Empty ==
    ~once =>
        /\ \A f \in Func : original[f] = None
        /\ \A t \in Thread : at[t].stage \notin {"copy", "advance", "store", "jump", "tail"}

CaveInv == Alone /\ Originals /\ Empty /\ \A t \in Thread : AtStage(t)

\* MonoTypeOK but for the places of the originals, which CaveInv bounds.
HookTypes ==
    /\ code \in [Func -> {"plain", "cut", "hooked"}]
    /\ original \in [Func -> Nat \cup {None}]
    /\ DOMAIN cave = Room
    /\ caveInstSize \in Nat /\ once \in BOOLEAN /\ raced \in BOOLEAN
    /\ todo \in [Thread -> Seq(Func)]
    /\ at \in [Thread -> [stage : Stage, pHook : Nat \cup {None}]]

ChainTypes ==
    /\ doing \in [Thread -> Doing]
    /\ test \in BOOLEAN /\ Root_Domain \in BOOLEAN /\ booted \in BOOLEAN
    /\ App_Exe \in {"none", "hook", "tick"}
    /\ bgft \in BOOLEAN /\ mark \in BOOLEAN /\ fixup \in {"none", "scan", "touch"}
    /\ restarts \in 0 .. MaxRestart

\* The inductive invariant.
IInv == HookTypes /\ ChainTypes /\ ChainInv /\ (~raced => CaveInv)

------------------------------------------------------------------------------
(***************************************************************************)
(* Lemmas.                                                                 *)
(***************************************************************************)
\* The number of bytes that are moved is a number: a set of ends has a least.
LEMMA InstructionSizeNat == ASSUME NEW f \in Func PROVE GetInstructionSize(f) \in Nat
<1> DEFINE enough == {end \in Ends[f] : end >= MinSize[f]}
<1>1. enough \subseteq Nat
  BY HooksAssumption
<1>2. CASE enough = {}
  BY <1>2 DEF GetInstructionSize
<1>3. CASE enough # {}
  <2>1. \E x \in enough : \A y \in enough : ~ (<<y, x>> \in OpToRel(<, Nat))
    <3>1. IsWellFoundedOn(OpToRel(<, Nat), Nat)
      BY NatLessThanWellFounded
    <3> QED
      BY <3>1, <1>1, <1>3, WFMin
  <2>2. \E x \in enough : \A y \in enough : x <= y
    <3>1. \A x, y \in Nat : x < y => <<x, y>> \in OpToRel(<, Nat)
      BY Zenon DEF OpToRel
    <3>2. PICK x \in enough : \A y \in enough : ~ (<<y, x>> \in OpToRel(<, Nat))
      BY <2>1
    <3>3. \A y \in enough : ~ (y < x)
      BY <3>1, <3>2, <1>1, Zenon
    <3> QED
      BY <3>3, <1>1
  <2>3. (CHOOSE x \in enough : \A y \in enough : x <= y) \in enough
    BY <2>2
  <2> QED
    BY <2>3, <1>1, <1>3 DEF GetInstructionSize
<1> QED
  BY <1>2, <1>3

LEMMA SizeNat == ASSUME NEW f \in Func PROVE Size(f) \in Nat
BY InstructionSizeNat, HooksAssumption DEF Size

\* The functions of two parts of the chain are different ones.
LEMMA OfApart ==
    ASSUME NEW a \in Doing, NEW b \in Doing, a # b, NEW f \in Of(a)
    PROVE  f \notin Of(b)
<1>1. MethodSet \subseteq Func \ {FinishBoot, Resource}
  BY ChainAssumption DEF MethodSet, Methods
<1> QED
  BY <1>1, ChainAssumption DEF Of, Doing

LEMMA InitIInv == MonoInit => IInv
<1> SUFFICES ASSUME MonoInit PROVE IInv
  OBVIOUS
<1> USE HooksAssumption, ChainAssumption, MonoAssumption DEF MonoInit, HooksInit
<1>1. HookTypes
  <2>1. todo \in [Thread -> Seq(Func)]
    OBVIOUS
  <2>2. at \in [Thread -> [stage : Stage, pHook : Nat \cup {None}]]
    BY DEF Stage
  <2> QED
    BY <2>1, <2>2 DEF HookTypes, None
<1>2. ChainTypes
  <2>1. doing \in [Thread -> Doing] /\ restarts \in 0 .. MaxRestart
    BY DEF Doing
  <2> QED
    BY <2>1, Zenon DEF ChainTypes
<1>3. Apart /\ Flags
  <2>1. Methods \in Seq(Func)
    BY DEF Methods
  <2>2. MethodSet \subseteq Func
    BY ONLY <2>1, Elements DEF MethodSet
  <2> QED
    BY <2>2 DEF Apart, Flags
<1>4. \A t \in Thread : Plain(t)
  <2> SUFFICES ASSUME NEW t \in Thread PROVE Plain(t)
    OBVIOUS
  <2>1. todo[t] = <<>> /\ DOMAIN todo[t] = {} /\ at[t].stage = "idle"
    OBVIOUS
  <2> QED
    BY <2>1 DEF Plain
<1>5. CaveInv
  <2>1. /\ \A t \in Thread : at[t].stage = "idle"
        /\ \A f \in Func : original[f] = None /\ code[f] = "plain"
    OBVIOUS
  <2>2. caveInstSize = 0 /\ 0 <= CaveMax + Addr
    OBVIOUS
  <2>3. Alone /\ Empty /\ \A t \in Thread : AtStage(t)
    BY ONLY <2>1 DEF Alone, Empty, AtStage, Inside
  <2>4. Originals
    BY ONLY <2>1, <2>2 DEF Originals
  <2> QED
    BY ONLY <2>3, <2>4 DEF CaveInv
<1> QED
  BY <1>1, <1>2, <1>3, <1>4, <1>5 DEF IInv, ChainInv

------------------------------------------------------------------------------
(***************************************************************************)
(* The steps of CreatePrologueHook and its callers.                        *)
(***************************************************************************)
\* A function that a thread is at is one.
LEMMA FnType ==
    ASSUME HookTypes, NEW t \in Thread, todo[t] # <<>>
    PROVE  Fn(t) \in Func /\ 1 \in DOMAIN todo[t] /\ Fn(t) = todo[t][1]
BY DEF HookTypes, Fn

LEMMA DropType ==
    ASSUME HookTypes, NEW t \in Thread, Installs(t), Drop(t)
    PROVE  /\ todo' \in [Thread -> Seq(Func)]
           /\ at' \in [Thread -> [stage : Stage, pHook : Nat \cup {None}]]
BY DEF HookTypes, Drop, Installs, Stage

LEMMA ToType ==
    ASSUME HookTypes, NEW t \in Thread, NEW stage \in Stage, To(t, stage)
    PROVE  /\ todo' \in [Thread -> Seq(Func)]
           /\ at' \in [Thread -> [stage : Stage, pHook : Nat \cup {None}]]
BY DEF HookTypes, To

LEMMA HookStepTypes ==
    ASSUME HookTypes, NEW t \in Thread, HookStep(t)
    PROVE  HookTypes'
<1> USE DEF On
<1>1. Installs(t) /\ Fn(t) \in Func
  BY FnType DEF HookStep, Begin, CaveBlockInit, CaveBlockWipe, Copy, Advance, Store, NoJumpArea, WriteJump32, WriteStub, WriteJump64, Installs
<1> USE <1>1
<1>2. CASE Begin(t)
  <2>1. raced' \in BOOLEAN
    BY <1>2, Zenon DEF Begin, HookTypes
  <2> QED
    BY <1>2, <2>1, DropType, ToType DEF Begin, HookTypes, Stage, Inside
<1>3. CASE CaveBlockInit(t)
  BY <1>3, ToType DEF CaveBlockInit, HookTypes, Stage, Inside
<1>4. CASE CaveBlockWipe(t)
  BY <1>4, ToType DEF CaveBlockWipe, HookTypes, Stage, Inside
<1>5. CASE Copy(t)
  BY <1>5, ToType, DropType DEF Copy, Block, HookTypes, Stage, Inside
<1>6. CASE Advance(t)
  BY <1>6, SizeNat DEF Advance, HookTypes, Stage
<1>7. CASE Store(t)
  BY <1>7, ToType DEF Store, HookTypes, Stage
<1>8. CASE NoJumpArea(t) \/ WriteJump32(t) \/ WriteStub(t) \/ WriteJump64(t)
  BY <1>8, ToType, DropType DEF NoJumpArea, WriteJump32, WriteStub, WriteJump64, HookTypes, Stage
<1> QED
  BY <1>2, <1>3, <1>4, <1>5, <1>6, <1>7, <1>8 DEF HookStep

\* A step changes the entry of the function the thread is at, or of none, and
\* only from the stage "jump" on; the thread stays with it or drops it.
LEMMA HookStepCode ==
    ASSUME HookTypes, NEW t \in Thread, HookStep(t)
    PROVE  /\ Installs(t) /\ Fn(t) \in Func
           /\ \A f \in Func \ {Fn(t)} : code'[f] = code[f]
           /\ \A u \in Thread \ {t} : todo'[u] = todo[u] /\ at'[u] = at[u]
           /\ \/ todo' = todo /\ code' = code /\ at[t].stage # "tail"
              \/ todo' = todo /\ at'[t].stage = "tail"
              \/ todo'[t] = Tail(todo[t]) /\ at'[t].stage = "idle"
<1> USE DEF On, HookTypes
<1>1. Installs(t) /\ Fn(t) \in Func
  BY FnType DEF HookStep, Begin, CaveBlockInit, CaveBlockWipe, Copy, Advance, Store, NoJumpArea, WriteJump32, WriteStub, WriteJump64, Installs
<1>2. CASE Begin(t) \/ CaveBlockInit(t) \/ CaveBlockWipe(t)
  BY <1>1, <1>2 DEF Begin, CaveBlockInit, CaveBlockWipe, Drop, To
<1>3. CASE Copy(t) \/ Advance(t) \/ Store(t) \/ NoJumpArea(t)
  BY <1>1, <1>3 DEF Copy, Advance, Store, NoJumpArea, Drop, To
<1>4. CASE WriteJump32(t) \/ WriteStub(t) \/ WriteJump64(t)
  BY <1>1, <1>4 DEF WriteJump32, WriteStub, WriteJump64, Drop, To
<1> QED
  BY <1>2, <1>3, <1>4 DEF HookStep

\* Only what the thread hooks is touched, and it stays apart from the rest.
LEMMA HookStepPlain ==
    ASSUME HookTypes, ChainTypes, ChainInv, NEW t \in Thread, HookStep(t), UNCHANGED doing
    PROVE  \A u \in Thread : Plain(u)'
<1> SUFFICES ASSUME NEW u \in Thread PROVE Plain(u)'
  OBVIOUS
<1>1. Plain(u) /\ Plain(t) /\ Apart
  BY DEF ChainInv
<1>2. Installs(t) /\ Fn(t) = todo[t][1] /\ 1 \in DOMAIN todo[t] /\ Fn(t) \in Of(doing[t])
  BY <1>1, HookStepCode, FnType DEF Plain, Installs
<1>3. CASE u # t
  <2>1. todo'[u] = todo[u] /\ at'[u] = at[u]
    BY <1>3, HookStepCode
  <2>2. CASE todo[u] = <<>>
    BY <1>1, <2>1, <2>2 DEF Plain
  <2>3. CASE todo[u] # <<>>
    <3>1. doing[u] # doing[t]
      <4>1. 1 \in DOMAIN todo[u] /\ todo[u][1] \in Of(doing[u])
        BY <1>1, <2>3, FnType DEF Plain
      <4>2. doing[u] \in {"post", "branch", "tick"} /\ doing[t] \in {"post", "branch", "tick"}
        BY <4>1, <1>2 DEF Of, ChainTypes, Doing
      <4> QED
        BY <1>1, <1>3, <4>2 DEF Apart
    <3>2. \A i \in DOMAIN todo[u] : todo[u][i] # Fn(t)
      <4> TAKE i \in DOMAIN todo[u]
      <4>1. todo[u][i] \in Of(doing[u])
        BY <1>1 DEF Plain
      <4>2. doing[u] \in Doing /\ doing[t] \in Doing
        BY DEF ChainTypes
      <4> QED
        BY <4>1, <4>2, <3>1, <1>2, OfApart
    <3>3. \A i \in DOMAIN todo[u] : code'[todo[u][i]] = code[todo[u][i]]
      <4>1. \A i \in DOMAIN todo[u] : todo[u][i] \in Func
        BY DEF HookTypes
      <4> QED
        BY <3>2, <4>1, HookStepCode
    <3> QED
      BY <1>1, <2>1, <3>3 DEF Plain
  <2> QED
    BY <2>2, <2>3
<1>4. CASE u = t
  <2> DEFINE s == todo[t]
  <2>0. s \in Seq(Func) /\ s # <<>>
    BY <1>2 DEF HookTypes, Installs
  <2>1. CASE todo' = todo /\ code' = code /\ at[t].stage # "tail"
    BY <1>1, <2>0, <2>1, <1>4 DEF Plain
  <2>2. CASE todo' = todo /\ at'[t].stage = "tail"
    <3>1. \A i \in DOMAIN s : i # 1 => code'[s[i]] = code[s[i]]
      BY <1>1, <1>2, <2>0, HookStepCode DEF Plain
    <3> QED
      BY <1>1, <2>0, <2>2, <3>1, <1>4 DEF Plain
  <2>3. CASE todo'[t] = Tail(todo[t]) /\ at'[t].stage = "idle"
    <3>1. \A i \in DOMAIN Tail(s) : i + 1 \in DOMAIN s /\ Tail(s)[i] = s[i + 1]
      BY <2>0
    <3>2. \A i \in DOMAIN Tail(s) : i + 1 # 1 /\ i \in Nat
      BY <2>0
    <3>3. \A i \in DOMAIN Tail(s) : code'[Tail(s)[i]] = "plain"
      <4> TAKE i \in DOMAIN Tail(s)
      <4>1. s[i + 1] # s[1] /\ s[i + 1] \in Func
        BY <1>1, <1>2, <2>0, <3>1, <3>2 DEF Plain
      <4>2. code[s[i + 1]] = "plain"
        BY <1>1, <3>1, <3>2 DEF Plain
      <4> QED
        BY <4>1, <4>2, <3>1, <1>2, HookStepCode
    <3>4. \A i \in DOMAIN Tail(s) : Tail(s)[i] \in Of(doing[t])
      BY <1>1, <3>1 DEF Plain
    <3>5. \A i, j \in DOMAIN Tail(s) : i # j => Tail(s)[i] # Tail(s)[j]
      BY <1>1, <3>1, <3>2 DEF Plain
    <3>6. todo'[u] = Tail(s) /\ at'[u].stage = "idle" /\ doing'[u] = doing[t]
      BY <2>3, <1>4
    <3> HIDE DEF s
    <3> QED
      BY <3>3, <3>4, <3>5, <3>6 DEF Plain
  <2> QED
    BY <2>1, <2>2, <2>3, HookStepCode
<1> QED
  BY <1>3, <1>4

LEMMA HookStepChain ==
    ASSUME HookTypes, ChainTypes, ChainInv, NEW t \in Thread, HookStep(t), UNCHANGED chainVars
    PROVE  ChainInv'
<1>1. Apart' /\ \A u \in Thread : Plain(u)'
  BY HookStepPlain DEF ChainInv, Apart, chainVars
<1>2. Fn(t) \in Of(doing[t]) /\ doing[t] \in Doing
  BY HookStepCode, FnType DEF ChainInv, Plain, Installs, ChainTypes
<1>3. \A what \in Doing, f \in Func : f \in Of(what) /\ doing[t] # what => code'[f] = code[f]
  BY <1>2, OfApart, HookStepCode
<1>4. /\ FinishBoot \in Of("post") \cap Func /\ Resource \in Of("tick") \cap Func
      /\ MethodSet = Of("branch") /\ MethodSet \subseteq Func
  BY ChainAssumption DEF Of, MethodSet, Methods
<1>5. Flags'
  <2>1. Flags
    BY DEF ChainInv
  <2>2. doing[t] # "post" => code'[FinishBoot] = code[FinishBoot]
    BY <1>3, <1>4 DEF Doing
  <2>3. doing[t] # "tick" => code'[Resource] = code[Resource]
    BY <1>3, <1>4 DEF Doing
  <2>4. doing[t] # "branch" => \A f \in MethodSet : code'[f] = code[f]
    BY <1>3, <1>4 DEF Doing
  <2> QED
    BY <2>1, <2>2, <2>3, <2>4 DEF Flags, chainVars
<1> QED
  BY <1>1, <1>5 DEF ChainInv

------------------------------------------------------------------------------
(***************************************************************************)
(* The cave.                                                               *)
(***************************************************************************)
\* Where neither the cave nor its size changes, its blocks are the same.
LEMMA SameCave ==
    ASSUME UNCHANGED <<cave, caveInstSize>>
    PROVE  \A f \in Func, p \in Nat : (Kept(f, p)' <=> Kept(f, p)) /\ (Block_at(f, p)' <=> Block_at(f, p))
BY DEF Kept, Block_at

\* A block is written behind those that are kept.
LEMMA CopyKeeps ==
    ASSUME HookTypes, NEW f \in Func, NEW g \in Func, NEW p \in Nat, Kept(g, p),
           cave' = Block(f, caveInstSize), UNCHANGED caveInstSize
    PROVE  Kept(g, p)'
<1>1. \A i \in 0 .. Size(g) - 1 : p + i \in Room /\ p + i - caveInstSize \notin 0 .. Size(f) - 1
  BY SizeNat, HooksAssumption DEF Kept, Block_at, HookTypes, Room
<1>2. \A o \in Room : o - caveInstSize \notin 0 .. Size(f) - 1 => cave'[o] = cave[o]
  BY Zenon DEF Block
<1>3. \A i \in 0 .. Size(g) - 1 : cave'[p + i] = cave[p + i]
  <2> TAKE i \in 0 .. Size(g) - 1
  <2> DEFINE o == p + i
  <2>1. o \in Room /\ o - caveInstSize \notin 0 .. Size(f) - 1
    BY <1>1, SizeNat DEF HookTypes
  <2> HIDE DEF o
  <2>2. cave'[o] = cave[o]
    BY <1>2, <2>1, Zenon
  <2> QED
    BY <2>2 DEF o
<1> QED
  BY <1>3 DEF Kept, Block_at

\* What is written is the block of the function as it was.
LEMMA CopyWrites ==
    ASSUME HookTypes, NEW f \in Func, code[f] = "plain", Valid(f),
           cave' = Block(f, caveInstSize), UNCHANGED caveInstSize
    PROVE  Block_at(f, caveInstSize)'
<1>1. caveInstSize + Size(f) <= CaveMax + Addr
  BY InstructionSizeNat, HooksAssumption DEF Valid, Size, HookTypes
<1>2. \A i \in 0 .. Size(f) - 1 : caveInstSize + i \in Room
  BY <1>1, SizeNat, HooksAssumption DEF Room, HookTypes
<1>3. \A i \in 0 .. Size(f) - 1 : cave'[caveInstSize + i] = <<f, "plain", i>>
  <2> TAKE i \in 0 .. Size(f) - 1
  <2> DEFINE o == caveInstSize + i
  <2>1. o \in Room /\ o - caveInstSize = i
    BY <1>2, SizeNat DEF HookTypes
  <2> HIDE DEF o
  <2>2. cave'[o] = IF o - caveInstSize \in 0 .. Size(f) - 1
                   THEN <<f, code[f], o - caveInstSize>> ELSE cave[o]
    BY <2>1, Zenon DEF Block
  <2>3. cave'[o] = <<f, code[f], i>>
    BY <2>1, <2>2
  <2> QED
    BY <2>3 DEF o
<1> QED
  BY <1>1, <1>3 DEF Block_at, HookTypes

\* A step is one of its thread, in one of its stages.
LEMMA HookStepAt ==
    ASSUME HookTypes, ChainInv, NEW t \in Thread, HookStep(t)
    PROVE  /\ Fn(t) \in Func /\ at[t] \in [stage : Stage, pHook : Nat \cup {None}]
           /\ at[t].stage # "tail" => code[Fn(t)] = "plain"
           /\ \A u \in Thread \ {t} : at'[u] = at[u] /\ Fn(u)' = Fn(u)
           /\ \A u \in Thread : at[u].stage # "idle" => Fn(u) \in Func
<1>1. Installs(t) /\ Fn(t) \in Func /\ Fn(t) = todo[t][1] /\ 1 \in DOMAIN todo[t]
  BY HookStepCode, FnType DEF Installs
<1>2. at[t].stage # "tail" => code[Fn(t)] = "plain"
  BY <1>1 DEF ChainInv, Plain
<1>3. \A u \in Thread \ {t} : at'[u] = at[u] /\ Fn(u)' = Fn(u)
  BY HookStepCode DEF Fn
<1>4. \A u \in Thread : at[u].stage # "idle" => Fn(u) \in Func
  BY FnType DEF ChainInv, Plain
<1> QED
  BY <1>1, <1>2, <1>3, <1>4 DEF HookTypes

\* Steps that leave the cave alone, within it: Begin, CaveBlockInit.
LEMMA EnterCave ==
    ASSUME HookTypes, ChainInv, CaveInv, NEW t \in Thread, Begin(t) \/ CaveBlockInit(t), ~raced'
    PROVE  CaveInv'
<1>1. HookStep(t)
  BY DEF HookStep
<1>a. /\ at[t] \in [stage : Stage, pHook : Nat \cup {None}]
      /\ \A u \in Thread \ {t} : at'[u] = at[u] /\ Fn(u)' = Fn(u)
      /\ \A u \in Thread : at[u].stage # "idle" => Fn(u) \in Func
  BY <1>1, HookStepAt
<1>2. UNCHANGED <<code, original, cave, caveInstSize, once>>
  BY DEF Begin, CaveBlockInit
<1>3. at'[t].stage \in {"idle", "init", "wipe", "copy"}
  BY DEF Begin, CaveBlockInit, Drop, To, HookTypes
<1>4. at'[t].stage = "wipe" => ~once
  BY DEF Begin, CaveBlockInit, Drop, To, HookTypes
<1>5. at'[t].stage = "copy" => once
  BY DEF Begin, CaveBlockInit, Drop, To, HookTypes
<1>6. Alone'
  <2>1. CASE Begin(t)
    <3>1. at'[t].stage = "idle" \/ \A u \in Thread \ {t} : at[u].stage \notin Inside
      <4>1. CASE Drop(t)
        BY <4>1 DEF Drop, HookTypes
      <4>2. CASE raced' = (raced \/ \E u \in Thread \ {t} : at[u].stage \in Inside)
        BY <4>2, Zenon
      <4> QED
        BY <2>1, <4>1, <4>2 DEF Begin
    <3>2. at'[t].stage \in Inside => at'[t].stage # "idle"
      BY DEF Inside
    <3> QED
      BY <3>1, <3>2, <1>a DEF CaveInv, Alone
  <2>2. CASE CaveBlockInit(t)
    BY <2>2, <1>a DEF CaveBlockInit, On, Inside, CaveInv, Alone
  <2> QED
    BY <2>1, <2>2
<1>7. Originals'
  BY <1>2, SameCave DEF CaveInv, Originals, HookTypes, None
<1>8. Empty'
  BY <1>2, <1>3, <1>5, <1>a DEF CaveInv, Empty
<1>9. \A u \in Thread : AtStage(u)'
  <2> SUFFICES ASSUME NEW u \in Thread PROVE AtStage(u)'
    OBVIOUS
  <2>1. CASE u = t
    BY <1>2, <1>3, <1>4, <2>1 DEF AtStage
  <2>2. CASE u # t
    BY <1>2, <1>a, <2>2, SameCave DEF CaveInv, AtStage, HookTypes
  <2> QED
    BY <2>1, <2>2
<1> QED
  BY <1>6, <1>7, <1>8, <1>9 DEF CaveInv

LEMMA WipeCave ==
    ASSUME HookTypes, ChainInv, CaveInv, NEW t \in Thread, CaveBlockWipe(t)
    PROVE  CaveInv'
<1>1. HookStep(t)
  BY DEF HookStep
<1>2. /\ at[t].stage = "wipe" /\ at'[t].stage = "copy" /\ once'
      /\ UNCHANGED <<code, original, caveInstSize>>
  BY DEF CaveBlockWipe, On, To, HookTypes
<1>3. \A u \in Thread \ {t} : at'[u] = at[u] /\ Fn(u)' = Fn(u)
  BY <1>1, HookStepAt
<1>4. ~once
  BY <1>2 DEF CaveInv, AtStage
<1>5. \A u \in Thread \ {t} : at'[u].stage \notin Inside \cup {"store", "jump", "tail"}
  BY <1>2, <1>3, <1>4 DEF CaveInv, Alone, Empty, Inside
<1>6. Alone' /\ Empty'
  BY <1>2, <1>5 DEF Alone, Empty
<1>7. Originals'
  BY <1>2, <1>4 DEF CaveInv, Originals, Empty
<1>8. \A u \in Thread : AtStage(u)'
  BY <1>2, <1>5 DEF AtStage, Inside
<1> QED
  BY <1>6, <1>7, <1>8 DEF CaveInv

LEMMA CopyCave ==
    ASSUME HookTypes, ChainInv, CaveInv, NEW t \in Thread, Copy(t)
    PROVE  CaveInv'
<1>1. HookStep(t)
  BY DEF HookStep
<1>2. /\ at[t].stage = "copy" /\ at'[t].stage \in {"idle", "advance"}
      /\ UNCHANGED <<code, original, caveInstSize, once>>
  BY DEF Copy, On, Drop, To, HookTypes
<1>3. /\ Fn(t) \in Func /\ code[Fn(t)] = "plain"
      /\ \A u \in Thread \ {t} : at'[u] = at[u] /\ Fn(u)' = Fn(u)
      /\ \A u \in Thread : at[u].stage # "idle" => Fn(u) \in Func
  BY <1>1, <1>2, HookStepAt
<1>4. \A f \in Func, p \in Nat : Kept(f, p) => Kept(f, p)'
  <2>1. CASE UNCHANGED cave
    BY <1>2, <2>1, SameCave
  <2>2. CASE cave' = Block(Fn(t), caveInstSize)
    BY <1>2, <1>3, <2>2, CopyKeeps
  <2> QED
    BY <2>1, <2>2 DEF Copy
<1>5. at'[t].stage = "advance" => Block_at(Fn(t), caveInstSize)' /\ Fn(t)' = Fn(t)
  <2> SUFFICES ASSUME at'[t].stage = "advance"
               PROVE  Block_at(Fn(t), caveInstSize)' /\ Fn(t)' = Fn(t)
    OBVIOUS
  <2>1. /\ Valid(Fn(t)) /\ cave' = Block(Fn(t), caveInstSize)
        /\ Fn(t)' = Fn(t)
    BY DEF Copy, Drop, To, HookTypes, Fn
  <2> QED
    BY <1>2, <1>3, <2>1, CopyWrites
<1>6. Alone'
  BY <1>2, <1>3 DEF CaveInv, Alone, Inside
<1>7. Originals'
  BY <1>2, <1>4 DEF CaveInv, Originals, HookTypes, None
<1>8. Empty'
  BY <1>2 DEF CaveInv, Empty
<1>9. \A u \in Thread : AtStage(u)'
  <2> SUFFICES ASSUME NEW u \in Thread PROVE AtStage(u)'
    OBVIOUS
  <2>1. CASE u = t
    BY <1>2, <1>5, <2>1 DEF AtStage
  <2>2. CASE u # t
    <3>1. at[u].stage \notin Inside /\ at'[u] = at[u] /\ Fn(u)' = Fn(u)
      BY <1>2, <1>3, <2>2 DEF CaveInv, Alone, Inside
    <3> QED
      BY <1>2, <1>3, <1>4, <3>1 DEF CaveInv, AtStage, Inside
  <2> QED
    BY <2>1, <2>2
<1> QED
  BY <1>6, <1>7, <1>8, <1>9 DEF CaveInv

LEMMA AdvanceCave ==
    ASSUME HookTypes, ChainInv, CaveInv, NEW t \in Thread, Advance(t)
    PROVE  CaveInv'
<1>1. HookStep(t)
  BY DEF HookStep
<1>2. /\ at[t].stage = "advance" /\ at'[t].stage = "store" /\ at'[t].pHook = caveInstSize
      /\ caveInstSize' = caveInstSize + Size(Fn(t)) /\ Fn(t)' = Fn(t)
      /\ UNCHANGED <<code, original, cave, once>>
  BY DEF Advance, On, HookTypes, Fn
<1>3. /\ Fn(t) \in Func
      /\ \A u \in Thread \ {t} : at'[u] = at[u] /\ Fn(u)' = Fn(u)
      /\ \A u \in Thread : at[u].stage # "idle" => Fn(u) \in Func
  BY <1>1, HookStepAt
<1>4. Block_at(Fn(t), caveInstSize) /\ Size(Fn(t)) \in Nat /\ caveInstSize \in Nat
  BY <1>2, <1>3, SizeNat DEF CaveInv, AtStage, HookTypes
<1>5. \A f \in Func, p \in Nat : Kept(f, p) => Kept(f, p)'
  <2> SUFFICES ASSUME NEW f \in Func, NEW p \in Nat, Kept(f, p) PROVE Kept(f, p)'
    OBVIOUS
  <2>1. Size(f) \in Nat /\ p + Size(f) <= caveInstSize'
    BY <1>2, <1>4, SizeNat DEF Kept
  <2> QED
    BY <1>2, <2>1 DEF Kept, Block_at
<1>6. Kept(Fn(t), at[t].pHook)'
  BY <1>2, <1>4 DEF Kept, Block_at
<1>7. Alone'
  BY <1>2, <1>3 DEF CaveInv, Alone, Inside
<1>8. Originals'
  <2>1. caveInstSize' <= CaveMax + Addr
    BY <1>2, <1>4 DEF Block_at
  <2> QED
    BY <1>2, <1>5, <2>1 DEF CaveInv, Originals, HookTypes, None
<1>9. Empty'
  BY <1>2 DEF CaveInv, Empty
<1>10. \A u \in Thread : AtStage(u)'
  <2> SUFFICES ASSUME NEW u \in Thread PROVE AtStage(u)'
    OBVIOUS
  <2>1. CASE u = t
    BY <1>2, <1>4, <1>6, <2>1 DEF AtStage
  <2>2. CASE u # t
    <3>1. at[u].stage \notin Inside /\ at'[u] = at[u] /\ Fn(u)' = Fn(u)
      BY <1>2, <1>3, <2>2 DEF CaveInv, Alone, Inside
    <3> QED
      BY <1>2, <1>3, <1>5, <3>1 DEF CaveInv, AtStage, Inside
  <2> QED
    BY <2>1, <2>2
<1> QED
  BY <1>7, <1>8, <1>9, <1>10 DEF CaveInv

\* The caller's steps: the original is set, then the jump is written.
LEMMA LeaveCave ==
    ASSUME HookTypes, ChainInv, CaveInv, NEW t \in Thread,
           Store(t) \/ NoJumpArea(t) \/ WriteJump32(t) \/ WriteStub(t) \/ WriteJump64(t)
    PROVE  CaveInv'
<1>1. HookStep(t)
  BY DEF HookStep
<1>2. /\ at[t].stage \in {"store", "jump", "tail"} /\ at'[t].stage \in {"jump", "tail", "idle"}
      /\ UNCHANGED <<cave, caveInstSize, once>>
  BY DEF Store, NoJumpArea, WriteJump32, WriteStub, WriteJump64, On, Drop, To, HookTypes
<1>3. /\ Fn(t) \in Func
      /\ \A u \in Thread \ {t} : at'[u] = at[u] /\ Fn(u)' = Fn(u)
      /\ \A u \in Thread : at[u].stage # "idle" => Fn(u) \in Func
  BY <1>1, HookStepAt
<1>4. \/ /\ at[t].stage = "store" /\ original' = [original EXCEPT ![Fn(t)] = at[t].pHook]
         /\ UNCHANGED code /\ Fn(t)' = Fn(t)
      \/ at[t].stage \in {"jump", "tail"} /\ UNCHANGED original
  BY DEF Store, NoJumpArea, WriteJump32, WriteStub, WriteJump64, On, To, HookTypes, Fn
<1>5. \A f \in Func : original'[f] # original[f] =>
          f = Fn(t) /\ original'[f] \in Nat /\ Kept(f, original'[f])
  BY <1>3, <1>4 DEF CaveInv, AtStage, HookTypes
<1>6. original'[Fn(t)] # None
  BY <1>3, <1>4, <1>5 DEF CaveInv, AtStage, HookTypes, None
<1>7. \A f \in Func : original[f] # None => original'[f] # None
  BY <1>5 DEF None
<1>8. once
  BY <1>2 DEF CaveInv, Empty
<1>9. Alone' /\ Empty'
  BY <1>2, <1>3, <1>8 DEF CaveInv, Alone, Empty, Inside
<1>10. Originals'
  <2>1. \A f \in Func : original'[f] # None => original'[f] \in Nat /\ Kept(f, original'[f])
    BY <1>5 DEF CaveInv, Originals, HookTypes, None
  <2>2. \A f \in Func : code'[f] # "plain" => original'[f] # None
    BY <1>1, <1>6, <1>7, HookStepCode DEF CaveInv, Originals
  <2> QED
    BY <1>2, <2>1, <2>2, SameCave DEF CaveInv, Originals
<1>11. \A u \in Thread : AtStage(u)'
  <2> SUFFICES ASSUME NEW u \in Thread PROVE AtStage(u)'
    OBVIOUS
  <2>1. CASE u = t
    <3>1. at'[t].stage \in {"jump", "tail"} => Fn(t)' = Fn(t)
      BY DEF Store, NoJumpArea, WriteJump32, WriteStub, WriteJump64, On, Drop, To, HookTypes, Fn
    <3> QED
      BY <1>2, <1>6, <2>1, <3>1 DEF AtStage
  <2>2. CASE u # t
    <3>1. at'[u] = at[u] /\ Fn(u)' = Fn(u) /\ AtStage(u)
      BY <1>3, <2>2 DEF CaveInv
    <3> QED
      BY <1>2, <1>3, <1>7, <3>1, SameCave DEF AtStage, HookTypes
  <2> QED
    BY <2>1, <2>2
<1> QED
  BY <1>9, <1>10, <1>11 DEF CaveInv

LEMMA HookStepCave ==
    ASSUME HookTypes, ChainInv, CaveInv, NEW t \in Thread, HookStep(t), ~raced'
    PROVE  CaveInv'
BY EnterCave, WipeCave, CopyCave, AdvanceCave, LeaveCave DEF HookStep

------------------------------------------------------------------------------
(***************************************************************************)
(* The steps of the chain.                                                 *)
(***************************************************************************)
LEMMA SameHooks ==
    ASSUME UNCHANGED hookVars
    PROVE  (HookTypes => HookTypes') /\ (CaveInv => CaveInv')
BY DEF hookVars, HookTypes, CaveInv, Alone, Originals, Empty, AtStage, Kept, Block_at, Fn

\* A thread that is in no part of the chain is at nothing.
LEMMA NothingToDo ==
    ASSUME HookTypes, ChainInv, NEW t \in Thread, Free(t) \/ ~Installs(t)
    PROVE  todo[t] = <<>> /\ at[t].stage = "idle"
<1>1. Plain(t)
  BY DEF ChainInv
<1>2. todo[t] = <<>>
  <2>1. CASE Free(t)
    <3>1. \A i \in DOMAIN todo[t] : FALSE
      BY <1>1, <2>1 DEF Plain, Free, Of
    <3> QED
      BY <3>1, FnType
  <2> QED
    BY <2>1 DEF Installs
<1> QED
  BY <1>1, <1>2 DEF Plain

\* It starts on functions of one part that are not hooked.
LEMMA StartHooks ==
    ASSUME HookTypes, ChainTypes, ChainInv, NEW t \in Thread, NEW what \in Doing,
           NEW fs \in Seq(Func), Free(t), Start(t, what, fs),
           \A i \in DOMAIN fs : fs[i] \in Of(what) /\ code[fs[i]] = "plain",
           \A i, j \in DOMAIN fs : i # j => fs[i] # fs[j]
    PROVE  HookTypes' /\ (CaveInv => CaveInv') /\ (\A u \in Thread : Plain(u)') /\ doing' \in [Thread -> Doing]
<1>1. /\ at[t].stage = "idle" /\ UNCHANGED <<code, original, cave, caveInstSize, once, at, raced>>
      /\ todo'[t] = fs /\ doing'[t] = what
      /\ \A u \in Thread \ {t} : todo'[u] = todo[u] /\ doing'[u] = doing[u] /\ Fn(u)' = Fn(u)
  BY NothingToDo DEF Start, HookTypes, ChainTypes, Fn
<1>2. HookTypes' /\ doing' \in [Thread -> Doing]
  BY DEF Start, HookTypes, ChainTypes
<1>3. ASSUME CaveInv PROVE CaveInv'
  <2>1. Alone' /\ Originals' /\ Empty'
    BY <1>1, <1>3 DEF CaveInv, Alone, Originals, Empty, Kept, Block_at
  <2>2. \A u \in Thread : AtStage(u)'
    <3> SUFFICES ASSUME NEW u \in Thread PROVE AtStage(u)'
      OBVIOUS
    <3>1. CASE u = t
      BY <1>1, <3>1 DEF AtStage
    <3>2. CASE u # t
      BY <1>1, <1>3, <3>2 DEF CaveInv, AtStage, Kept, Block_at
    <3> QED
      BY <3>1, <3>2
  <2> QED
    BY <2>1, <2>2 DEF CaveInv
<1>4. ASSUME NEW u \in Thread PROVE Plain(u)'
  <2>1. CASE u = t
    BY <1>1, <2>1 DEF Plain
  <2>2. CASE u # t
    BY <1>1, <2>2 DEF Plain, ChainInv
  <2> QED
    BY <2>1, <2>2
<1> QED
  BY <1>2, <1>3, <1>4

LEMMA FinishHooks ==
    ASSUME HookTypes, ChainTypes, ChainInv, NEW t \in Thread, NEW what, Finish(t, what)
    PROVE  /\ HookTypes' /\ (CaveInv => CaveInv') /\ (\A u \in Thread : Plain(u)')
           /\ doing' \in [Thread -> Doing]
<1>1. HookTypes' /\ (CaveInv => CaveInv')
  BY SameHooks DEF Finish
<1>2. doing' \in [Thread -> Doing] /\ \A u \in Thread \ {t} : doing'[u] = doing[u]
  BY DEF Finish, ChainTypes, Doing
<1>3. todo[t] = <<>> /\ DOMAIN todo[t] = {} /\ at[t].stage = "idle"
  BY NothingToDo DEF Finish
<1>4. \A u \in Thread : Plain(u)'
  BY <1>2, <1>3 DEF Finish, hookVars, Plain, ChainInv
<1> QED
  BY <1>1, <1>2, <1>4

LEMMA StepLoadApp ==
    ASSUME IInv, NEW t \in Thread, LoadApp(t) PROVE IInv'
<1> USE DEF IInv, LoadApp
<1>1. \A u \in Thread : doing[u] \notin {"post", "branch"}
  BY DEF Loading
<1>2. /\ HookTypes' /\ (CaveInv => CaveInv') /\ (\A u \in Thread : Plain(u)')
      /\ doing' \in [Thread -> Doing]
  <2> DEFINE fs == UploadFinishBootEffectCode
  <2>1. code[FinishBoot] = "plain"
    BY <1>1 DEF ChainInv, Flags
  <2>2. fs \in Seq(Func) /\ DOMAIN fs = {1} /\ fs[1] = FinishBoot /\ FinishBoot \in Of("post")
    BY ChainAssumption DEF UploadFinishBootEffectCode, Of
  <2>3. Start(t, "post", fs) /\ Free(t) /\ "post" \in Doing
    BY DEF Doing
  <2> HIDE DEF fs, IInv, LoadApp
  <2>4. HookTypes /\ ChainTypes /\ ChainInv
    BY DEF IInv
  <2> QED
    BY <2>1, <2>2, <2>3, <2>4, StartHooks
<1>3. doing' = [doing EXCEPT ![t] = "post"] /\ UNCHANGED code
  BY DEF Start
<1>4. Apart' /\ Flags'
  <2>1. \A u \in Thread : doing'[u] = IF u = t THEN "post" ELSE doing[u]
    BY <1>3 DEF ChainTypes
  <2>2. Apart'
    BY <1>1, <2>1 DEF ChainInv, Apart
  <2>3. Flags'
    BY <1>1, <1>3, <2>1 DEF ChainInv, Flags, Free
  <2> QED
    BY <2>2, <2>3
<1>5. ChainTypes'
  BY <1>2 DEF ChainTypes, UploadBgftFixup, PatchInternalCallList, coreVars, patchVars
<1>6. raced' = raced
  BY DEF Start
<1> QED
  BY <1>2, <1>4, <1>5, <1>6 DEF ChainInv

LEMMA StepLoadBranch ==
    ASSUME IInv, NEW t \in Thread, LoadBranch(t) PROVE IInv'
<1> USE DEF IInv, LoadBranch
<1>1. \A u \in Thread : doing[u] \notin {"post", "branch"}
  BY DEF Loading
<1>2. /\ HookTypes' /\ (CaveInv => CaveInv') /\ (\A u \in Thread : Plain(u)')
      /\ doing' \in [Thread -> Doing]
  <2> DEFINE fs == UploadNewPkgInstallerPath \o UploadOnBranch
  <2>1. \A f \in MethodSet : code[f] = "plain"
    BY DEF ChainInv, Flags
  <2>2. fs = Methods /\ Methods \in Seq(Func)
    BY ChainAssumption DEF UploadNewPkgInstallerPath, UploadOnBranch, Methods
  <2>3. \A i \in DOMAIN Methods : Methods[i] \in Of("branch") /\ code[Methods[i]] = "plain"
    BY <2>1 DEF MethodSet, Of
  <2>4. \A i, j \in DOMAIN Methods : i # j => Methods[i] # Methods[j]
    BY ChainAssumption DEF Methods
  <2>5. Start(t, "branch", fs) /\ Free(t) /\ "branch" \in Doing
    BY DEF Doing
  <2> HIDE DEF fs, IInv, LoadBranch
  <2>6. HookTypes /\ ChainTypes /\ ChainInv
    BY DEF IInv
  <2> QED
    BY <2>2, <2>3, <2>4, <2>5, <2>6, StartHooks
<1>3. doing' = [doing EXCEPT ![t] = "branch"] /\ UNCHANGED code
  BY DEF Start
<1>4. Apart' /\ Flags'
  <2>1. \A u \in Thread : doing'[u] = IF u = t THEN "branch" ELSE doing[u]
    BY <1>3 DEF ChainTypes
  <2>2. Apart'
    BY <1>1, <2>1 DEF ChainInv, Apart
  <2>3. Flags'
    BY <1>1, <1>3, <2>1 DEF ChainInv, Flags, Free
  <2> QED
    BY <2>2, <2>3
<1>5. ChainTypes'
  BY <1>2 DEF ChainTypes, bgftVars, coreVars, patchVars
<1>6. raced' = raced
  BY DEF Start
<1> QED
  BY <1>2, <1>4, <1>5, <1>6 DEF ChainInv

LEMMA StepBoot ==
    ASSUME IInv, NEW t \in Thread, Boot(t) PROVE IInv'
<1> USE DEF IInv, Boot
<1>1. /\ HookTypes' /\ (CaveInv => CaveInv') /\ (\A u \in Thread : Plain(u)')
      /\ doing' \in [Thread -> Doing]
  <2> DEFINE fs == UploadResourceStreamBranch
  <2>1. code[Resource] = "plain"
    BY DEF ChainInv, Flags
  <2>2. fs \in Seq(Func) /\ DOMAIN fs = {1} /\ fs[1] = Resource /\ Resource \in Of("tick")
    BY ChainAssumption DEF UploadResourceStreamBranch, Of
  <2>3. Start(t, "tick", fs) /\ Free(t) /\ "tick" \in Doing
    BY DEF Doing
  <2> HIDE DEF fs, IInv, Boot
  <2>4. HookTypes /\ ChainTypes /\ ChainInv
    BY DEF IInv
  <2> QED
    BY <2>1, <2>2, <2>3, <2>4, StartHooks
<1>2. doing' = [doing EXCEPT ![t] = "tick"] /\ UNCHANGED <<code, raced>> /\ doing[t] = "none"
  BY DEF Start, Free
<1>3. Apart' /\ Flags'
  BY <1>2 DEF ChainInv, Apart, Flags, ChainTypes
<1>4. ChainTypes'
  BY <1>1 DEF ChainTypes, bgftVars, coreVars, patchVars
<1> QED
  BY <1>1, <1>2, <1>3, <1>4 DEF ChainInv

LEMMA StepDone ==
    ASSUME IInv, NEW t \in Thread, PostDone(t) \/ BranchDone(t) \/ BootDone(t) PROVE IInv'
<1> USE DEF IInv, PostDone, BranchDone, BootDone
<1>1. PICK what : what = doing[t] /\ Finish(t, what)
  BY DEF Finish
<1>2. /\ HookTypes' /\ (CaveInv => CaveInv') /\ (\A u \in Thread : Plain(u)')
      /\ doing' \in [Thread -> Doing]
  BY <1>1, FinishHooks
<1>3. /\ doing' = [doing EXCEPT ![t] = "none"] /\ UNCHANGED <<code, raced>>
      /\ \/ doing[t] = "post" /\ test' /\ UNCHANGED booted
         \/ doing[t] = "branch" /\ UNCHANGED <<test, booted>>
         \/ doing[t] = "tick" /\ booted' /\ UNCHANGED test
      /\ UNCHANGED App_Exe
  BY <1>1 DEF Finish, hookVars
<1>4. Apart'
  BY <1>3 DEF ChainInv, Apart, ChainTypes
<1>5. Flags'
  BY <1>3 DEF ChainInv, Apart, Flags, ChainTypes
<1>6. ChainTypes'
  <2>1. UNCHANGED <<Root_Domain, App_Exe, bgft, mark, fixup, restarts, found>>
    BY DEF bgftVars, coreVars, patchVars
  <2>2. test' \in BOOLEAN /\ booted' \in BOOLEAN
    BY <1>3 DEF ChainTypes
  <2> QED
    BY <1>2, <2>1, <2>2 DEF ChainTypes
<1> QED
  BY <1>2, <1>3, <1>4, <1>5, <1>6 DEF ChainInv

\* Steps that do not touch the hooks or who installs them.
LEMMA StepApart ==
    ASSUME IInv,
           FixupPatch \/ FixupNoCode \/ FixupTouch \/ (\E t \in Thread : LoadRoot(t))
    PROVE  IInv'
<1>1. UNCHANGED <<hookVars, doing, test, App_Exe, booted>>
  BY DEF FixupPatch, FixupNoCode, FixupTouch, LoadRoot, chainVars
<1>2. HookTypes' /\ (CaveInv => CaveInv')
  BY <1>1, SameHooks DEF IInv
<1>3. ChainInv'
  BY <1>1 DEF IInv, ChainInv, Apart, Flags, Plain, hookVars
<1>4. ChainTypes'
  BY DEF IInv, ChainTypes, FixupPatch, FixupNoCode, FixupTouch, LoadRoot, chainVars, bgftVars, coreVars, patchVars
<1> QED
  BY <1>1, <1>2, <1>3, <1>4 DEF IInv, hookVars

LEMMA StepRestart == ASSUME IInv, Restart PROVE IInv'
<1> USE HooksAssumption, ChainAssumption, MonoAssumption DEF Restart, HooksRestart
<1>1. HookTypes'
  <2>1. todo' \in [Thread -> Seq(Func)]
    OBVIOUS
  <2>2. at' \in [Thread -> [stage : Stage, pHook : Nat \cup {None}]]
    BY DEF Stage
  <2> QED
    BY <2>1, <2>2 DEF HookTypes, None
<1>2. ChainTypes'
  <2>1. doing' \in [Thread -> Doing] /\ restarts' \in 0 .. MaxRestart
    BY DEF Doing, IInv, ChainTypes
  <2> QED
    BY <2>1 DEF IInv, ChainTypes, coreVars, patchVars
<1>3. Apart' /\ Flags'
  <2>1. Methods \in Seq(Func)
    BY DEF Methods
  <2>2. MethodSet \subseteq Func
    BY ONLY <2>1, Elements DEF MethodSet
  <2> QED
    BY <2>2 DEF Apart, Flags
<1>4. \A t \in Thread : Plain(t)'
  <2> SUFFICES ASSUME NEW t \in Thread PROVE Plain(t)'
    OBVIOUS
  <2>1. todo'[t] = <<>> /\ DOMAIN todo'[t] = {} /\ at'[t].stage = "idle"
    OBVIOUS
  <2> QED
    BY <2>1 DEF Plain
<1>5. CaveInv'
  <2>1. /\ \A t \in Thread : at'[t].stage = "idle"
        /\ \A f \in Func : original'[f] = None /\ code'[f] = "plain"
    OBVIOUS
  <2>2. caveInstSize' = 0 /\ 0 <= CaveMax + Addr
    OBVIOUS
  <2>3. Alone' /\ Empty' /\ \A t \in Thread : AtStage(t)'
    BY ONLY <2>1 DEF Alone, Empty, AtStage, Inside
  <2>4. Originals'
    BY ONLY <2>1, <2>2 DEF Originals
  <2> QED
    BY ONLY <2>3, <2>4 DEF CaveInv
<1> QED
  BY <1>1, <1>2, <1>3, <1>4, <1>5 DEF IInv, ChainInv

LEMMA StepInstall ==
    ASSUME IInv, NEW t \in Thread, Install(t) PROVE IInv'
<1>1. HookStep(t) /\ UNCHANGED <<chainVars, bgftVars, restarts>>
  BY DEF Install
<1>2. HookTypes /\ ChainTypes /\ ChainInv /\ (~raced => CaveInv)
  BY DEF IInv
<1>3. HookTypes' /\ ChainInv'
  BY <1>1, <1>2, HookStepTypes, HookStepChain
<1>4. ChainTypes'
  BY <1>1, <1>2 DEF ChainTypes, chainVars, bgftVars, coreVars, patchVars
<1>5. raced => raced'
  <2>1. CASE UNCHANGED raced
    BY <2>1
  <2>2. CASE raced' = (raced \/ \E u \in Thread \ {t} : at[u].stage \in Inside)
    BY <2>2, Zenon
  <2> QED
    BY <1>1, <2>1, <2>2 DEF HookStep, Begin, CaveBlockInit, CaveBlockWipe, Copy, Advance, Store, NoJumpArea, WriteJump32, WriteStub, WriteJump64
<1>6. ~raced' => CaveInv'
  BY <1>1, <1>2, <1>5, HookStepCave
<1> QED
  BY <1>3, <1>4, <1>6 DEF IInv

------------------------------------------------------------------------------
(***************************************************************************)
(* What follows.                                                           *)
(***************************************************************************)
LEMMA Stutter == IInv /\ UNCHANGED monoVars => IInv'
<1> SUFFICES ASSUME IInv, UNCHANGED monoVars PROVE IInv'
  OBVIOUS
<1>1. HookTypes' /\ (CaveInv => CaveInv')
  BY SameHooks DEF IInv, monoVars
<1>2. ChainTypes'
  BY DEF IInv, ChainTypes, monoVars, chainVars, bgftVars, coreVars, patchVars
<1>3. ChainInv'
  BY DEF IInv, ChainInv, Apart, Flags, Plain, monoVars, hookVars, chainVars
<1> QED
  BY <1>1, <1>2, <1>3 DEF IInv, monoVars, hookVars

\* The invariant holds in every state of ShellUI.
THEOREM Inductive == MonoSpec => []IInv
<1>1. IInv /\ [MonoNext]_monoVars => IInv'
  <2> SUFFICES ASSUME IInv, MonoNext PROVE IInv'
    BY Stutter
  <2>1. CASE \E t \in Thread : Install(t)
    BY <2>1, StepInstall
  <2>2. CASE \E t \in Thread : LoadApp(t) \/ LoadBranch(t) \/ Boot(t)
    BY <2>2, StepLoadApp, StepLoadBranch, StepBoot
  <2>3. CASE \E t \in Thread : PostDone(t) \/ BranchDone(t) \/ BootDone(t)
    BY <2>3, StepDone
  <2>4. CASE FixupPatch \/ FixupNoCode \/ FixupTouch \/ (\E t \in Thread : LoadRoot(t))
    BY <2>4, StepApart
  <2>5. CASE Restart
    BY <2>5, StepRestart
  <2> QED
    BY <2>1, <2>2, <2>3, <2>4, <2>5 DEF MonoNext
<1> QED
  BY <1>1, InitIInv, PTL DEF MonoSpec

\* No function is hooked twice, whatever threads Mono's modules, the effect at
\* the end of boot and the restarts of ShellUI come from.
THEOREM NeverHookedTwice == MonoSpec => []HookedOnce
<1>1. IInv => HookedOnce
  <2> SUFFICES ASSUME IInv, NEW t \in Thread, at[t].stage \in {"copy", "advance", "store", "jump"}
               PROVE  code[Fn(t)] = "plain"
    BY DEF HookedOnce
  <2>1. Plain(t) /\ todo[t] # <<>>
    BY DEF IInv, ChainInv, Plain
  <2> QED
    BY <2>1, FnType DEF IInv, Plain
<1> QED
  BY <1>1, Inductive, PTL

\* A hook that calls its original gets to the function it is of, as long as no
\* two threads are in CreatePrologueHook at once.
THEOREM OriginalsLeadBack == MonoSpec => []HooksLeadBack
<1>1. IInv => HooksLeadBack
  BY DEF IInv, CaveInv, Originals, Kept, Block_at, HooksLeadBack, LeadsBack
<1> QED
  BY <1>1, Inductive, PTL

------------------------------------------------------------------------------
(***************************************************************************)
(* The scans of memory.c.                                                  *)
(***************************************************************************)
\* PatternScan stops at the first place that matches.
LEMMA PatternScanFirst ==
    ASSUME NEW mem, NEW size \in Nat, NEW pat
    PROVE  \/ /\ PatternScan(mem, size, pat) = NotFound
              /\ \A i \in 0 .. size - 1 : ~Matches(mem, i, pat)
           \/ /\ PatternScan(mem, size, pat) \in 0 .. size - 1
              /\ Matches(mem, PatternScan(mem, size, pat), pat)
              /\ \A i \in 0 .. PatternScan(mem, size, pat) - 1 : ~Matches(mem, i, pat)
<1> DEFINE Stop == {i \in 0 .. size : i = size \/ Matches(mem, i, pat)}
           val == [i \in 0 .. size |-> IF i = size THEN NotFound ELSE i]
           Is(g) == g = [i \in 0 .. size |-> IF i = size THEN NotFound
                                             ELSE IF Matches(mem, i, pat) THEN i
                                             ELSE g[i + 1]]
<1>1. \E g : Is(g)
  <2>1. 1 \in Nat \ {0} /\ \A i \in 0 .. size : i \notin Stop => i + 1 <= size
    OBVIOUS
  <2>2. ASSUME NEW g PROVE \A i \in 0 .. size :
            (IF i \in Stop THEN val[i] ELSE g[i + 1]) =
            (IF i = size THEN NotFound ELSE IF Matches(mem, i, pat) THEN i ELSE g[i + 1])
    OBVIOUS
  <2>3. CanDescend(size, 1, Stop)
    BY <2>1 DEF CanDescend
  <2> HIDE DEF Stop, val
  <2>4. PICK g : Descends(g, size, 1, Stop, val)
    BY <2>3, Downward
  <2>5. g = [i \in 0 .. size |-> IF i \in Stop THEN val[i] ELSE g[i + 1]]
    BY <2>4 DEF Descends
  <2>6. Is(g)
    BY <2>2, <2>5
  <2> HIDE DEF Is
  <2> QED BY <2>6
<1>2. PICK g : Is(g) /\ PatternScan(mem, size, pat) = g[0]
  BY <1>1, Zenon DEF PatternScan
<1>3. \A i \in 0 .. size : g[i] = IF i = size THEN NotFound ELSE IF Matches(mem, i, pat) THEN i ELSE g[i + 1]
  BY <1>2
<1> HIDE DEF Is
<1> DEFINE First(i) ==
        \/ g[i] = NotFound /\ \A j \in i .. size - 1 : ~Matches(mem, j, pat)
        \/ /\ g[i] \in i .. size - 1 /\ Matches(mem, g[i], pat)
           /\ \A j \in i .. g[i] - 1 : ~Matches(mem, j, pat)
           S == {m \in 0 .. size : First(size - m)}
<1>4. 0 \in S
  <2>1. g[size] = NotFound
    BY <1>3
  <2> QED BY <2>1
<1>5. ASSUME NEW m \in 1 .. size, m - 1 \in S PROVE m \in S
  <2> DEFINE i == size - m
  <2>1. i \in 0 .. size - 1 /\ i + 1 = size - (m - 1) /\ First(i + 1)
    BY <1>5
  <2> HIDE DEF i
  <2>2. CASE Matches(mem, i, pat)
    <3>1. g[i] = i
      BY <1>3, <2>1, <2>2
    <3>2. First(i)
      BY <2>1, <2>2, <3>1
    <3> QED BY <3>2 DEF i
  <2>3. CASE ~Matches(mem, i, pat)
    <3>1. g[i] = g[i + 1]
      BY <1>3, <2>1, <2>3
    <3>2. \A j \in i .. size - 1 : j = i \/ j \in i + 1 .. size - 1
      BY <2>1
    <3>3. First(i)
      BY <2>1, <2>3, <3>1, <3>2 DEF NotFound
    <3> QED BY <3>3 DEF i
  <2> QED BY <2>2, <2>3
<1>6. First(0)
  <2> HIDE DEF S
  <2>1. 0 .. size \subseteq S
    BY <1>4, <1>5, Climb
  <2>2. size \in S
    BY <2>1
  <2> QED BY <2>2 DEF S
<1> QED BY <1>2, <1>6

\* What is not below b, a multiple of the chunk, is not in a chunk below b.
LEMMA ChunkOf ==
    ASSUME Chunk \in Nat \ {0}, NEW b \in Nat, b % Chunk = 0, NEW i \in Nat, b <= i
    PROVE  /\ b <= i - (i % Chunk)
           /\ i < b + Chunk => i - (i % Chunk) = b
<1> DEFINE a == i - (i % Chunk)
<1>1. a \in Nat /\ a % Chunk = 0 /\ i % Chunk \in 0 .. Chunk - 1 /\ a = i - (i % Chunk)
  BY FloorMultiple
<1> HIDE DEF a
<1>2. ~(a < b)
  <2> SUFFICES ASSUME a < b PROVE FALSE
    OBVIOUS
  <2>1. a + Chunk <= b
    BY <1>1, MultiplesApart
  <2> QED BY <1>1, <2>1
<1>3. i < b + Chunk => ~(b < a)
  <2> SUFFICES ASSUME i < b + Chunk, b < a PROVE FALSE
    OBVIOUS
  <2>1. b + Chunk <= a
    BY <1>1, MultiplesApart
  <2> QED BY <1>1, <2>1
<1> QED BY <1>1, <1>2, <1>3

\* The places where a chunk's view holds the pattern, and what the scan is to
\* answer from b on.
Hits(view, size, pat) ==
    {i \in 0 .. size - 1 :
        /\ i - (i % Chunk) < size - Chunk
        /\ Matches(view[i - (i % Chunk)], i % Chunk, pat)}

FirstFrom(b, p, hits) ==
    \/ p = NotFound /\ \A i \in hits : i < b
    \/ p \in hits /\ b <= p /\ \A i \in hits : b <= i => p <= i

\* In one chunk.
LEMMA ChunkHit ==
    ASSUME NEW view, NEW size \in Nat, NEW pat, Chunk \in 1 .. size,
           NEW b \in Nat, b % Chunk = 0, b < size - Chunk, NEW r \in 0 .. Chunk - 1
    PROVE  Matches(view[b], r, pat) <=> b + r \in Hits(view, size, pat)
<1>1. Chunk \in Nat \ {0} /\ b + r \in 0 .. size - 1
  OBVIOUS
<1>2. (b + r) % Chunk = r
  BY <1>1, WithinMultiple
<1>3. (b + r) - ((b + r) % Chunk) = b
  BY <1>2
<1> QED BY <1>1, <1>2, <1>3 DEF Hits

\* In the last chunk, and behind it, there is none.
LEMMA LastUnseen ==
    ASSUME NEW view, NEW size \in Nat, NEW pat, Chunk \in 1 .. size,
           NEW b \in Nat, b % Chunk = 0, b >= size - Chunk
    PROVE  \A i \in Hits(view, size, pat) : i < b
<1> SUFFICES ASSUME NEW i \in Hits(view, size, pat), ~(i < b) PROVE FALSE
  OBVIOUS
<1>1. Chunk \in Nat \ {0}
  OBVIOUS
<1>2. i \in Nat /\ i - (i % Chunk) < size - Chunk /\ b <= i
  BY DEF Hits
<1>3. b <= i - (i % Chunk)
  BY <1>1, <1>2, ChunkOf
<1>4. i - (i % Chunk) \in Nat
  BY <1>1, <1>2, FloorMultiple
<1> HIDE DEF Hits
<1> QED BY <1>1, <1>2, <1>3, <1>4

\* One step of the loop: the answer of a chunk, or that of the next.
Answers(v, b, next, view, pat) ==
    \E f : /\ f = PatternScan(view[b], Chunk, pat)
           /\ v = IF f # NotFound THEN b + f ELSE next

LEMMA ChunkStep ==
    ASSUME NEW view, NEW size \in Nat, NEW pat, Chunk \in 1 .. size,
           NEW b \in Nat, b % Chunk = 0, b < size - Chunk, NEW next,
           FirstFrom(b + Chunk, next, Hits(view, size, pat)),
           NEW v, Answers(v, b, next, view, pat)
    PROVE  FirstFrom(b, v, Hits(view, size, pat))
<1>0. PICK f : f = PatternScan(view[b], Chunk, pat) /\ v = IF f # NotFound THEN b + f ELSE next
  BY DEF Answers
<1> DEFINE c == view[b]
           seen == Hits(view, size, pat)
<1>1. Chunk \in Nat \ {0} /\ b + Chunk \in Nat /\ NotFound \notin Nat
  BY DEF NotFound
<1>2. \A r \in 0 .. Chunk - 1 : Matches(c, r, pat) <=> b + r \in seen
  BY ChunkHit
<1>3. \A i \in seen : i \in Int
  BY DEF Hits
<1>4. \A i \in seen : b <= i /\ i < b + Chunk => i - b \in 0 .. Chunk - 1 /\ b + (i - b) = i
  BY <1>1, <1>3
<1>5. \/ f = NotFound /\ \A r \in 0 .. Chunk - 1 : ~Matches(c, r, pat)
      \/ f \in 0 .. Chunk - 1 /\ Matches(c, f, pat) /\ \A r \in 0 .. f - 1 : ~Matches(c, r, pat)
  BY <1>0, <1>1, PatternScanFirst
<1> HIDE DEF c, seen
<1>6. CASE f = NotFound /\ \A r \in 0 .. Chunk - 1 : ~Matches(c, r, pat)
  <2>1. \A i \in seen : b <= i => b + Chunk <= i
    <3> SUFFICES ASSUME NEW i \in seen, b <= i, ~(b + Chunk <= i) PROVE FALSE
      OBVIOUS
    <3>1. i - b \in 0 .. Chunk - 1 /\ b + (i - b) = i
      BY <1>1, <1>3, <1>4
    <3>2. Matches(c, i - b, pat)
      BY <1>2, <3>1
    <3> QED BY <1>6, <3>1, <3>2
  <2>2. FirstFrom(b + Chunk, next, seen)
    BY DEF seen
  <2>3. CASE next = NotFound /\ \A i \in seen : i < b + Chunk
    <3>1. \A i \in seen : i < b
      BY <1>1, <1>3, <2>1, <2>3
    <3>2. FirstFrom(b, next, seen)
      BY <2>3, <3>1 DEF FirstFrom
    <3> QED BY <1>0, <1>6, <3>2 DEF seen
  <2>4. CASE next \in seen /\ b + Chunk <= next /\ \A i \in seen : b + Chunk <= i => next <= i
    <3>1. b <= next /\ \A i \in seen : b <= i => next <= i
      BY <1>1, <1>3, <2>1, <2>4
    <3>2. FirstFrom(b, next, seen)
      BY <2>4, <3>1 DEF FirstFrom
    <3> QED BY <1>0, <1>6, <3>2 DEF seen
  <2> QED BY <2>2, <2>3, <2>4 DEF FirstFrom
<1>7. CASE f \in 0 .. Chunk - 1 /\ Matches(c, f, pat) /\ \A r \in 0 .. f - 1 : ~Matches(c, r, pat)
  <2>1. b + f \in seen /\ b <= b + f /\ f # NotFound
    <3>1. f \in Nat /\ f \in 0 .. Chunk - 1
      BY <1>1, <1>7
    <3>2. b + f \in seen
      BY <1>2, <1>7, <3>1
    <3> QED BY <1>1, <3>1, <3>2
  <2>2. \A i \in seen : b <= i => b + f <= i
    <3> SUFFICES ASSUME NEW i \in seen, b <= i, ~(b + f <= i) PROVE FALSE
      OBVIOUS
    <3>1. i \in Int /\ i < b + Chunk
      BY <1>1, <1>3, <1>7
    <3>2. i - b \in 0 .. Chunk - 1 /\ b + (i - b) = i /\ i - b \in 0 .. f - 1
      BY <1>4, <1>7, <3>1
    <3>3. Matches(c, i - b, pat)
      BY <1>2, <3>2
    <3> QED BY <1>7, <3>2, <3>3
  <2>3. FirstFrom(b, b + f, seen)
    BY <2>1, <2>2 DEF FirstFrom
  <2> QED BY <1>0, <2>1, <2>3 DEF seen
<1> QED BY <1>5, <1>6, <1>7

\* The loop of pid_chunk_scan, by what it does with each chunk.
ScansBy(g, view, size, pat) ==
    \A i \in 0 .. size :
        /\ i >= size - Chunk => g[i] = NotFound
        /\ i < size - Chunk => Answers(g[i], i, g[i + Chunk], view, pat)

LEMMA ChunkScanSteps ==
    ASSUME NEW view, NEW size \in Nat, NEW pat, Chunk \in 1 .. size
    PROVE  \E g : ChunkScan(view, size, pat) = g[0] /\ ScansBy(g, view, size, pat)
<1> DEFINE of(i) == PatternScan(view[i], Chunk, pat)
           Stop == {i \in 0 .. size : i >= size - Chunk \/ of(i) # NotFound}
           val == [i \in 0 .. size |-> IF i >= size - Chunk THEN NotFound ELSE i + of(i)]
           Is(g) == g = [i \in 0 .. size |->
                            IF i >= size - Chunk THEN NotFound
                            ELSE LET hit == PatternScan(view[i], Chunk, pat)
                                 IN  IF hit # NotFound THEN i + hit ELSE g[i + Chunk]]
<1>1. ASSUME NEW g PROVE \A i \in 0 .. size :
        (IF i \in Stop THEN val[i] ELSE g[i + Chunk]) =
        (IF i >= size - Chunk THEN NotFound
         ELSE LET hit == PatternScan(view[i], Chunk, pat)
              IN  IF hit # NotFound THEN i + hit ELSE g[i + Chunk])
  OBVIOUS
<1>2. CanDescend(size, Chunk, Stop)
  BY DEF CanDescend
<1> HIDE DEF of, Stop, val
<1>3. PICK g : Descends(g, size, Chunk, Stop, val)
  BY <1>2, Downward
<1>4. Is(g)
  BY <1>1, <1>3 DEF Descends
<1>5. \E h : Is(h)
  <2> HIDE DEF Is
  <2> QED BY <1>4
<1>6. PICK h : Is(h) /\ ChunkScan(view, size, pat) = h[0]
  BY <1>5, Zenon DEF ChunkScan
<1>7. ASSUME NEW i \in 0 .. size
      PROVE  /\ i >= size - Chunk => h[i] = NotFound
             /\ i < size - Chunk => Answers(h[i], i, h[i + Chunk], view, pat)
  <2>1. h[i] = IF i >= size - Chunk THEN NotFound
               ELSE LET hit == PatternScan(view[i], Chunk, pat)
                    IN  IF hit # NotFound THEN i + hit ELSE h[i + Chunk]
    BY <1>6
  <2> QED BY <2>1 DEF Answers
<1> HIDE DEF Is
<1>8. ScansBy(h, view, size, pat)
  BY <1>7 DEF ScansBy
<1> QED BY <1>6, <1>8

\* The scan by chunks answers with the first of them.
LEMMA ScanFinds ==
    ASSUME NEW view, NEW size \in Nat, NEW pat, Chunk \in 1 .. size
    PROVE  FirstFrom(0, ChunkScan(view, size, pat), Hits(view, size, pat))
<1> DEFINE seen == Hits(view, size, pat)
<1>1. PICK g : ChunkScan(view, size, pat) = g[0] /\ ScansBy(g, view, size, pat)
  BY ChunkScanSteps
<1>2. Chunk \in Nat \ {0}
  OBVIOUS
<1>3. ASSUME NEW b \in 0 .. size, b % Chunk = 0,
             b + Chunk <= size => FirstFrom(b + Chunk, g[b + Chunk], seen)
      PROVE  FirstFrom(b, g[b], seen)
  <2>1. CASE b >= size - Chunk
    <3>1. g[b] = NotFound
      BY <1>1, <2>1 DEF ScansBy
    <3>2. b \in Nat /\ b >= size - Chunk
      BY <2>1
    <3>3. \A i \in seen : i < b
      BY <1>3, <3>2, LastUnseen
    <3> QED BY <3>1, <3>3 DEF FirstFrom
  <2>2. CASE b < size - Chunk
    <3>2. b + Chunk <= size /\ b \in Nat
      BY <1>2, <2>2
    <3> DEFINE next == g[b + Chunk]
               v == g[b]
    <3>3. FirstFrom(b + Chunk, next, seen)
      BY <1>3, <3>2
    <3>4. b \in Nat /\ b % Chunk = 0 /\ b < size - Chunk
      BY <1>3, <2>2, <3>2
    <3>5. Answers(v, b, next, view, pat)
      BY <1>1, <2>2 DEF ScansBy
    <3> HIDE DEF next, v
    <3>6. FirstFrom(b, v, seen)
      BY <3>3, <3>4, <3>5, ChunkStep
    <3> QED BY <3>6 DEF v
  <2> QED BY <1>2, <2>1, <2>2
<1> HIDE DEF seen
<1> DEFINE S == {m \in 0 .. size :
                    \A b \in size - m .. size : b % Chunk = 0 => FirstFrom(b, g[b], seen)}
<1>4. ASSUME NEW m \in 0 .. size, m # 0 => m - 1 \in S PROVE m \in S
  <2> SUFFICES ASSUME NEW b \in size - m .. size, b % Chunk = 0 PROVE FirstFrom(b, g[b], seen)
    OBVIOUS
  <2>1. CASE b > size - m
    <3>1. b \in size - (m - 1) .. size /\ m # 0
      BY <2>1
    <3> QED BY <1>4, <3>1
  <2>2. CASE b = size - m
    <3>1. b \in 0 .. size /\ b \in Nat
      BY <2>2
    <3>2. (b + Chunk) % Chunk = 0
      BY <1>2, <3>1, NextMultiple
    <3>3. b + Chunk <= size => b + Chunk \in size - (m - 1) .. size /\ m # 0
      BY <1>2, <2>2
    <3>4. b + Chunk <= size => FirstFrom(b + Chunk, g[b + Chunk], seen)
      BY <1>4, <3>2, <3>3
    <3> HIDE DEF S
    <3> QED BY <1>3, <3>1, <3>4
  <2> QED BY <2>1, <2>2
<1>5. 0 \in S /\ \A m \in 1 .. size : m - 1 \in S => m \in S
  <2> HIDE DEF S
  <2> QED BY <1>4
<1>6. size \in S
  <2> HIDE DEF S
  <2>1. 0 .. size \subseteq S
    BY <1>5, Climb
  <2> QED BY <2>1
<1>7. 0 % Chunk = 0
  <2>1. 0 \in 0 .. Chunk - 1 /\ 0 \in Nat /\ (Chunk * 0 + 0) % Chunk = 0
    BY <1>2, Remainder
  <2> QED BY <1>2, <2>1
<1>8. FirstFrom(0, g[0], seen)
  BY <1>6, <1>7
<1> QED BY <1>1, <1>8 DEF seen

\* The view of a chunk that could be read.
LEMMA ViewCopies ==
    ASSUME NEW mem, NEW size \in Nat, Chunk \in 1 .. size,
           NEW stack \in [Starts(size) -> Stack], NEW b \in Starts(size)
    PROVE  /\ 1 .. Chunk \subseteq DOMAIN View(mem, stack, Starts(size))[b]
           /\ \A o \in 1 .. Chunk : View(mem, stack, Starts(size))[b][o] = mem[b + o]
<1> DEFINE done == {k \in Starts(size) : k <= b}
           last == CHOOSE k \in done : \A l \in done : l <= k
<1>1. Starts(size) \subseteq Int
  BY DEF Starts
<1>2. b \in done /\ \A l \in done : l <= b
  BY <1>1
<1>3. last \in done /\ \A l \in done : l <= last
  <2> HIDE DEF done
  <2> QED BY <1>2
<1>4. last = b
  BY <1>1, <1>2, <1>3
<1>5. 1 .. Chunk \subseteq DOMAIN stack[b]
  BY StackAssumption, Elements
<1>6. View(mem, stack, Starts(size))[b] =
          [o \in DOMAIN stack[b] |-> IF done # {} /\ o <= Chunk THEN mem[last + o] ELSE stack[b][o]]
  BY DEF View
<1> HIDE DEF done, last
<1> QED BY <1>2, <1>4, <1>5, <1>6

ViewOf(mem, size, v) ==
    \A b \in Starts(size) : \A r \in Nat : \A j \in Nat \ {0} : r + j <= Chunk =>
        /\ r + j \in DOMAIN v[b]
        /\ v[b][r + j] = mem[(b + r) + j]
        /\ (b + r) + j \in 1 .. size

LEMMA InView ==
    ASSUME NEW size \in Nat, NEW mem, Chunk \in 1 .. size, NEW stack \in [Starts(size) -> Stack]
    PROVE  ViewOf(mem, size, View(mem, stack, Starts(size)))
<1> SUFFICES ASSUME NEW b \in Starts(size), NEW r \in Nat, NEW j \in Nat \ {0}, r + j <= Chunk
             PROVE  /\ r + j \in DOMAIN View(mem, stack, Starts(size))[b]
                    /\ View(mem, stack, Starts(size))[b][r + j] = mem[(b + r) + j]
                    /\ (b + r) + j \in 1 .. size
  BY DEF ViewOf
<1>1. b \in Nat /\ b < size - Chunk /\ Chunk \in Nat
  BY DEF Starts
<1>2. r + j \in 1 .. Chunk /\ b + (r + j) = (b + r) + j /\ (b + r) + j \in 1 .. size
  BY <1>1
<1>3. /\ 1 .. Chunk \subseteq DOMAIN View(mem, stack, Starts(size))[b]
      /\ View(mem, stack, Starts(size))[b][r + j] = mem[b + (r + j)]
  BY <1>2, ViewCopies
<1> QED BY <1>2, <1>3

\* The chunk of a place and the place in the chunk.
LEMMA PlaceInChunk ==
    ASSUME NEW size \in Nat, Chunk \in 1 .. size, NEW i \in Nat
    PROVE  \E b, r \in Nat :
            /\ b = i - (i % Chunk) /\ r = i % Chunk /\ i = b + r /\ r < Chunk
            /\ b < size - Chunk => b \in Starts(size)
<1> DEFINE b == i - (i % Chunk)
           r == i % Chunk
<1>1. Chunk \in Nat \ {0}
  OBVIOUS
<1>2. b \in Nat /\ b % Chunk = 0 /\ r \in 0 .. Chunk - 1
  BY <1>1, FloorMultiple
<1>3. i = b + r
  BY <1>2
<1> HIDE DEF b, r
<1>4. b < size - Chunk => b \in Starts(size)
  BY <1>1, <1>2 DEF Starts
<1>5. r \in Nat /\ r < Chunk
  BY <1>1, <1>2
<1>6. b = i - (i % Chunk) /\ r = i % Chunk
  BY DEF b, r
<1> QED BY <1>2, <1>3, <1>4, <1>5, <1>6

\* What the scan hits is what it is to see, or a pattern that a chunk cuts.
LEMMA HitsSeen ==
    ASSUME NEW size \in Nat, NEW mem \in [1 .. size -> Nat], NEW pat \in Seq(Nat),
           Chunk \in 1 .. size, NEW stack \in [Starts(size) -> Stack]
    PROVE  /\ Seen(mem, size, pat) \subseteq Hits(View(mem, stack, Starts(size)), size, pat)
           /\ \A i \in Hits(View(mem, stack, Starts(size)), size, pat) :
                i \in Seen(mem, size, pat) \/ CutAt(mem, i, pat)
<1> DEFINE v == View(mem, stack, Starts(size))
           n == Len(pat)
<1>1. Chunk \in Nat \ {0} /\ n \in Nat /\ DOMAIN pat = 1 .. n /\ DOMAIN mem = 1 .. size
  BY Elements
<1>2. ViewOf(mem, size, v)
  BY InView
<1> HIDE DEF v
<1>3. ASSUME NEW i \in Seen(mem, size, pat) PROVE i \in Hits(v, size, pat)
  <2>1. i \in 0 .. size - n /\ Matches(mem, i, pat) /\ InOneChunk(i, size, pat)
    BY DEF Seen, Holds
  <2>2. i \in Nat
    BY <1>1, <2>1
  <2>3. PICK b, r \in Nat :
            /\ b = i - (i % Chunk) /\ r = i % Chunk /\ i = b + r /\ r < Chunk
            /\ b < size - Chunk => b \in Starts(size)
    BY <2>2, PlaceInChunk
  <2>4. r + n <= Chunk /\ b < size - Chunk
    BY <2>1, <2>3 DEF InOneChunk
  <2>5. b \in Starts(size) /\ i = b + r
    BY <2>3, <2>4
  <2>6. Matches(v[b], r, pat)
    <3> SUFFICES ASSUME NEW j \in 1 .. n
                 PROVE  r + j \in DOMAIN v[b] /\ pat[j] \in {Wild, v[b][r + j]}
      BY <1>1 DEF Matches
    <3>1. r + j <= Chunk /\ j \in Nat \ {0}
      <4> HIDE DEF n
      <4> QED BY <1>1, <2>3, <2>4
    <3>2. pat[j] \in {Wild, mem[i + j]}
      BY <1>1, <2>1 DEF Matches
    <3>3. r + j \in DOMAIN v[b] /\ v[b][r + j] = mem[(b + r) + j] /\ (b + r) + j \in 1 .. size
      BY <1>2, <2>5, <3>1 DEF ViewOf
    <3> QED BY <2>5, <3>2, <3>3
  <2>7. i \in 0 .. size - 1
    <3> HIDE DEF n
    <3> QED BY <1>1, <2>3, <2>4
  <2> QED BY <2>3, <2>4, <2>6, <2>7 DEF Hits
<1>4. ASSUME NEW i \in Hits(v, size, pat) PROVE i \in Seen(mem, size, pat) \/ CutAt(mem, i, pat)
  <2>1. i \in Nat
    BY DEF Hits
  <2>2. PICK b, r \in Nat :
            /\ b = i - (i % Chunk) /\ r = i % Chunk /\ i = b + r /\ r < Chunk
            /\ b < size - Chunk => b \in Starts(size)
    BY <2>1, PlaceInChunk
  <2>3. b < size - Chunk /\ b \in Starts(size) /\ Matches(v[b], r, pat)
    BY <2>2 DEF Hits
  <2>4. b \in Starts(size) /\ i = b + r
    BY <2>2, <2>3
  <2>5. ASSUME NEW j \in 1 .. n, r + j <= Chunk
        PROVE  pat[j] \in {Wild, mem[i + j]} /\ i + j \in DOMAIN mem
    <3>1. j \in DOMAIN pat /\ j \in Nat \ {0}
      BY <1>1
    <3>2. pat[j] \in {Wild, v[b][r + j]}
      BY <2>3, <3>1 DEF Matches
    <3>3. r + j \in DOMAIN v[b] /\ v[b][r + j] = mem[(b + r) + j] /\ (b + r) + j \in 1 .. size
      BY <1>2, <2>5, <2>4, <3>1 DEF ViewOf
    <3> QED BY <1>1, <2>4, <3>2, <3>3
  <2> HIDE DEF n
  <2>6. CASE r + n <= Chunk
    <3>1. i \in 0 .. size - n /\ \A j \in 1 .. n : r + j <= Chunk
      <4>1. /\ b \in Nat /\ r \in Nat /\ n \in Nat /\ size \in Nat /\ Chunk \in Nat
            /\ i = b + r /\ b < size - Chunk /\ r + n <= Chunk
        BY <1>1, <2>2, <2>3, <2>6
      <4>2. i + n <= size
        BY ONLY <4>1
      <4>3. \A j \in 1 .. n : r + j <= Chunk
        BY <1>1, <2>2, <2>6
      <4> QED BY <1>1, <2>1, <4>2, <4>3
    <3>2. Matches(mem, i, pat)
      BY <1>1, <2>5, <3>1 DEF Matches
    <3> QED BY <2>2, <2>3, <2>6, <3>1, <3>2 DEF Seen, Holds, InOneChunk, n
  <2>7. CASE ~(r + n <= Chunk)
    <3>1. r + n > Chunk
      BY <1>1, <2>2, <2>7
    <3> QED BY <1>1, <2>2, <2>5, <3>1 DEF CutAt, n
  <2> QED BY <2>6, <2>7
<1> QED BY <1>3, <1>4 DEF v

LEMMA FindsIt ==
    ASSUME NEW size \in Nat, NEW mem \in [1 .. size -> Nat], NEW pat \in Seq(Nat), Chunk \in 1 .. size
    PROVE  FindsFirst(mem, size, pat)
<1> SUFFICES ASSUME NEW stack \in [Starts(size) -> Stack]
             PROVE  LET place == ChunkScan(View(mem, stack, Starts(size)), size, pat)
                        seen == Seen(mem, size, pat)
                    IN  IF place = NotFound THEN seen = {}
                        ELSE /\ \A i \in seen : place <= i
                             /\ place \in seen \/ CutAt(mem, place, pat)
  BY DEF FindsFirst
<1> DEFINE v == View(mem, stack, Starts(size))
           place == ChunkScan(v, size, pat)
           seen == Seen(mem, size, pat)
           hits == Hits(v, size, pat)
<1>1. FirstFrom(0, place, hits)
  <2> HIDE DEF v
  <2> QED BY ScanFinds
<1>2. seen \subseteq hits /\ \A i \in hits : i \in seen \/ CutAt(mem, i, pat)
  BY HitsSeen
<1>3. \A i \in hits : i \in Int /\ 0 <= i
  BY DEF Hits
<1> HIDE DEF seen, place, hits
<1>4. IF place = NotFound THEN seen = {}
      ELSE (\A i \in seen : place <= i) /\ (place \in seen \/ CutAt(mem, place, pat))
  BY <1>1, <1>2, <1>3 DEF FirstFrom, NotFound
<1> QED BY <1>4 DEF seen, place

------------------------------------------------------------------------------
(***************************************************************************)
(* SceShellCore.                                                           *)
(***************************************************************************)
\* The scan answers with a place in the code, or with none.
LEMMA PlacesIn == Places \subseteq {NotFound} \cup 0 .. CoreSize - 1
<1> SUFFICES ASSUME NEW stack, NEW read, ChunkScan(View(core, stack, read), CoreSize, Pattern) # NotFound
             PROVE  ChunkScan(View(core, stack, read), CoreSize, Pattern) \in 0 .. CoreSize - 1
  BY DEF Places
<1> DEFINE v == View(core, stack, read)
<1>1. CoreSize \in Nat /\ Chunk \in 1 .. CoreSize
  BY MonoAssumption, StackAssumption
<1> HIDE DEF v
<1>2. FirstFrom(0, ChunkScan(v, CoreSize, Pattern), Hits(v, CoreSize, Pattern))
  BY <1>1, ScanFinds
<1> QED BY <1>2 DEF FirstFrom, Hits, v

CoreTypes ==
    /\ core \in [1 .. CoreSize -> Nat] /\ found \subseteq 0 .. CoreSize - 1
    /\ astray \in BOOLEAN /\ failed \in BOOLEAN
    /\ cut \in Nat /\ cut <= restarts

\* BgftFixupThread runs once in each ShellUI, and not where there is a mark:
\* every place but one is owed to a ShellUI that left none.
MarkInv ==
    /\ mark \/ fixup = "touch" => found # {} \/ failed
    /\ fixup = "scan" => ~mark
    /\ fixup # "none" => test \/ \E t \in Thread : doing[t] = "post"
    /\ Cardinality(found) <= cut + (IF mark \/ fixup = "touch" THEN 1 ELSE 0)

\* Where the code was patched, every byte is what was to be written.
Whole ==
    \A place \in found : \A i \in 1 .. Len(Instead) :
        /\ place + CallAt + i \in 1 .. CoreSize
        /\ core[place + CallAt + i] = Instead[i]

CoreInv == CoreTypes /\ MarkInv /\ (~astray => Whole)

\* A place that holds the pattern is too far from one that was patched for a
\* patch of the first to write into the second.
LEMMA PatchesApart ==
    ASSUME CoreTypes, Whole, NEW place \in found, NEW q \in 0 .. CoreSize - 1,
           Matches(core, q, Pattern), NEW i \in 1 .. Len(Instead)
    PROVE  place + i - q \notin 1 .. Len(Instead)
<1> DEFINE n == Len(Instead)
           d == q - place
<1>1. n \in Nat /\ CallAt \in Nat /\ place \in Nat /\ DOMAIN Instead = 1 .. n
  BY MonoAssumption, Elements DEF CoreTypes
<1> SUFFICES ASSUME place + i - q \in 1 .. n PROVE FALSE
  OBVIOUS
<1> HIDE DEF n
<1>2. d \in 1 - n .. n - 1
  BY <1>1 DEF n
<1>3. PICK k \in 1 .. n : CallAt + k - d \in DOMAIN Pattern /\ Pattern[CallAt + k - d] \notin {Wild, Instead[k]}
  BY <1>2, PatternAssumption DEF n
<1>4. q + (CallAt + k - d) = place + CallAt + k
  BY <1>1
<1>5. core[q + (CallAt + k - d)] = Instead[k]
  BY <1>4 DEF Whole, n
<1>6. Pattern[CallAt + k - d] \in {Wild, core[q + (CallAt + k - d)]}
  BY <1>3 DEF Matches
<1> QED BY <1>3, <1>5, <1>6

LEMMA WriteWhole ==
    ASSUME CoreTypes, Whole, NEW q \in 0 .. CoreSize - 1, Matches(core, q, Pattern), Write(q)
    PROVE  Whole'
<1> DEFINE n == Len(Instead)
<1>1. /\ n \in Nat /\ CallAt \in Nat /\ CoreSize \in Nat /\ DOMAIN Instead = 1 .. n
      /\ DOMAIN core = 1 .. CoreSize /\ DOMAIN Pattern = 1 .. Len(Pattern)
      /\ Len(Pattern) \in Nat /\ CallAt + n <= Len(Pattern)
  BY MonoAssumption, Elements DEF CoreTypes
<1>2. core' = [o \in 1 .. CoreSize |->
                IF o - q - CallAt \in 1 .. n THEN Instead[o - q - CallAt] ELSE core[o]]
  BY <1>1 DEF Write, Patch
<1>3. found' = found \cup {q}
  BY DEF Write
<1> SUFFICES ASSUME NEW place \in found \cup {q}, NEW i \in 1 .. n
             PROVE  place + CallAt + i \in 1 .. CoreSize /\ core'[place + CallAt + i] = Instead[i]
  BY <1>3 DEF Whole
<1> HIDE DEF n
<1>4. CASE place = q
  <2>1. CallAt + i \in DOMAIN Pattern
    BY <1>1
  <2>2. q + (CallAt + i) \in 1 .. CoreSize
    BY <1>1, <2>1 DEF Matches
  <2>3. (q + CallAt + i) - q - CallAt = i /\ q + CallAt + i \in 1 .. CoreSize
    BY <1>1, <2>2
  <2> QED BY <1>2, <1>4, <2>3
<1>5. CASE place \in found
  <2>1. place \in Nat /\ place + CallAt + i \in 1 .. CoreSize /\ core[place + CallAt + i] = Instead[i]
    BY <1>5 DEF CoreTypes, Whole, n
  <2>2. place + i - q \notin 1 .. n
    BY <1>5, PatchesApart DEF n
  <2>3. (place + CallAt + i) - q - CallAt = place + i - q
    BY <1>1, <2>1
  <2>4. ~((place + CallAt + i) - q - CallAt \in 1 .. n)
    BY <2>2, <2>3
  <2>5. core'[place + CallAt + i] = core[place + CallAt + i]
    BY ONLY <1>2, <2>1, <2>4
  <2> QED BY ONLY <2>1, <2>5
<1> QED BY <1>4, <1>5

LEMMA CountAdds ==
    ASSUME CoreTypes, NEW q
    PROVE  /\ Cardinality(found) \in Nat /\ IsFiniteSet(found \cup {q})
           /\ Cardinality(found \cup {q}) <= Cardinality(found) + 1
<1>1. IsFiniteSet(found)
  <2>1. IsFiniteSet(0 .. CoreSize - 1)
    BY MonoAssumption, FS_Interval
  <2> QED BY <2>1, FS_Subset DEF CoreTypes
<1> QED BY <1>1, FS_CardinalityType, FS_AddElement

\* The step that patches.
LEMMA PatchKeeps == ASSUME ChainTypes, CoreInv, FixupPatch PROVE CoreInv'
<1> USE DEF CoreInv
<1>1. PICK q \in Places :
        \/ q = NotFound /\ fixup' = "none" /\ UNCHANGED patchVars
        \/ q # NotFound /\ fixup' = "touch" /\ (Write(q) \/ WriteFails)
  BY DEF FixupPatch
<1>2. fixup = "scan" /\ UNCHANGED <<chainVars, mark, cut, restarts>> /\ ~mark
  BY DEF FixupPatch, MarkInv
<1>3. /\ test \/ \E t \in Thread : doing[t] = "post"
      /\ Cardinality(found) <= cut
      /\ cut \in Nat /\ Cardinality(found) \in Nat
  <2>1. cut \in Nat /\ Cardinality(found) \in Nat
    BY CountAdds DEF CoreTypes
  <2>2. Cardinality(found) <= cut + 0 /\ (test \/ \E t \in Thread : doing[t] = "post")
    BY <1>2 DEF MarkInv
  <2> QED BY <2>1, <2>2
<1>4. test' \/ \E t \in Thread : doing'[t] = "post"
  BY <1>2, <1>3 DEF chainVars
<1>5. CASE q = NotFound /\ fixup' = "none" /\ UNCHANGED patchVars
  <2>1. CoreTypes' /\ (~astray => Whole)'
    BY <1>2, <1>5 DEF CoreTypes, Whole, patchVars
  <2>2. MarkInv'
    BY <1>2, <1>3, <1>5 DEF MarkInv, patchVars
  <2> QED BY <2>1, <2>2
<1>6. CASE q # NotFound /\ fixup' = "touch" /\ WriteFails
  <2>1. CoreTypes' /\ (~astray => Whole)'
    BY <1>2, <1>6 DEF CoreTypes, Whole, WriteFails
  <2>2. MarkInv'
    BY <1>2, <1>3, <1>4, <1>6 DEF MarkInv, WriteFails
  <2> QED BY <2>1, <2>2
<1>7. CASE q # NotFound /\ fixup' = "touch" /\ Write(q)
  <2>1. q \in 0 .. CoreSize - 1
    BY <1>7, PlacesIn
  <2>2. core' \in [1 .. CoreSize -> Nat]
    <3>1. \A i \in DOMAIN Instead : Instead[i] \in Nat
      BY MonoAssumption, Elements
    <3> QED BY <1>7, <3>1 DEF CoreTypes, Write, Patch
  <2>3. CoreTypes'
    BY <1>2, <1>7, <2>1, <2>2 DEF CoreTypes, Write
  <2>4. Cardinality(found') <= cut + 1
    <3>1. found' = found \cup {q}
      BY <1>7 DEF Write
    <3>2. Cardinality(found \cup {q}) \in Nat /\ Cardinality(found \cup {q}) <= Cardinality(found) + 1
      BY CountAdds, FS_CardinalityType
    <3> QED BY <1>3, <3>1, <3>2
  <2>5. MarkInv'
    BY <1>2, <1>4, <1>7, <2>4 DEF MarkInv, Write
  <2>6. ASSUME ~astray' PROVE Whole'
    <3>1. ~astray /\ Matches(core, q, Pattern)
      BY <1>7, <2>6 DEF Write
    <3> QED BY <1>7, <2>1, <3>1, WriteWhole
  <2> QED BY <2>3, <2>5, <2>6
<1> QED BY <1>1, <1>5, <1>6, <1>7

LEMMA CoreKept == ASSUME IInv, CoreInv, [MonoNext]_monoVars PROVE CoreInv'
<1>1. ChainTypes
  BY DEF IInv
<1>2. cut \in Nat /\ Cardinality(found) \in Nat
  BY <1>1, CountAdds DEF CoreInv, CoreTypes, ChainTypes
<1> USE DEF CoreInv
<1>3. CASE UNCHANGED <<patchVars, cut>> /\ restarts' = restarts /\ MarkInv'
  BY <1>3 DEF CoreTypes, Whole, patchVars
<1>4. CASE \E t \in Thread : LoadApp(t)
  <2>1. PICK t \in Thread : LoadApp(t)
    BY <1>4
  <2>2. fixup = "none" /\ UNCHANGED <<coreVars, restarts>>
    BY <2>1 DEF LoadApp, MarkInv, Loading
  <2>3. fixup' \in {"none", "scan"} /\ (fixup' = "scan" => ~mark) /\ doing'[t] = "post"
    BY <1>1, <2>1, <2>2 DEF LoadApp, UploadBgftFixup, Start, ChainTypes
  <2>4. MarkInv'
    BY <1>2, <2>2, <2>3 DEF MarkInv, coreVars, patchVars
  <2> QED BY <1>3, <2>2, <2>4 DEF coreVars
<1>5. CASE \E t \in Thread : LoadBranch(t) \/ Boot(t) \/ PostDone(t) \/ BranchDone(t) \/ BootDone(t)
  <2>1. PICK t \in Thread : LoadBranch(t) \/ Boot(t) \/ PostDone(t) \/ BranchDone(t) \/ BootDone(t)
    BY <1>5
  <2>2. UNCHANGED <<bgftVars, restarts>>
    BY <2>1 DEF LoadBranch, Boot, PostDone, BranchDone, BootDone
  <2>3. /\ test => test'
        /\ \A u \in Thread : doing[u] = "post" => doing'[u] = "post" \/ test'
    BY <1>1, <2>1 DEF LoadBranch, Boot, PostDone, BranchDone, BootDone, Start, Finish, Free, ChainTypes
  <2>4. MarkInv'
    BY <2>2, <2>3 DEF MarkInv, bgftVars, coreVars, patchVars
  <2> QED BY <1>3, <2>2, <2>4 DEF bgftVars, coreVars
<1>6. CASE (\E t \in Thread : Install(t) \/ LoadRoot(t)) \/ UNCHANGED monoVars
  <2>1. UNCHANGED <<bgftVars, doing, test, restarts>>
    BY <1>6 DEF Install, LoadRoot, chainVars, monoVars
  <2>2. MarkInv'
    BY <2>1 DEF MarkInv, bgftVars, coreVars, patchVars
  <2> QED BY <1>3, <2>1, <2>2 DEF bgftVars, coreVars
<1>7. CASE FixupPatch
  BY <1>1, <1>7, PatchKeeps
<1>8. CASE FixupNoCode
  <2>1. MarkInv'
    BY <1>2, <1>8 DEF FixupNoCode, MarkInv, coreVars, patchVars
  <2> QED BY <1>3, <1>8, <2>1 DEF FixupNoCode, coreVars
<1>9. CASE FixupTouch
  <2>1. MarkInv'
    BY <1>2, <1>9 DEF FixupTouch, MarkInv, patchVars
  <2> QED BY <1>3, <1>9, <2>1 DEF FixupTouch
<1>10. CASE Restart
  <2>1. UNCHANGED <<patchVars, mark>> /\ restarts' = restarts + 1 /\ fixup' = "none"
    BY <1>10 DEF Restart
  <2>2. cut' = IF fixup = "touch" THEN cut + 1 ELSE cut
    BY <1>10 DEF Restart
  <2>3. CoreTypes' /\ (~astray => Whole)'
    BY <1>1, <2>1, <2>2 DEF CoreTypes, ChainTypes, Whole, patchVars
  <2>4. MarkInv'
    BY <1>2, <2>1, <2>2 DEF MarkInv, patchVars
  <2> QED BY <2>3, <2>4
<1> QED
  BY <1>4, <1>5, <1>6, <1>7, <1>8, <1>9, <1>10 DEF MonoNext

LEMMA CoreInvariant == MonoSpec => []CoreInv
<1>1. MonoInit => CoreInv
  <2> SUFFICES ASSUME MonoInit PROVE CoreInv
    OBVIOUS
  <2>1. CoreTypes /\ Whole
    <3>1. core \in [1 .. CoreSize -> Nat]
      BY MonoAssumption DEF MonoInit
    <3>2. found = {} /\ ~astray /\ ~failed /\ cut = 0 /\ restarts = 0 /\ astray \in BOOLEAN /\ failed \in BOOLEAN
      BY DEF MonoInit
    <3> QED BY <3>1, <3>2 DEF CoreTypes, Whole
  <2>2. MarkInv
    <3>1. Cardinality(found) = 0 /\ cut = 0
      BY FS_EmptySet DEF MonoInit
    <3> QED BY <3>1 DEF MonoInit, MarkInv
  <2> QED BY <2>1, <2>2 DEF CoreInv
<1> QED
  BY <1>1, Inductive, CoreKept, PTL DEF MonoSpec

\* Types, and every original lies in the cave.
THEOREM MonoTypeCorrect == MonoSpec => []MonoTypeOK
<1>1. IInv /\ CoreInv => MonoTypeOK
  <2> SUFFICES ASSUME IInv, CoreInv PROVE MonoTypeOK
    OBVIOUS
  <2>1. ASSUME ~raced, NEW f \in Func PROVE original[f] \in Room \cup {None}
    <3>1. original[f] # None => Kept(f, original[f])
      BY <2>1 DEF IInv, CaveInv, Originals
    <3>2. Size(f) \in Nat /\ Size(f) >= 1
      BY InstructionSizeNat, HooksAssumption DEF Size
    <3> QED
      BY <3>1, <3>2, HooksAssumption DEF Kept, Block_at, Room
  <2> QED
    BY <2>1 DEF IInv, HookTypes, ChainTypes, CoreInv, CoreTypes, MonoTypeOK, HooksTypeOK
<1> QED
  BY <1>1, Inductive, CoreInvariant, PTL

\* A mark tells the next ShellUI the truth, if no write to SceShellCore failed.
THEOREM MarkIsTrue == MonoSpec => []MarkTold
<1>1. CoreInv => MarkTold
  BY DEF CoreInv, MarkInv, MarkTold
<1> QED
  BY <1>1, CoreInvariant, PTL

\* Of the places that are patched every one but the first is owed to a ShellUI
\* that died before the mark, and no patch damages another, whatever
\* SceShellCore's code is and however often ShellUI is restarted.
THEOREM PatchesCounted == MonoSpec => []PatchedOnce
<1>1. IInv /\ CoreInv => PatchedOnce
  <2> SUFFICES ASSUME IInv, CoreInv PROVE PatchedOnce
    OBVIOUS
  <2>1. cut \in Nat /\ Cardinality(found) \in Nat
    BY CountAdds DEF IInv, CoreInv, CoreTypes, ChainTypes
  <2>2. Cardinality(found) <= 1 + cut
    BY <2>1 DEF CoreInv, MarkInv
  <2>3. DOMAIN Instead = 1 .. Len(Instead)
    BY MonoAssumption, Elements
  <2> QED
    BY <2>2, <2>3 DEF CoreInv, Whole, PatchedOnce
<1> QED
  BY <1>1, Inductive, CoreInvariant, PTL

\* Whatever SceShellCore's code is, patched or not, and whatever is on the
\* stack behind the copy of a chunk, the scan by chunks answers with no place
\* behind the first that holds the pattern, of those it looks at; its answer
\* holds the pattern, or as much of it as its chunk does.
THEOREM ScanIsRight == MonoSpec => []ScanFindsFirst
<1>1. CoreInv => ScanFindsFirst
  <2> SUFFICES ASSUME CoreInv PROVE FindsFirst(core, CoreSize, Pattern)
    BY DEF ScanFindsFirst
  <2>1. CoreSize \in Nat /\ Pattern \in Seq(Nat) /\ Chunk \in 1 .. CoreSize
    BY MonoAssumption, StackAssumption
  <2>2. core \in [1 .. CoreSize -> Nat]
    BY DEF CoreInv, CoreTypes
  <2> QED BY <2>1, <2>2, FindsIt
<1> QED
  BY <1>1, CoreInvariant, PTL
=============================================================================

----------------------------- MODULE MonoPlugin -----------------------------
(***************************************************************************)
(* How plugin_mono gets into ShellUI (lib.cc): the hook of the function    *)
(* that loads Mono's modules installs the rest when app.exe has been       *)
(* loaded and, two modules later at the earliest, the hooks of the         *)
(* settings; the effect at the end of boot installs the hook of resources. *)
(* ShellUI may be restarted at any time.  UploadBgftFixup patches          *)
(* SceShellCore besides, from a thread, and leaves a mark in /user/temp    *)
(* for the next ShellUI.                                                   *)
(*                                                                         *)
(* Mono loads one module at a time, on any thread.  SceShellCore and the   *)
(* files in /user/temp end together, with the console: neither is modelled *)
(* beyond that.                                                            *)
(***************************************************************************)
EXTENDS Hooks, Scan, FiniteSets

CONSTANTS
    FinishBoot,     \* the function hooked by UploadFinishBootEffectCode
    Installer,      \* those of UploadNewPkgInstallerPath, in their order,
    Branch,         \* those of UploadOnBranch,
    Resource,       \* and the one of UploadResourceStreamBranch
    MaxRestart,     \* bound: restarts of ShellUI
    CoreSize,       \* bytes of SceShellCore's code
    Cores,          \* what they may be when ShellUI first starts
    Pattern,        \* what BgftFixupThread looks for,
    CallAt,             \* where in it the call is, 4,
    Instead         \* and what it writes over the call

ASSUME MonoAssumption ==
    /\ MaxRestart \in Nat /\ CoreSize \in Nat /\ Chunk <= CoreSize
    /\ Cores \subseteq [1 .. CoreSize -> Nat]
    /\ Pattern \in Seq(Nat) /\ Instead \in Seq(Nat) /\ CallAt \in Nat
    /\ CallAt + Len(Instead) <= Len(Pattern)

\* Of "48 8D 7D ? E8 ? ? ? ? 84 C0 ...", 4 and B8 01 00 00 00 it is true: code
\* that has been patched has the pattern neither there nor so near that a
\* second patch would overlap the first.
ASSUME PatternAssumption ==
    \A d \in 1 - Len(Instead) .. Len(Instead) - 1 :
        \E i \in 1 .. Len(Instead) :
            /\ CallAt + i - d \in DOMAIN Pattern
            /\ Pattern[CallAt + i - d] \notin {Wild, Instead[i]}

\* One name is one function, and it is hooked by one part of the code.
ASSUME ChainAssumption ==
    /\ FinishBoot \in Func /\ Resource \in Func \ {FinishBoot}
    /\ Installer \in Seq(Func \ {FinishBoot, Resource})
    /\ Branch \in Seq(Func \ {FinishBoot, Resource})
    /\ \A i, j \in DOMAIN (Installer \o Branch) :
        i # j => (Installer \o Branch)[i] # (Installer \o Branch)[j]

VARIABLES
    doing,          \* thread -> the function of plugin_mono it is in
    test,           \* RunPost has been called
    Root_Domain,    \* whether it is set
    App_Exe,        \* who set it, "none" for 0
    booted,         \* the flags of FinishBootEffect and PrintTimeTick
    bgft,           \* _DownloadRegisterTaskByStorageEx is hooked
    fixup,          \* where BgftFixupThread is
    core, mark,     \* SceShellCore's code; the file in /user/temp
    found,          \* history: the places where the code was patched,
    astray,         \* history: one of them did not hold the pattern,
    failed,         \* history: the code could not be written,
    cut,            \* history: ShellUIs that ended before the mark was left
    restarts        \* for the bound

chainVars == <<doing, test, Root_Domain, App_Exe, booted>>
patchVars == <<core, found, astray, failed>>
coreVars == <<patchVars, mark, cut>>
bgftVars == <<bgft, fixup, coreVars>>
monoVars == <<hookVars, chainVars, bgftVars, restarts>>

Doing == {"none", "post", "branch", "tick"}

\* What is hooked, in the order of the code.
UploadFinishBootEffectCode == <<FinishBoot>>
UploadNewPkgInstallerPath == Installer
UploadOnBranch == Branch
UploadResourceStreamBranch == <<Resource>>

Free(t) == doing[t] = "none"

Loading == \E t \in Thread : doing[t] \in {"post", "branch"}

\* A thread starts on a list of functions, and has come to its end.
Start(t, what, fs) ==
    /\ doing' = [doing EXCEPT ![t] = what]
    /\ todo' = [todo EXCEPT ![t] = fs]
    /\ UNCHANGED <<code, original, cave, caveInstSize, once, at, raced>>

Finish(t, what) ==
    /\ doing[t] = what /\ ~Installs(t)
    /\ doing' = [doing EXCEPT ![t] = "none"]
    /\ UNCHANGED hookVars

------------------------------------------------------------------------------
(***************************************************************************)
(* sceKernelLoadStartModuleInternalForMono_Hook.                           *)
(***************************************************************************)
\* The name of the call may not be found.
PatchInternalCallList == bgft' \in {bgft, TRUE}

\* Mutant: nobody looks for the mark.
UploadAnyway == fixup' = "scan" /\ PatchInternalCallList

UploadBgftFixup ==
    \/ mark /\ UNCHANGED <<fixup, bgft>>
    \/ ~mark /\ fixup' = "scan" /\ PatchInternalCallList

\* Mutant: RunPost for every module.
LoadAnyApp(t) ==
    /\ Free(t) /\ ~Loading
    /\ Start(t, "post", UploadFinishBootEffectCode)
    /\ UploadBgftFixup
    /\ UNCHANGED <<test, Root_Domain, App_Exe, booted, coreVars, restarts>>

\* RunPost: UploadBgftFixup, then UploadFinishBootEffectCode.
LoadApp(t) ==
    /\ Free(t) /\ ~Loading
    /\ ~test
    /\ Start(t, "post", UploadFinishBootEffectCode)
    /\ UploadBgftFixup
    /\ UNCHANGED <<test, Root_Domain, App_Exe, booted, coreVars, restarts>>

PostDone(t) ==
    /\ Finish(t, "post")
    /\ test' = TRUE
    /\ UNCHANGED <<Root_Domain, App_Exe, booted, bgftVars, restarts>>

\* The next module, also from within PrintTimeTick.
LoadRoot(t) ==
    /\ doing[t] \in {"none", "tick"} /\ ~Loading
    /\ test /\ ~Root_Domain
    /\ Root_Domain' = TRUE
    /\ UNCHANGED <<hookVars, doing, test, App_Exe, booted, bgftVars, restarts>>

\* One after that, unless PrintTimeTick has set App_Exe.  The flag once,
\* which is set at the end, makes no difference: App_Exe is set.
LoadBranch(t) ==
    /\ Free(t) /\ ~Loading
    /\ test /\ Root_Domain /\ App_Exe = "none"
    /\ App_Exe' = "hook"
    /\ Start(t, "branch", UploadNewPkgInstallerPath \o UploadOnBranch)
    /\ UNCHANGED <<test, Root_Domain, booted, bgftVars, restarts>>

BranchDone(t) ==
    /\ Finish(t, "branch")
    /\ UNCHANGED <<test, Root_Domain, App_Exe, booted, bgftVars, restarts>>

------------------------------------------------------------------------------
(***************************************************************************)
(* FinishBootEffect and PrintTimeTick, once.  The effect runs on one       *)
(* thread at a time.                                                       *)
(***************************************************************************)
Boot(t) ==
    /\ Free(t) /\ \A u \in Thread : doing[u] # "tick"
    /\ code[FinishBoot] = "hooked" /\ ~booted
    /\ App_Exe' \in {App_Exe, "tick"}     \* app.exe may not be found
    /\ Start(t, "tick", UploadResourceStreamBranch)
    /\ UNCHANGED <<test, Root_Domain, booted, bgftVars, restarts>>

BootDone(t) ==
    /\ Finish(t, "tick")
    /\ booted' = TRUE
    /\ UNCHANGED <<test, Root_Domain, App_Exe, bgftVars, restarts>>

------------------------------------------------------------------------------
(***************************************************************************)
(* BgftFixupThread.                                                        *)
(***************************************************************************)
\* What pid_chunk_scan may answer: any read may fail, and the stack behind the
\* copy of a chunk, or all of it, be anything.
Places ==
    {ChunkScan(View(core, stack, read), CoreSize, Pattern) :
        stack \in [Starts(CoreSize) -> Stack], read \in SUBSET Starts(CoreSize)}

\* Mutant: the offset of the call is forgotten.
PatchStart(c, place) ==
    [o \in DOMAIN c |->
        IF o - place \in DOMAIN Instead THEN Instead[o - place] ELSE c[o]]

Patch(c, place) ==
    [o \in DOMAIN c |->
        IF o - place - CallAt \in DOMAIN Instead THEN Instead[o - place - CallAt] ELSE c[o]]

\* sys_proc_rw, whose result nobody looks at.
Write(place) ==
    /\ core' = Patch(core, place)
    /\ found' = found \cup {place}
    /\ astray' = (astray \/ ~Matches(core, place, Pattern))
    /\ UNCHANGED failed

WriteFails == failed' = TRUE /\ UNCHANGED <<core, found, astray>>

\* Mutant: the mark is left whether the pattern was found or not.
FixupAlways ==
    /\ fixup = "scan" /\ fixup' = "touch"
    /\ \E place \in Places :
        \/ place = NotFound /\ UNCHANGED patchVars
        \/ place # NotFound /\ (Write(place) \/ WriteFails)
    /\ UNCHANGED <<hookVars, chainVars, bgft, mark, cut, restarts>>

FixupPatch ==
    /\ fixup = "scan"
    /\ \E place \in Places :
        \/ place = NotFound /\ fixup' = "none" /\ UNCHANGED patchVars
        \/ place # NotFound /\ fixup' = "touch" /\ (Write(place) \/ WriteFails)
    /\ UNCHANGED <<hookVars, chainVars, bgft, mark, cut, restarts>>

\* get_code_info does not find SceShellCore's code.
FixupNoCode ==
    /\ fixup = "scan" /\ fixup' = "none"
    /\ UNCHANGED <<hookVars, chainVars, bgft, coreVars, restarts>>

FixupTouch ==
    /\ fixup = "touch"
    /\ mark' = TRUE /\ fixup' = "none"
    /\ UNCHANGED <<hookVars, chainVars, bgft, patchVars, cut, restarts>>

------------------------------------------------------------------------------
\* plugin_load in a new ShellUI.  SceShellCore stays as it is.
Restart ==
    /\ restarts < MaxRestart /\ restarts' = restarts + 1
    /\ HooksRestart
    /\ doing' = [t \in Thread |-> "none"]
    /\ test' = FALSE /\ Root_Domain' = FALSE /\ App_Exe' = "none" /\ booted' = FALSE
    /\ fixup' = "none" /\ bgft' = FALSE
    /\ cut' = IF fixup = "touch" THEN cut + 1 ELSE cut
    /\ UNCHANGED <<patchVars, mark>>

MonoInit ==
    /\ HooksInit
    /\ doing = [t \in Thread |-> "none"]
    /\ test = FALSE /\ Root_Domain = FALSE /\ App_Exe = "none" /\ booted = FALSE
    /\ fixup = "none" /\ bgft = FALSE
    /\ core \in Cores /\ mark = FALSE /\ found = {}
    /\ astray = FALSE /\ failed = FALSE /\ cut = 0
    /\ restarts = 0

Install(t) == HookStep(t) /\ UNCHANGED <<chainVars, bgftVars, restarts>>

MonoNext ==
    \/ \E t \in Thread :
        \/ Install(t)    \/ LoadApp(t)    \/ PostDone(t) \/ LoadRoot(t)
        \/ LoadBranch(t) \/ BranchDone(t) \/ Boot(t)     \/ BootDone(t)
    \/ FixupPatch \/ FixupNoCode \/ FixupTouch \/ Restart

MonoSpec == MonoInit /\ [][MonoNext]_monoVars

------------------------------------------------------------------------------
(***************************************************************************)
(* Properties.                                                             *)
(***************************************************************************)
MonoTypeOK ==
    /\ HooksTypeOK
    /\ doing \in [Thread -> Doing]
    /\ test \in BOOLEAN /\ Root_Domain \in BOOLEAN /\ booted \in BOOLEAN
    /\ App_Exe \in {"none", "hook", "tick"}
    /\ bgft \in BOOLEAN /\ mark \in BOOLEAN /\ fixup \in {"none", "scan", "touch"}
    /\ restarts \in 0 .. MaxRestart /\ cut \in 0 .. restarts
    /\ core \in [1 .. CoreSize -> Nat] /\ found \subseteq 0 .. CoreSize - 1
    /\ astray \in BOOLEAN /\ failed \in BOOLEAN

\* No function that is hooked, or is being hooked, is hooked again: its
\* original would be a copy of the jump to the hook, and call the hook for
\* ever.  The flags of the chain keep this, though they are set only after
\* the hooks they stand for are installed.
HookedOnce ==
    \A t \in Thread : at[t].stage \in {"copy", "advance", "store", "jump"} =>
        code[Fn(t)] = "plain"

\* SceShellCore is patched once, and once more for each ShellUI that died
\* between the patch and the mark: what the next one finds is another place
\* with the pattern.  No patch writes into another, however many they are and
\* wherever ShellUI was restarted: each is there as a whole, unless one was
\* made at a place that did not hold the pattern.
PatchedOnce ==
    /\ Cardinality(found) <= 1 + cut
    /\ ~astray => \A place \in found : \A i \in DOMAIN Instead :
                    core[place + CallAt + i] = Instead[i]

\* A mark tells the next ShellUI the truth, that SceShellCore is patched,
\* wherever ShellUI was restarted before: if no write to SceShellCore failed,
\* which leaves the mark as well.
MarkTold == mark /\ ~failed => found # {}

\* The scan by chunks finds the pattern where it can see it, before the patch
\* and after it, or takes for it the start of one at the end of a chunk.
ScanFindsFirst == FindsFirst(core, CoreSize, Pattern)
=============================================================================

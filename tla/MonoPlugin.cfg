\* Five functions, of which the cave holds two and a third overlaps its end, two threads
\* and one restart.
SPECIFICATION MonoSpec
CONSTANTS
    t1 = t1
    t2 = t2
    Thread = {t1, t2}
    Func = {"FinishBootEffect", "SearchDir", "OnPress", "OnCheckVisible", "ReadResourceStream"}
    Short = {"OnCheckVisible"}
    FinishBoot = "FinishBootEffect"
    Installer <- MCInstaller
    Branch <- MCBranch
    Resource = "ReadResourceStream"
    Ends <- MCEnds
    MinSize <- MCMinSize
    Stub = 1
    Addr = 1
    CaveMax = 8
    MaxRestart = 1
    Chunk = 5
    Wild = 255
    Stack <- MCStack
    CoreSize = 14
    Cores <- MCCores
    Pattern <- MCPattern
    CallAt = 1
    Instead <- MCInstead
INVARIANTS
    MonoTypeOK
    HooksLeadBack
    HookedOnce
    MarkTold
    PatchedOnce
    ScanFindsFirst
SYMMETRY Threads
CHECK_DEADLOCK FALSE

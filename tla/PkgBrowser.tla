----------------------------- MODULE PkgBrowser -----------------------------
(***************************************************************************)
(* pkg_broswer.c: the scan of the USB drives for packages, the page that   *)
(* lists them, and their installation.                                     *)
(*                                                                         *)
(* A Refresh is cut at every entry of a directory, as others change the    *)
(* drives meanwhile.  Nothing calls it yet: its caller is taken to be one  *)
(* thread of ShellUI.  A path is its node, as the scan makes no other, and *)
(* no path is too long for its buffer.                                     *)
(***************************************************************************)
EXTENDS DriveTree, FiniteSets, Functions

CONSTANTS
    Roots,              \* "/mnt/usb0", "/mnt/usb0.0", ..., in their order
    Pkg,                \* the names with the extension of a package
    Passed,             \* ".", "..", ".git" and "node_modules"
    PKG_MAX_RESULTS,
    PKG_MAX_DEPTH

ASSUME BrowserAssumption ==
    /\ Roots \in Seq(Node \ {<<>>})
    /\ \A i, j \in DOMAIN Roots : i # j => ~IsPrefix(Roots[i], Roots[j])
    /\ PKG_MAX_RESULTS \in Nat \ {0} /\ PKG_MAX_DEPTH \in Nat

VARIABLES
    phase,              \* where PkgBrowser_Refresh is
    root,               \* how many roots have been looked at
    stack,              \* the calls of scan_dir_recursive: directory, entries not read
    streams,            \* how many directories are open
    g_last_scan,        \* the list
    g_has_scanned,
    page,               \* what the file of the page says
    installer,          \* resolve_installer's tried and cached
    stay, seen,         \* history: the packages there all the time of the scan, and ever
    refreshes           \* how many calls of Refresh the bound leaves

scanVars == <<phase, root, stack, streams, g_last_scan, g_has_scanned, stay, seen>>
pageVars == <<g_has_scanned, page, installer, refreshes>>
browserVars == <<scanVars, page, installer, refreshes>>

NoPage == [written |-> FALSE, paths |-> <<>>, truncated |-> FALSE]

entries == g_last_scan.entries
Count == Len(entries)

\* The packages a scan is to find.
Wanted ==
    {f \in files : Last(f) \in Pkg /\ \E i \in DOMAIN Roots :
        /\ IsPrefix(Roots[i], f)
        /\ Len(f) - Len(Roots[i]) \in 1 .. PKG_MAX_DEPTH + 1
        /\ \A j \in Len(Roots[i]) + 1 .. Len(f) : f[j] \notin Passed}

\* The tree changes while a scan runs.
Watch ==
    /\ IF phase = "scan"
       THEN stay' = stay \cap Wanted' /\ seen' = seen \cup Wanted'
       ELSE UNCHANGED <<stay, seen>>
    /\ UNCHANGED <<phase, root, stack, streams, g_last_scan, g_has_scanned, page,
                   installer, refreshes>>

------------------------------------------------------------------------------
(***************************************************************************)
(* scan_all_usb and scan_dir_recursive.                                    *)
(***************************************************************************)
\* PkgBrowser_Refresh up to the first root, also as the end of
\* PkgBrowser_Init.
PkgBrowser_Refresh ==
    /\ phase = "idle" /\ refreshes > 0
    /\ phase' = "scan" /\ root' = 0
    /\ g_last_scan' = [entries |-> <<>>, overflow |-> FALSE]
    /\ stay' = Wanted /\ seen' = Wanted
    /\ refreshes' = refreshes - 1
    /\ UNCHANGED <<treeVars, stack, streams, g_has_scanned, page, installer>>

\* What the calls of readdir give: the directory is read as a whole when it is
\* opened.
Unread(dir) == (Names(dir) \cup {".", ".."}) \ Passed

\* Mutant: one level less.
EnterShallow(calls, dir) ==
    IF Len(calls) >= PKG_MAX_DEPTH
    THEN stack' = calls /\ UNCHANGED <<streams, g_last_scan, stay>>
    ELSE IF Count >= PKG_MAX_RESULTS
    THEN /\ stack' = calls /\ g_last_scan' = [g_last_scan EXCEPT !.overflow = TRUE]
         /\ UNCHANGED <<streams, stay>>
    ELSE /\ stack' = Append(calls, [dir |-> dir, unread |-> Unread(dir)])
         /\ streams' = streams + 1 /\ UNCHANGED <<g_last_scan, stay>>

\* scan_dir_recursive up to its loop, called at the depth Len(calls).
scan_dir_recursive(calls, dir) ==
    IF Len(calls) > PKG_MAX_DEPTH
    THEN stack' = calls /\ UNCHANGED <<streams, g_last_scan, stay>>
    ELSE IF Count >= PKG_MAX_RESULTS
    THEN /\ stack' = calls /\ g_last_scan' = [g_last_scan EXCEPT !.overflow = TRUE]
         /\ UNCHANGED <<streams, stay>>
    ELSE \/ /\ stack' = Append(calls, [dir |-> dir, unread |-> Unread(dir)])
            /\ streams' = streams + 1 /\ UNCHANGED <<g_last_scan, stay>>
         \/ /\ stack' = calls                \* opendir fails: nobody is told
            /\ stay' = {f \in stay : ~IsPrefix(dir, f)}
            /\ UNCHANGED <<streams, g_last_scan>>

ScanRoot ==
    /\ phase = "scan" /\ stack = <<>> /\ root < Len(Roots)
    /\ root' = root + 1
    /\ IF Roots[root + 1] \in dirs THEN scan_dir_recursive(<<>>, Roots[root + 1])
       ELSE UNCHANGED <<stack, streams, g_last_scan, stay>>
    /\ UNCHANGED <<treeVars, phase, seen, pageVars>>

\* The loop over the entries of the innermost directory.
Unseen == IF stack = <<>> THEN {} ELSE Last(stack).unread

Full(e) == Append(Last(stack).dir, e)

Past(e) == Append(Front(stack), [Last(stack) EXCEPT !.unread = @ \ {e}])

IsPkg(e) == Full(e) \in files /\ e \in Pkg

\* stat fails, or it is no package.
ScanOther ==
    /\ \E e \in Unseen :
        /\ Full(e) \notin dirs /\ ~IsPkg(e)
        /\ stack' = Past(e)
    /\ UNCHANGED <<treeVars, phase, root, streams, g_last_scan, stay, seen, pageVars>>

ScanDir ==
    /\ \E e \in Unseen : Full(e) \in dirs /\ scan_dir_recursive(Past(e), Full(e))
    /\ UNCHANGED <<treeVars, phase, root, seen, pageVars>>

\* Mutant: no limit.
ScanPkgUnlimited ==
    /\ \E e \in Unseen :
        /\ IsPkg(e)
        /\ stack' = Past(e)
        /\ g_last_scan' = [g_last_scan EXCEPT !.entries = Append(@, Full(e))]
    /\ UNCHANGED <<treeVars, phase, root, streams, stay, seen, pageVars>>

ScanPkg ==
    /\ Count < PKG_MAX_RESULTS
    /\ \E e \in Unseen :
        /\ IsPkg(e)
        /\ stack' = Past(e)
        /\ g_last_scan' = [g_last_scan EXCEPT !.entries = Append(@, Full(e))]
    /\ UNCHANGED <<treeVars, phase, root, streams, stay, seen, pageVars>>

\* Mutant: the package that does not fit ends the call at once.
ScanFullReturns ==
    /\ Count >= PKG_MAX_RESULTS
    /\ \E e \in Unseen : IsPkg(e)
    /\ stack' = Front(stack)
    /\ g_last_scan' = [g_last_scan EXCEPT !.overflow = TRUE]
    /\ UNCHANGED <<treeVars, phase, root, streams, stay, seen, pageVars>>

\* A package that does not fit: overflow, break, closedir.
ScanFull ==
    /\ Count >= PKG_MAX_RESULTS
    /\ \E e \in Unseen : IsPkg(e)
    /\ stack' = Front(stack) /\ streams' = streams - 1
    /\ g_last_scan' = [g_last_scan EXCEPT !.overflow = TRUE]
    /\ UNCHANGED <<treeVars, phase, root, stay, seen, pageVars>>

\* The end of a directory: closedir.
ScanReturn ==
    /\ stack # <<>> /\ Unseen = {}
    /\ stack' = Front(stack) /\ streams' = streams - 1
    /\ UNCHANGED <<treeVars, phase, root, g_last_scan, stay, seen, pageVars>>

------------------------------------------------------------------------------
(***************************************************************************)
(* write_page.                                                             *)
(***************************************************************************)
ScanDone ==
    /\ phase = "scan" /\ stack = <<>> /\ root = Len(Roots)
    /\ phase' = "open" /\ g_has_scanned' = TRUE
    /\ UNCHANGED <<treeVars, root, stack, streams, g_last_scan, stay, seen, page,
                   installer, refreshes>>

\* fopen empties the file, or fails: then the page stays what it was.
PageOpen ==
    /\ phase = "open"
    /\ \/ phase' = "write" /\ page' = NoPage
       \/ phase' = "idle" /\ UNCHANGED page
    /\ UNCHANGED <<treeVars, root, stack, streams, g_last_scan, g_has_scanned, stay, seen,
                   installer, refreshes>>

\* The button of an empty list says nothing of overflow.
PageClose ==
    /\ phase = "write" /\ phase' = "idle"
    /\ page' = [written |-> TRUE, paths |-> entries,
                truncated |-> Count > 0 /\ g_last_scan.overflow]
    /\ UNCHANGED <<treeVars, root, stack, streams, g_last_scan, g_has_scanned, stay, seen,
                   installer, refreshes>>

------------------------------------------------------------------------------
(***************************************************************************)
(* resolve_installer and PkgBrowser_InstallByPath.                         *)
(***************************************************************************)
\* tried and cached: the first call looks for the symbol, which ShellUI may
\* have loaded or not, and the others trust what it found.
resolve_installer ==
    IF installer = "untried" THEN installer' \in {"found", "missing"} ELSE UNCHANGED installer

\* A button of the page is pressed; nothing comes of a file that is gone.
PkgBrowser_InstallByPath ==
    /\ phase = "idle"
    /\ \E p \in Range(page.paths) : p \in files
    /\ resolve_installer
    /\ UNCHANGED <<treeVars, scanVars, page, refreshes>>

------------------------------------------------------------------------------
BrowserInit ==
    /\ phase = "idle" /\ root = 0 /\ stack = <<>> /\ streams = 0
    /\ g_last_scan = [entries |-> <<>>, overflow |-> FALSE] /\ g_has_scanned = FALSE
    /\ page = NoPage
    /\ installer = "untried"
    /\ stay = {} /\ seen = {}

BrowserNext ==
    \/ PkgBrowser_Refresh \/ ScanRoot \/ ScanOther \/ ScanDir \/ ScanPkg
    \/ ScanFull \/ ScanReturn \/ ScanDone \/ PageOpen \/ PageClose
    \/ PkgBrowser_InstallByPath

------------------------------------------------------------------------------
(***************************************************************************)
(* Properties.                                                             *)
(***************************************************************************)
BrowserTypeOK ==
    /\ phase \in {"idle", "scan", "open", "write"} /\ root \in 0 .. Len(Roots)
    /\ Range(entries) \subseteq Node /\ Count <= PKG_MAX_RESULTS
    /\ stay \subseteq Node /\ seen \subseteq Node

\* A scan leaves no directory open, also where it breaks off at the limit, and
\* has at most one open for every level it may enter.
StreamsReturned ==
    /\ streams = Len(stack) /\ streams <= PKG_MAX_DEPTH + 1
    /\ phase # "scan" => streams = 0

\* When the scan is over, while others write to the drives or pull them out:
\* every package that was in reach all the time, through directories that could
\* be opened, is listed, unless the list says that it is not whole, and is full
\* then; nothing is listed that was never there, and nothing twice.  Of a
\* directory that could not be opened the list says nothing.
ScanFaithful ==
    /\ phase \in {"open", "write"} =>
        /\ stay \subseteq Range(entries) \/ g_last_scan.overflow
        /\ Range(entries) \subseteq seen
    /\ g_last_scan.overflow => Count = PKG_MAX_RESULTS
    /\ IsInjective(entries)
=============================================================================

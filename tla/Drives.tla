------------------------------- MODULE Drives -------------------------------
(***************************************************************************)
(* The package browser in ShellUI and the FTP connections of plugin_server *)
(* over one file tree, with drives that are pulled out.                    *)
(***************************************************************************)
EXTENDS FtpPaths, PkgBrowser

CONSTANTS
    FirstTree,  \* what the tree may be at first: pairs of dirs and files
    Plans       \* bound: how many commands each connection makes and how many
                \* times the page is refreshed

ASSUME FirstTreeAssumption == \A t \in FirstTree : IsTree(t[1], t[2])

drivesVars == <<treeVars, pathsVars, browserVars>>

Pull ==
    /\ \E r \in Range(Roots) : RemoveAll(r) /\ Strays(Below(r))
    /\ Follow /\ UNCHANGED left

DrivesInit ==
    /\ \E t \in FirstTree : dirs = t[1] /\ files = t[2]
    /\ \E p \in Plans : left = p.commands /\ refreshes = p.refreshes
    /\ PathsInit /\ BrowserInit

DrivesNext ==
    \/ \E s \in Session : PathsReads(s) /\ UNCHANGED browserVars
    \/ \E s \in Session : PathsWrites(s) /\ Watch
    \/ Pull /\ Watch
    \/ BrowserNext /\ UNCHANGED pathsVars

DrivesSpec == DrivesInit /\ [][DrivesNext]_drivesVars

DrivesTypeOK == TreeTypeOK /\ PathsTypeOK /\ BrowserTypeOK
=============================================================================

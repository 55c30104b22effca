------------------------------ MODULE Settings ------------------------------
(***************************************************************************)
(* settings_menu.c: the pages ShellUI shows, on which the hooks of         *)
(* plugin_mono keep plugins.ini and hen.ini: a page that opens reads its   *)
(* elements from its file, an element that is pressed is written back.     *)
(*                                                                         *)
(* A file is the list of its sections; KvStore says what ini.c makes of    *)
(* the keys, and only the order of the sections is kept here, which every  *)
(* ini_load reverses.  The hooks run on one thread of ShellUI, so a read   *)
(* or a write of a file is one step but for what other processes and a     *)
(* crash can see of it: a file that is open for writing is not whole.      *)
(***************************************************************************)
EXTENDS Integers, Sequences, SequencesExt, Functions

CONSTANTS
    Plugin,         \* ids of the toggle switches of the plugin manager
    Builtin,        \* those that NewOnPreCreate disables
    Option,         \* ids of the elements of the payload options
    Foreign,        \* ids of elements of ShellUI's own pages
    Text,           \* names of sections and values
    Path,           \* paths: "plugins.ini", "hen.ini"
    NoFile,         \* no file is open for writing
    FirstDisk,      \* what the files may say at first
    MaxSaves,       \* bound: saves in a run
    MaxLost         \* bound: times ShellUI dies with a file open

Section(S) == [name : Text, keys : UNION {[D -> Text] : D \in SUBSET S}]

\* A file that has no section twice, and no ids but those of S.
IsFile(t, S) ==
    /\ t \in Seq(Range(t))
    /\ \A i \in DOMAIN t :
        /\ t[i] \in [name : Text, keys : [DOMAIN t[i].keys -> Text]]
        /\ DOMAIN t[i].keys \subseteq S
    /\ \A i, j \in DOMAIN t : t[i].name = t[j].name => i = j

OwnIds(path) == IF path = "plugins.ini" THEN Plugin ELSE Option

ASSUME SettingsAssumption ==
    /\ MaxSaves \in Nat /\ MaxLost \in Nat /\ Builtin \subseteq Plugin
    /\ Path = {"plugins.ini", "hen.ini"} /\ {"", "0", "1", "all", "HEN"} \subseteq Text
    /\ NoFile \notin [path : Path, file : Seq(Section(Plugin \cup Option \cup Foreign))]

ASSUME FirstDiskAssumption ==
    \A d \in FirstDisk :
        /\ d = [path \in Path |-> d[path]]
        /\ \A path \in Path : IsFile(d[path], OwnIds(path))

VARIABLES
    page,           \* the page on show, "none" between two pages
    g_PageID,       \* the page of the last push or pop, "none" for 0
    told,           \* history: no page came over another unheard by both hooks
    disk,           \* path -> sections of the file
    saving,         \* the FILE ini_save has open: its path and new contents
    chosen,         \* history: path -> id -> the last value somebody gave it
    lost,           \* times ShellUI has died with a file open
    saves           \* saves made, for the bound

settingsVars == <<page, g_PageID, told, disk, saving, chosen, lost, saves>>

Page == {"id_plugin_manager", "payload_options", "other"}

Elements(pg) ==
    CASE pg = "id_plugin_manager" -> Plugin
      [] pg = "payload_options"   -> Option
      [] OTHER                    -> Foreign

Id == Plugin \cup Option \cup Foreign

\* The switches on g_PageID: the file and the section of a page.
Files == [id_plugin_manager |-> "plugins.ini", payload_options |-> "hen.ini"]
SectionOf == [id_plugin_manager |-> "all", payload_options |-> "HEN"]

------------------------------------------------------------------------------
(***************************************************************************)
(* Files.                                                                  *)
(***************************************************************************)
Named(name, keys) == [name |-> name, keys |-> keys]

InSection(t, name) == {i \in DOMAIN t : t[i].name = name}

\* ini_get: the value, "" if there is none.
Value(t, name, id) ==
    LET at == {i \in InSection(t, name) : id \in DOMAIN t[i].keys} IN
    IF at = {} THEN "" ELSE t[CHOOSE i \in at : TRUE].keys[id]

With(keys, id, v) == [k \in DOMAIN keys \cup {id} |-> IF k = id THEN v ELSE keys[k]]

\* ini_set: a new section goes to the front.
SetIn(t, name, id, v) ==
    IF InSection(t, name) = {} THEN <<Named(name, [k \in {id} |-> v])>> \o t
    ELSE [i \in DOMAIN t |->
            IF t[i].name = name THEN Named(name, With(t[i].keys, id, v)) ELSE t[i]]

\* ini_load, ini_set.
Changed(t, name, id, v) == SetIn(Reverse(t), name, id, v)

\* What is on disk of a file that is being written.
Cuts(t) ==
    {<<>>} \cup
    UNION {{Append(SubSeq(t, 1, i - 1), Named(t[i].name, Restrict(t[i].keys, K))) :
                K \in SUBSET DOMAIN t[i].keys} : i \in DOMAIN t}

------------------------------------------------------------------------------
(***************************************************************************)
(* The steps of ShellUI's thread.                                          *)
(***************************************************************************)
Idle == saving = NoFile

\* ini_save: fopen(.., "w") empties the file, fclose has written it.
SaveOpen(path, t) ==
    /\ saving' = [path |-> path, file |-> t]
    /\ disk' = [disk EXCEPT ![path] = <<>>]

SaveFlush ==
    /\ ~Idle
    /\ \E t \in Cuts(saving.file) : disk' = [disk EXCEPT ![saving.path] = t]
    /\ UNCHANGED <<page, g_PageID, told, saving, chosen, lost, saves>>

SaveClose ==
    /\ ~Idle
    /\ disk' = [disk EXCEPT ![saving.path] = saving.file] /\ saving' = NoFile
    /\ UNCHANGED <<page, g_PageID, told, chosen, lost, saves>>

\* Mutant: the page that is left stays in g_PageID.
PageStays ==
    /\ Idle /\ page # "none"
    /\ page' \in {"none", page}
    /\ UNCHANGED <<g_PageID, told, disk, saving, chosen, lost, saves>>

\* Of the page on show, or of the one before it once the next is on show.  A
\* run without this step is one where the hook was not installed (886-897).
NewOnPageDeactivating ==
    /\ Idle /\ page # "none"
    /\ page' \in {"none", page} /\ g_PageID' = "none"
    /\ UNCHANGED <<told, disk, saving, chosen, lost, saves>>

NewOnPageActivating ==
    /\ Idle
    /\ page' \in Page
    /\ \E uPush \in {"OnNone", "OnPush", "OnPop"} :
        /\ g_PageID' = IF uPush = "OnNone" THEN g_PageID ELSE page'
        /\ told' = (told /\ (uPush = "OnNone" => page = "none"))
    /\ UNCHANGED <<disk, saving, chosen, lost, saves>>

\* Mutant: what the file does not say is switched on.
PreCreateOn ==
    /\ Idle /\ page # "none" /\ g_PageID \in DOMAIN Files /\ saves < MaxSaves
    /\ \E id \in Elements(page) :
        LET path == Files[g_PageID]  name == SectionOf[g_PageID] IN
        /\ Value(disk[path], name, id) = ""
        /\ SaveOpen(path, Changed(disk[path], name, id, "1"))
        /\ chosen' = chosen
    /\ saves' = saves + 1
    /\ UNCHANGED <<page, g_PageID, told, lost>>

\* Reads an element; what the file does not say is written to it as "0".
NewOnPreCreate ==
    /\ Idle /\ page # "none" /\ g_PageID \in DOMAIN Files /\ saves < MaxSaves
    /\ \E id \in Elements(page) :
        LET path == Files[g_PageID]  name == SectionOf[g_PageID] IN
        /\ Value(disk[path], name, id) = ""
        /\ SaveOpen(path, Changed(disk[path], name, id, "0"))
        /\ chosen' = IF lost > 0 THEN chosen ELSE [chosen EXCEPT ![path][id] = "0"]
    /\ saves' = saves + 1
    /\ UNCHANGED <<page, g_PageID, told, lost>>

\* Mutant: the file is written from nothing instead of what it said.
PressAnew ==
    /\ Idle /\ page # "none" /\ g_PageID \in DOMAIN Files /\ saves < MaxSaves
    /\ \E id \in Elements(page) \ Builtin, v \in {"0", "1"} :
        LET path == Files[g_PageID]  name == SectionOf[g_PageID] IN
        /\ SaveOpen(path, Changed(<<>>, name, id, v))
        /\ chosen' = [chosen EXCEPT ![path][id] = v]
    /\ saves' = saves + 1
    /\ UNCHANGED <<page, g_PageID, told, lost>>

NewOnPress ==
    /\ Idle /\ page # "none" /\ g_PageID \in DOMAIN Files /\ saves < MaxSaves
    /\ \E id \in Elements(page) \ Builtin, v \in {"0", "1"} :
        LET path == Files[g_PageID]  name == SectionOf[g_PageID] IN
        /\ SaveOpen(path, Changed(disk[path], name, id, v))
        /\ chosen' = [chosen EXCEPT ![path][id] = v]
    /\ saves' = saves + 1
    /\ UNCHANGED <<page, g_PageID, told, lost>>

\* ShellUI dies and starts again, by id_restart_shellui or at any time.
Restart ==
    /\ page' = "none" /\ g_PageID' = "none" /\ UNCHANGED told
    /\ Idle \/ lost < MaxLost
    /\ saving' = NoFile /\ lost' = IF Idle THEN lost ELSE lost + 1
    /\ UNCHANGED <<disk, chosen, saves>>

Says(t, name) == [id \in Id |-> Value(t, name, id)]

Chosen(d) ==
    [path \in Path |-> Says(d[path], IF path = "hen.ini" THEN "HEN" ELSE "all")]

SettingsInit ==
    /\ page = "none" /\ g_PageID = "none" /\ told = TRUE
    /\ disk \in FirstDisk /\ saving = NoFile
    /\ chosen = Chosen(disk) /\ lost = 0
    /\ saves = 0

SettingsNext ==
    \/ NewOnPageDeactivating \/ NewOnPageActivating
    \/ NewOnPreCreate \/ NewOnPress
    \/ SaveFlush \/ SaveClose \/ Restart

------------------------------------------------------------------------------
(***************************************************************************)
(* Properties.                                                             *)
(***************************************************************************)

\* Nothing is enabled on disk that was not enabled last by its user, also in
\* a file that is half written, or was when ShellUI died, and was completed
\* later from what was left of it (ReadWriteLocalSettings reads, writes a
\* default and writes back the whole file).
EnabledByUser ==
    \A path \in Path, id \in Id :
        Chosen(disk)[path][id] = "1" => chosen[path][id] = "1"

\* No press and no read loses another setting: unless ShellUI has died with
\* a file open, a file that is not being written says what was chosen.
SettingsKept ==
    Idle /\ lost = 0 => Chosen(disk) = chosen
=============================================================================

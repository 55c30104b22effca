------------------------------- MODULE Loader -------------------------------
(***************************************************************************)
(* The start of a game: the hook plugin_shellcore has in SceShellCore      *)
(* writes app_info for it (lib.c), and in the game's process plugin_loader *)
(* reads plugins.ini and app_info and loads what is enabled in the         *)
(* sections that match (lib.cpp), while ShellUI may write plugins.ini      *)
(* (Settings).                                                             *)
(***************************************************************************)
EXTENDS Settings

CONSTANTS
    Process,        \* games that are started
    MaxEvents,      \* bound: saves, deaths with a file open and starts in a run
    Title,          \* Process -> title id
    NoInfo          \* no app_info, or nothing in it

ASSUME LoaderAssumption == MaxEvents \in Nat

VARIABLES
    app_info,       \* title -> the title id in its app_info, or NoInfo
    hook,           \* process -> where the hook is for it, "ready" before it is
                    \* started, "done" at once if RunPatch did not find
                    \* chmodRootDirForBug86309
    pc,             \* process -> where loadPlugins is
    sections,       \* process -> section and what follows it in the list
    titleid,        \* process -> info.m_titleid, NoInfo for ""
    loaded,         \* process -> plugins loaded
    wanted          \* history: process -> what plugins.ini, once whole, enables

loaderVars == <<app_info, hook, pc, sections, titleid, loaded, wanted>>

------------------------------------------------------------------------------
Titles == {Title[p] : p \in Process}

\* Mutant: the test of the section's name always holds.
MatchesAny(s, t) == TRUE

\* startsWithCase(name, "all") || startsWith(name, m_titleid)
Matches(s, t) == s.name = "all" \/ t = NoInfo \/ s.name = t

\* Mutant: the name of the section is loaded, not that of the entry.
EnabledName(s) == {s.name : k \in {j \in DOMAIN s.keys : s.keys[j] = "1"}}

Enabled(s) == {k \in DOMAIN s.keys : s.keys[k] = "1"}

EnabledIn(t, title) ==
    UNION {Enabled(t[i]) : i \in {j \in DOMAIN t : t[j].name \in {"all", title}}}

Whole(path) == IF ~Idle /\ saving.path = path THEN saving.file ELSE disk[path]

------------------------------------------------------------------------------
(***************************************************************************)
(* SceShellCore: the hook, and the process it is called for.               *)
(***************************************************************************)
Launch(p) ==
    /\ pc[p] = "none"
    /\ pc' = [pc EXCEPT ![p] = "ini"]
    /\ hook' = [hook EXCEPT ![p] = IF @ = "ready" THEN "open" ELSE @]
    /\ UNCHANGED <<app_info, sections, titleid, loaded, wanted>>

\* write_file: fopen(.., "wb") empties app_info, fclose has written it.
HookOpen(p) ==
    /\ hook[p] = "open"
    /\ hook' = [hook EXCEPT ![p] = "write"]
    /\ app_info' = [app_info EXCEPT ![Title[p]] = NoInfo]
    /\ UNCHANGED <<pc, sections, titleid, loaded, wanted>>

HookWrite(p) ==
    /\ hook[p] = "write"
    /\ hook' = [hook EXCEPT ![p] = "done"]
    /\ app_info' = [app_info EXCEPT ![Title[p]] = Title[p]]
    /\ UNCHANGED <<pc, sections, titleid, loaded, wanted>>

(***************************************************************************)
(* The game's process: loadPlugins.                                        *)
(***************************************************************************)
\* The list ini_load makes has the last section of the file first.  The file
\* is small enough for one buffer of stdio: what fgets returns line by line
\* was read at once.
ReadIni(p) ==
    /\ pc[p] = "ini"
    /\ pc' = [pc EXCEPT ![p] = "info"]
    /\ sections' = [sections EXCEPT ![p] = Reverse(disk["plugins.ini"])]
    /\ wanted' = [wanted EXCEPT ![p] =
            [plugins |-> EnabledIn(Whole("plugins.ini"), Title[p]),
             whole   |-> Whole("plugins.ini") = disk["plugins.ini"]]]
    /\ UNCHANGED <<app_info, hook, titleid, loaded>>

\* info is zero when there is nothing to read, and a pid of 0 is not < 0.
ReadInfo(p) ==
    /\ pc[p] = "info"
    /\ pc' = [pc EXCEPT ![p] = "sections"]
    /\ titleid' = [titleid EXCEPT ![p] = app_info[Title[p]]]
    /\ UNCHANGED <<app_info, hook, sections, loaded, wanted>>

\* Mutant: the last section is not looked at.
SectionButLast(p) ==
    /\ pc[p] = "sections" /\ Len(sections[p]) > 1
    /\ Matches(Head(sections[p]), titleid[p])
    /\ loaded' = [loaded EXCEPT ![p] = @ \cup Enabled(Head(sections[p]))]
    /\ sections' = [sections EXCEPT ![p] = IF Len(@) = 2 THEN <<>> ELSE Tail(@)]
    /\ UNCHANGED <<app_info, hook, pc, titleid, wanted>>

\* Mutant: section is not set to the next one at all.
SectionAgain(p) ==
    /\ pc[p] = "sections" /\ sections[p] # <<>>
    /\ Matches(Head(sections[p]), titleid[p])
    /\ loaded' = [loaded EXCEPT ![p] = @ \cup Enabled(Head(sections[p]))]
    /\ UNCHANGED <<app_info, hook, pc, sections, titleid, wanted>>

\* section is set to the next one only where the section matches; the loop
\* goes round without a change where it does not.
LoadSection(p) ==
    /\ pc[p] = "sections" /\ sections[p] # <<>>
    /\ Matches(Head(sections[p]), titleid[p])
    /\ loaded' = [loaded EXCEPT ![p] = @ \cup Enabled(Head(sections[p]))]
    /\ sections' = [sections EXCEPT ![p] = Tail(@)]
    /\ UNCHANGED <<app_info, hook, pc, titleid, wanted>>

Loaded(p) ==
    /\ pc[p] = "sections" /\ sections[p] = <<>>
    /\ pc' = [pc EXCEPT ![p] = "done"]
    /\ UNCHANGED <<app_info, hook, sections, titleid, loaded, wanted>>

LoaderInit ==
    /\ app_info \in [Titles -> {NoInfo} \cup Titles]
    /\ \A t \in Titles : app_info[t] \in {NoInfo, t}
    /\ hook \in {[p \in Process |-> h] : h \in {"ready", "done"}}
    /\ pc = [p \in Process |-> "none"]
    /\ sections = [p \in Process |-> <<>>] /\ titleid = [p \in Process |-> NoInfo]
    /\ loaded = [p \in Process |-> {}]
    /\ wanted = [p \in Process |-> [plugins |-> {}, whole |-> TRUE]]

HookStep(p) == HookOpen(p) \/ HookWrite(p)
ProcessStep(p) == ReadIni(p) \/ ReadInfo(p) \/ LoadSection(p) \/ Loaded(p)

LoaderNext == \E p \in Process : Launch(p) \/ HookStep(p) \/ ProcessStep(p)

------------------------------------------------------------------------------
vars == <<settingsVars, loaderVars>>

Init == SettingsInit /\ LoaderInit

Started == {p \in Process : pc[p] # "none"}

Next ==
    /\ \/ SettingsNext /\ UNCHANGED loaderVars
       \/ LoaderNext /\ UNCHANGED settingsVars
    /\ (saves + lost + Cardinality(Started))' <= MaxEvents

\* The threads of the processes run; nobody has to press or start anything.
Spec ==
    /\ Init /\ [][Next]_vars
    /\ WF_vars(SaveClose /\ UNCHANGED loaderVars)
    /\ \A p \in Process :
        /\ WF_vars(HookStep(p) /\ UNCHANGED settingsVars)
        /\ WF_vars(ProcessStep(p) /\ UNCHANGED settingsVars)

------------------------------------------------------------------------------
(***************************************************************************)
(* Properties.                                                             *)
(***************************************************************************)
LoaderTypeOK ==
    /\ page \in Page \cup {"none"} /\ g_PageID \in Page \cup {"none"}
    /\ \A p \in Process :
        /\ pc[p] \in {"none", "ini", "info", "sections", "done"}
        /\ hook[p] \in {"ready", "open", "write", "done"}
        /\ titleid[p] \in {NoInfo, Title[p]}
        /\ loaded[p] \subseteq Id

\* An element goes to the file of the page on show, though the hooks know the
\* page only from g_PageID, which transitions of the kind OnNone do not set:
\* unless one of these brought a page over another that nobody had reported as
\* left, a file has ids of its own page only, and no game is given the path of
\* an option or of one of ShellUI's own elements to load as a plugin.
OwnPageOnly ==
    told =>
        /\ \A path \in Path : \A i \in DOMAIN disk[path] :
            DOMAIN disk[path][i].keys \subseteq OwnIds(path)
        /\ \A p \in Process : loaded[p] \subseteq Plugin

\* A process that knows its title loads only what plugins.ini, as last chosen
\* when the process read it, enables for every game or for its title, also
\* when ShellUI was writing the file meanwhile.
OwnSectionsOnly ==
    \A p \in Process :
        titleid[p] # NoInfo => loaded[p] \subseteq wanted[p].plugins

\* A loader that comes to its end has loaded all that the file enables,
\* unless ShellUI was writing the file.
NoneForgotten ==
    \A p \in Process :
        pc[p] = "done" /\ wanted[p].whole => wanted[p].plugins \subseteq loaded[p]

\* A loader all of whose sections match comes to its end.
LoaderEnds ==
    \A p \in Process :
        (/\ pc[p] = "sections"
         /\ \A i \in DOMAIN sections[p] : Matches(sections[p][i], titleid[p]))
            ~> pc[p] = "done"

\* hen_settings.xml, line 36: "Plugins will be loaded on game (BigApp) launch."
EnabledGetLoaded ==
    \A p \in Process, k \in Plugin :
        (k \in wanted[p].plugins /\ wanted[p].whole) ~> k \in loaded[p]
=============================================================================

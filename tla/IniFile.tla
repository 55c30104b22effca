------------------------------ MODULE IniFile ------------------------------
(***************************************************************************)
(* ini.c: a file of lines, and the lists of sections and keys ini_load     *)
(* makes of it, which the other functions change and ini_save writes back. *)
(*                                                                         *)
(* A line is a record of what ini_load makes of it: a comment ("" for a    *)
(* blank line), a section or a key, the last two with the comment that     *)
(* follows on the line.  Texts are short enough for their buffers and have *)
(* no ';' or '#' in them.                                                  *)
(***************************************************************************)
EXTENDS Integers, Sequences, SequencesExt, FiniteSetsExt

CONSTANTS
    Section, Key, Value,
    Text,       \* comments, "" not among them
    Missing,    \* ini_get returns NULL
    NoCopy,     \* no file is loaded
    Files,      \* the files there may be at first: sequences of lines
    MaxOps      \* bound: changes in a run

ASSUME IniAssumption ==
    /\ "" \notin Text /\ Missing \notin Value
    /\ MaxOps \in Nat

VARIABLES
    lines,      \* the file
    ini,        \* INIFile: [header_comments, sections], or NoCopy
    ops         \* the changes made to it, for the bound

iniVars == <<lines, ini, ops>>

Blank == ""

Comment == Text \cup {Blank}

CommentLine(c) == [kind |-> "comment", name |-> c, value |-> Missing, comment |-> Blank]
SectionLine(s, c) == [kind |-> "section", name |-> s, value |-> Missing, comment |-> c]
KeyLine(k, v, c) == [kind |-> "key", name |-> k, value |-> v, comment |-> c]

Line ==
    {CommentLine(c) : c \in Comment}
    \cup {SectionLine(s, c) : s \in Section, c \in Comment}
    \cup {KeyLine(k, v, c) : k \in Key, v \in Value, c \in Comment}

------------------------------------------------------------------------------
(***************************************************************************)
(* The lists.  Every new section and key goes to the front of its list.    *)
(***************************************************************************)
KeyValue == [key : Key, value : Value, comment : Comment, comments_before : Seq(Comment)]

INISection ==
    [name : Section, comment : Comment, comments_before : Seq(Comment), keys : Seq(KeyValue)]

INIFile == [header_comments : Seq(Comment), sections : Seq(INISection)]

\* So that no table is taken for none.
ASSUME NoCopyAssumption ==
    NoCopy \notin INIFile \cup [Section \X Key -> Value \cup {Missing}]

NewSection(s, c) == [name |-> s, comment |-> c, comments_before |-> <<>>, keys |-> <<>>]

NewKey(k, v, c, before) == [key |-> k, value |-> v, comment |-> c, comments_before |-> before]

InFront(t, sec) == [t EXCEPT !.sections = <<sec>> \o @]

KeyInFront(sec, kv) == [sec EXCEPT !.keys = <<kv>> \o @]

\* The first match, 0 if there is none.
FindSection(t, s) == SelectInSeq(t.sections, LAMBDA x : x.name = s)
FindKey(sec, k) == SelectInSeq(sec.keys, LAMBDA x : x.key = k)

(***************************************************************************)
(* ini_load, line by line.  pending_comments points at the header's        *)
(* comments, or at those before the section that was read last.            *)
(***************************************************************************)
Pending(t) ==
    IF t.sections = <<>> THEN t.header_comments ELSE t.sections[1].comments_before

WithPending(t, cs) ==
    IF t.sections = <<>> THEN [t EXCEPT !.header_comments = cs]
    ELSE [t EXCEPT !.sections[1].comments_before = cs]

LoadComment(t, l) == WithPending(t, Append(Pending(t), l.name))

\* Mutant: a section keeps the comments before it, as a key does.
LoadSectionCommented(t, l) ==
    InFront(WithPending(t, <<>>),
            [NewSection(l.name, l.comment) EXCEPT !.comments_before = Pending(t)])

\* A section takes what is pending, and loses it when pending_comments is
\* pointed at its own comments_before and that is made empty.
LoadSection(t, l) == InFront(WithPending(t, <<>>), NewSection(l.name, l.comment))

\* A key takes what is pending.  Before any section it is dropped.
LoadKey(t, l) ==
    IF t.sections = <<>> THEN t
    ELSE [WithPending(t, <<>>) EXCEPT !.sections[1] =
            KeyInFront(@, NewKey(l.name, l.value, l.comment, Pending(t)))]

LoadLine(t, l) ==
    CASE l.kind = "comment" -> LoadComment(t, l)
      [] l.kind = "section" -> LoadSection(t, l)
      [] l.kind = "key"     -> LoadKey(t, l)

\* What becomes of t with each line.
Loading(t, file) ==
    LET after[n \in 0 .. Len(file)] ==
            IF n = 0 THEN t ELSE LoadLine(after[n - 1], file[n])
    IN  after

Loaded(file) == Loading([header_comments |-> <<>>, sections |-> <<>>], file)[Len(file)]

\* No section is there twice, and no key twice in a section.
NothingTwice(t) ==
    /\ \A i, j \in DOMAIN t.sections : t.sections[i].name = t.sections[j].name => i = j
    /\ \A n \in DOMAIN t.sections : \A i, j \in DOMAIN t.sections[n].keys :
        t.sections[n].keys[i].key = t.sections[n].keys[j].key => i = j

\* The files of the repository, and those its code writes, are like that.
ASSUME FilesAssumption == \A file \in Files : file \in Seq(Line) /\ NothingTwice(Loaded(file))

(***************************************************************************)
(* ini_save.                                                               *)
(***************************************************************************)
Comments(cs) == [i \in DOMAIN cs |-> CommentLine(cs[i])]

\* Mutant: a key before its comments.
KeyLinesFirst(kv) == <<KeyLine(kv.key, kv.value, kv.comment)>> \o Comments(kv.comments_before)

KeyLines(kv) == Append(Comments(kv.comments_before), KeyLine(kv.key, kv.value, kv.comment))

SectionLines(sec) ==
    Append(Comments(sec.comments_before), SectionLine(sec.name, sec.comment))
    \o FlattenSeq([i \in DOMAIN sec.keys |-> KeyLines(sec.keys[i])])
    \o <<CommentLine(Blank)>>

Saved(t) ==
    Comments(t.header_comments)
    \o FlattenSeq([i \in DOMAIN t.sections |-> SectionLines(t.sections[i])])

(***************************************************************************)
(* ini_get, ini_set, ini_delete_key, ini_delete_section.                   *)
(***************************************************************************)
Get(t, s, k) ==
    LET i == FindSection(t, s) IN
    IF i = 0 THEN Missing
    ELSE LET j == FindKey(t.sections[i], k) IN
         IF j = 0 THEN Missing ELSE t.sections[i].keys[j].value

\* Mutant: ini_set does not look for the key.
SetKeyAnew(sec, k, v) == KeyInFront(sec, NewKey(k, v, Blank, <<>>))

\* Mutant: the value is copied to a key that was there only.
SetKeyOldOnly(sec, k, v) ==
    LET j == FindKey(sec, k) IN
    IF j = 0 THEN KeyInFront(sec, NewKey(k, Missing, Blank, <<>>))
    ELSE [sec EXCEPT !.keys[j].value = v]

SetKey(sec, k, v) ==
    LET j == FindKey(sec, k) IN
    IF j = 0 THEN KeyInFront(sec, NewKey(k, v, Blank, <<>>))
    ELSE [sec EXCEPT !.keys[j].value = v]

\* ini_set_with_comment as ini_set calls it, without a comment: nothing calls
\* it with one.
SetValue(t, s, k, v) ==
    LET i == FindSection(t, s) IN
    IF i = 0 THEN InFront(t, SetKey(NewSection(s, Blank), k, v))
    ELSE [t EXCEPT !.sections[i] = SetKey(@, k, v)]

------------------------------------------------------------------------------
(***************************************************************************)
(* The functions as steps of a caller.                                     *)
(***************************************************************************)
Change(t) == ops < MaxOps /\ ops' = ops + 1 /\ ini' = t /\ UNCHANGED lines

IsLoaded == ini # NoCopy

Load ==
    /\ ~IsLoaded
    /\ ini' = Loaded(lines)
    /\ UNCHANGED <<lines, ops>>

Set ==
    /\ IsLoaded
    /\ \E s \in Section, k \in Key, v \in Value : Change(SetValue(ini, s, k, v))

DeleteKey ==
    /\ IsLoaded
    /\ \E s \in Section, k \in Key :
        LET i == FindSection(ini, s)
            j == FindKey(ini.sections[i], k)
        IN  i # 0 /\ j # 0 /\ Change([ini EXCEPT !.sections[i].keys = RemoveAt(@, j)])

DeleteSection ==
    /\ IsLoaded
    /\ \E s \in Section :
        LET i == FindSection(ini, s) IN
        i # 0 /\ Change([ini EXCEPT !.sections = RemoveAt(@, i)])

\* To the header, or to the comments before a section.
AddComment ==
    /\ IsLoaded
    /\ \E c \in Text :
        \/ Change([ini EXCEPT !.header_comments = Append(@, c)])
        \/ \E s \in Section :
            LET i == FindSection(ini, s) IN
            i # 0 /\ Change([ini EXCEPT !.sections[i].comments_before = Append(@, c)])

AddSectionComment ==
    /\ IsLoaded
    /\ \E c \in Text, s \in Section :
        LET i == FindSection(ini, s) IN
        i # 0 /\ Change([ini EXCEPT !.sections[i].comment = c])

Save == IsLoaded /\ lines' = Saved(ini) /\ UNCHANGED <<ini, ops>>

Free == IsLoaded /\ ini' = NoCopy /\ UNCHANGED <<lines, ops>>

IniInit == lines \in Files /\ ini = NoCopy /\ ops = 0

IniNext ==
    \/ Load \/ Save \/ Free
    \/ Set \/ DeleteKey \/ DeleteSection \/ AddComment \/ AddSectionComment

IniSpec == IniInit /\ [][IniNext]_iniVars

------------------------------------------------------------------------------
(***************************************************************************)
(* Properties.                                                             *)
(***************************************************************************)
View(t) == [at \in Section \X Key |-> Get(t, at[1], at[2])]

\* What a file says to its reader: a key line belongs to the last section
\* line above it.
Says(file, s, k) ==
    {n \in DOMAIN file :
        /\ file[n].kind = "key" /\ file[n].name = k
        /\ \E i \in 1 .. n - 1 :
            /\ file[i].kind = "section" /\ file[i].name = s
            /\ \A j \in i + 1 .. n - 1 : file[j].kind # "section"}

FileView(file) ==
    [at \in Section \X Key |->
        LET n == Says(file, at[1], at[2]) IN
        IF n = {} THEN Missing ELSE file[CHOOSE i \in n : TRUE].value]

\* ini.c is the table its callers take it for: a section and key set and
\* saved is what the next ini_load finds, though every load reverses the
\* order of the sections and keys, and find_section and find_key take the
\* first.
Store == INSTANCE KvStore WITH
    stored <- FileView(lines),
    mem <- IF IsLoaded THEN View(ini) ELSE NoCopy

StoreSpec == Store!StoreSpec

Reload(t) == Loaded(Saved(t))

\* The comments before a key and on its line, and on a section's line, are
\* found again after the file was saved and loaded.
Annotated(t) ==
    [i \in DOMAIN t.sections |->
        [name |-> t.sections[i].name, comment |-> t.sections[i].comment,
         keys |-> {t.sections[i].keys[j] : j \in DOMAIN t.sections[i].keys}]]

KeyCommentsSurvive == IsLoaded => Annotated(Reload(ini)) = Reverse(Annotated(ini))

\* Loading and saving again and again neither shuffles the file nor lets it
\* grow: two rounds restore the order, and from the second round on the file
\* keeps its length, in spite of the blank line ini_save adds to a section.
FileSettles ==
    IsLoaded =>
        LET once == Reload(Reload(ini)) IN
        /\ Annotated(once) = Annotated(ini)
        /\ Len(Saved(Reload(once))) = Len(Saved(once))

IniTypeOK ==
    /\ ops \in 0 .. MaxOps /\ lines \in Seq(Line)
    /\ IsLoaded => ini \in INIFile
=============================================================================

------------------------------ MODULE FtpPaths ------------------------------
(***************************************************************************)
(* The working directory of an FTP connection, and what its commands make  *)
(* of the paths they are given.  FtpServer follows the descriptors of the  *)
(* same commands and FtpFiles the contents of files.                       *)
(*                                                                         *)
(* cwd is a string that nobody normalises: CWD appends to it, CDUP cuts    *)
(* it, and the kernel resolves it anew in every call.                      *)
(***************************************************************************)
EXTENDS DriveTree

CONSTANTS
    Session,        \* the connections
    Absolute,       \* the arguments that start with a slash
    Relative,       \* and those that do not
    Process         \* the working directory of the process

ASSUME PathsAssumption == Absolute \cup Relative \subseteq Seq(Name) \ {<<>>}

VARIABLES
    cwd,            \* ftp_env.cwd
    listing,        \* LIST: where it looks at entries, those it has not read
                    \* yet and those it has sent
    meant,          \* history: the path of the directory the client asked for,
    whole,          \* whether that is the one LIST opened and all lines went,
    kept, met,      \* and the names that were in it all the time, and ever
    astray,         \* history: connections whose cwd lost a directory it passes
    left            \* how many commands the bound leaves

listVars == <<listing, meant, whole, kept, met>>
pathsVars == <<cwd, listVars, astray, left>>

NoList == [at |-> <<>>, unread |-> {}, sent |-> {}]

Listing(s) == listing[s] # NoList

Ready(s) == ~Listing(s) /\ left[s] > 0

Spend(s) == left' = [left EXCEPT ![s] = @ - 1]

\* ftp_abspath.
Abspath(s, arg, absolute) == IF absolute THEN arg ELSE cwd[s] \o arg

\* What an argument of a command may come to.
Args(s) == {Abspath(s, a, TRUE) : a \in Absolute} \cup {Abspath(s, a, FALSE) : a \in Relative}

\* The directories the kernel goes through on a path.
Passes(path) == {Lookup(SubSeq(path, 1, i)) : i \in 1 .. Len(path)}

------------------------------------------------------------------------------
(***************************************************************************)
(* What a change of the tree means for those who read it.                  *)
(***************************************************************************)
\* n is gone, or a directory below it.
Strays(gone) == astray' = astray \cup {s \in Session : Passes(cwd[s]) \cap gone # {}}

InMeant(s) == IF Listing(s) THEN Names(Lookup(meant[s])) ELSE {}

Follow ==
    /\ UNCHANGED <<cwd, listing, meant, whole>>
    /\ kept' = [s \in Session |-> kept[s] \cap InMeant(s)']
    /\ met' = [s \in Session |-> met[s] \cup InMeant(s)']

------------------------------------------------------------------------------
(***************************************************************************)
(* CWD, CDUP.                                                              *)
(***************************************************************************)
\* Mutant: any path that stat finds.
CwdAnything(s) ==
    /\ Ready(s) /\ Spend(s)
    /\ \E path \in Args(s) :
        /\ Lookup(path) # Nowhere
        /\ cwd' = [cwd EXCEPT ![s] = path]
    /\ astray' = astray \ {s}
    /\ UNCHANGED <<treeVars, listVars>>

CWD(s) ==
    /\ Ready(s) /\ Spend(s)
    /\ \E path \in Args(s) :
        /\ Lookup(path) \in dirs
        /\ cwd' = [cwd EXCEPT ![s] = path]
    /\ astray' = astray \ {s}
    /\ UNCHANGED <<treeVars, listVars>>

\* Mutant: the loop ends at the first slash.
CdupFirstSlash(s) ==
    /\ Ready(s) /\ Spend(s)
    /\ cwd' = [cwd EXCEPT ![s] = <<"">>]
    /\ UNCHANGED <<treeVars, listVars, astray>>

\* At the first slash: "/".  At any other one cwd is cut, whatever follows it.
CDUP(s) ==
    /\ Ready(s) /\ Spend(s)
    /\ cwd' = [cwd EXCEPT ![s] = IF Len(@) = 1 THEN <<"">> ELSE Front(@)]
    /\ UNCHANGED <<treeVars, listVars, astray>>

------------------------------------------------------------------------------
(***************************************************************************)
(* LIST.                                                                   *)
(***************************************************************************)
\* It opens the directory as it is named and reads it as a whole, as libc
\* does; its entries are looked at by path.  "." and ".." are left out.
Lists(s, opened, at, asked) ==
    /\ Lookup(opened) \in dirs
    /\ listing' = [listing EXCEPT
            ![s] = [at |-> at, unread |-> Names(Lookup(opened)), sent |-> {}]]
    /\ meant' = [meant EXCEPT ![s] = asked]
    /\ whole' = [whole EXCEPT ![s] = Lookup(opened) = Lookup(asked) /\ Len(at) < PATH_MAX]
    /\ kept' = [kept EXCEPT ![s] = Names(Lookup(asked))]
    /\ met' = [met EXCEPT ![s] = Names(Lookup(asked))]

\* cwd, or a path that starts with a slash.
ListPath(s) ==
    /\ Ready(s) /\ Spend(s)
    /\ \E p \in Absolute \cup {cwd[s]} : Lists(s, p, p, p)
    /\ UNCHANGED <<treeVars, cwd, astray>>

\* Mutant: entries are looked at where the directory was opened.
ListRelativeThere(s) ==
    /\ Ready(s) /\ Spend(s)
    /\ \E arg \in Relative :
        Lists(s, Process \o arg, Process \o arg, cwd[s] \o arg)
    /\ UNCHANGED <<treeVars, cwd, astray>>

\* Another path: opendir starts from the process's directory, stat from cwd.
ListRelative(s) ==
    /\ Ready(s) /\ Spend(s)
    /\ \E arg \in Relative :
        Lists(s, Process \o arg, <<"">> \o cwd[s] \o arg, cwd[s] \o arg)
    /\ UNCHANGED <<treeVars, cwd, astray>>

\* readdir, stat, and a line for what is there.  Nobody looks whether
\* ftp_data_printf could send it.
ListEntry(s) ==
    /\ \E e \in listing[s].unread :
        LET there == Lookup(Append(listing[s].at, e)) # Nowhere IN
        \E line \in IF there THEN {{}, {e}} ELSE {{}} :
            /\ listing' = [listing EXCEPT ![s].unread = @ \ {e}, ![s].sent = @ \cup line]
            /\ whole' = [whole EXCEPT ![s] = @ /\ (there => line = {e})]
    /\ UNCHANGED <<treeVars, cwd, meant, kept, met, astray, left>>

\* The end of the directory and 226, or the data connection broke.
ListEnd(s) ==
    /\ Listing(s) /\ listing[s].unread = {}
    /\ listing' = [listing EXCEPT ![s] = NoList]
    /\ meant' = [meant EXCEPT ![s] = <<>>] /\ whole' = [whole EXCEPT ![s] = FALSE]
    /\ kept' = [kept EXCEPT ![s] = {}] /\ met' = [met EXCEPT ![s] = {}]
    /\ UNCHANGED <<treeVars, cwd, astray, left>>

------------------------------------------------------------------------------
(***************************************************************************)
(* MKD, STOR of a new file, DELE, RMD.                                     *)
(***************************************************************************)
MKD(s) ==
    /\ Ready(s) /\ Spend(s)
    /\ \E path \in Args(s) : MakeDir(Place(path))
    /\ UNCHANGED astray /\ Follow

STOR(s) ==
    /\ Ready(s) /\ Spend(s)
    /\ \E path \in Args(s) : MakeFile(Place(path))
    /\ UNCHANGED astray /\ Follow

\* remove() takes an empty directory as well.
DELE(s) ==
    /\ Ready(s) /\ Spend(s)
    /\ \E path \in Args(s) :
        /\ RemoveFile(Lookup(path)) \/ RemoveDir(Lookup(path))
        /\ Strays({Lookup(path)})
    /\ Follow

RMD(s) ==
    /\ Ready(s) /\ Spend(s)
    /\ \E path \in Args(s) : RemoveDir(Lookup(path)) /\ Strays({Lookup(path)})
    /\ Follow

------------------------------------------------------------------------------
PathsInit ==
    /\ cwd = [s \in Session |-> <<"">>]
    /\ listing = [s \in Session |-> NoList]
    /\ meant = [s \in Session |-> <<>>] /\ whole = [s \in Session |-> FALSE]
    /\ kept = [s \in Session |-> {}] /\ met = [s \in Session |-> {}]
    /\ astray = {}

\* The commands that leave the tree as it is, and those that change it.
PathsReads(s) ==
    CWD(s) \/ CDUP(s) \/ ListPath(s) \/ ListRelative(s) \/ ListEntry(s) \/ ListEnd(s)
PathsWrites(s) == MKD(s) \/ STOR(s) \/ DELE(s) \/ RMD(s)

------------------------------------------------------------------------------
(***************************************************************************)
(* Properties.                                                             *)
(***************************************************************************)
PathsTypeOK ==
    /\ cwd \in [Session -> Seq(Name) \ {<<>>}]
    /\ \A s \in Session : Len(cwd[s]) <= PATH_MAX
    /\ astray \subseteq Session

\* However CWD and CDUP are mixed, and whatever dots and slashes CWD was
\* given, cwd names a directory, until one that it passes is removed: CDUP only
\* ever goes back to what the kernel went through when CWD looked.  Without
\* ".." only the directory itself could be lost; "/a/../b" is lost with a.
CwdLeads == \A s \in Session \ astray : Lookup(cwd[s]) \in dirs

\* CDUP leads to the parent of the working directory if the last thing CWD
\* was told is a name, and from the root to the root.
CdupGoesUp ==
    [][\A s \in Session \ astray : CDUP(s) =>
        /\ Last(cwd[s]) \notin Dots => Lookup(cwd'[s]) = Front(Lookup(cwd[s]))
        /\ cwd[s] = <<"">> => cwd'[s] = <<"">>]_<<treeVars, pathsVars>>

\* LIST sends nothing that was not in the directory the client asked for, and
\* if that is the directory it opened, which a relative path names only from
\* the root, it sends everything that was there all the time, whatever others
\* do meanwhile, unless the path leaves no room for a name or a line could not
\* be sent, of which nobody is told.
ListTells ==
    \A s \in Session : Listing(s) =>
        /\ listing[s].sent \subseteq met[s]
        /\ whole[s] => kept[s] \subseteq listing[s].sent \cup listing[s].unread
=============================================================================

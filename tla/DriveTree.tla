------------------------------ MODULE DriveTree ------------------------------
(***************************************************************************)
(* The file tree as the FTP commands and the package browser find it by    *)
(* paths.  All of it is the kernel's.                                      *)
(*                                                                         *)
(* A node is the sequence of names that leads to it from the root, <<>>.   *)
(* A path that starts with a slash is the sequence of what follows each of *)
(* its slashes: "/" is <<"">>, "/a" is <<"a">>, "//a/" is <<"", "a", "">>. *)
(* A relative path is a sequence in the same way, as if after a slash.     *)
(***************************************************************************)
EXTENDS Integers, Sequences, SequencesExt

CONSTANTS
    Name,           \* what may stand between two slashes
    Node,           \* bound: the places there may be a file or a directory
    PATH_MAX        \* the longest path the kernel takes

ASSUME TreeAssumption ==
    /\ {"", ".", ".."} \subseteq Name
    /\ Node \subseteq Seq(Name) /\ <<>> \in Node
    /\ \A n \in Node : \A i \in DOMAIN n : n[i] \notin {"", ".", ".."}
    /\ PATH_MAX \in Nat \ {0}

VARIABLES
    dirs, files     \* the nodes that are directories and regular files

treeVars == <<dirs, files>>

Nowhere == <<"">>   \* what a path names that leads nowhere

Dots == {"", ".", ".."}

Exists(n) == n \in dirs \cup files

\* One component of a path, from node n of the tree of directories d and files f.
Enter(d, f, n, c) ==
    CASE n \notin d                           -> Nowhere
      [] n \in d /\ c \in {"", "."}          -> n
      [] n \in d /\ c = ".."                 -> IF n = <<>> THEN n ELSE Front(n)
      [] n \in d /\ c \notin Dots            -> IF Append(n, c) \in d \cup f THEN Append(n, c)
                                               ELSE Nowhere

\* The nodes a path goes through, and the one it leads to.
Way(d, f, path) ==
    LET node[i \in 0 .. Len(path)] ==
            IF i = 0 THEN <<>> ELSE Enter(d, f, node[i - 1], path[i])
    IN  node

LookupIn(d, f, path) ==
    IF Len(path) > PATH_MAX THEN Nowhere ELSE Way(d, f, path)[Len(path)]

Lookup(path) == LookupIn(dirs, files, path)

\* The node a path would name if it were there, for mkdir and open(O_CREAT).
Place(path) ==
    IF Last(path) \in Dots \/ Lookup(Front(path)) \notin dirs THEN Nowhere
    ELSE Append(Lookup(Front(path)), Last(path))

Names(n) == {Last(m) : m \in {k \in (dirs \cup files) \ {<<>>} : Front(k) = n}}

Below(n) == {m \in dirs \cup files : IsPrefix(n, m)}

\* mkdir, open(O_CREAT), unlink and rmdir, and a drive that is pulled out.
MakeDir(n) == n \in Node /\ ~Exists(n) /\ dirs' = dirs \cup {n} /\ UNCHANGED files
MakeFile(n) == n \in Node /\ ~Exists(n) /\ files' = files \cup {n} /\ UNCHANGED dirs
RemoveFile(n) == n \in files /\ files' = files \ {n} /\ UNCHANGED dirs
RemoveDir(n) ==
    /\ n \in dirs \ {<<>>} /\ Names(n) = {}
    /\ dirs' = dirs \ {n} /\ UNCHANGED files
RemoveAll(n) ==
    /\ n \in dirs \ {<<>>}
    /\ dirs' = dirs \ Below(n) /\ files' = files \ Below(n)

\* What leads to a node is directories.
IsTree(d, f) ==
    /\ d \subseteq Node /\ f \subseteq Node /\ d \cap f = {} /\ <<>> \in d
    /\ \A n \in d \cup f : \A i \in 1 .. Len(n) - 1 : SubSeq(n, 1, i) \in d

TreeTypeOK == IsTree(dirs, files)
=============================================================================

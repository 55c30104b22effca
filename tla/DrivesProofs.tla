---------------------------- MODULE DrivesProofs ----------------------------
(***************************************************************************)
(* Proofs about Drives: what a scan lists, where the working directories   *)
(* of the connections lead and what LIST tells, for every tree, every      *)
(* path, every number of drives and connections, and every limit, while    *)
(* all of them change the tree.                                            *)
(***************************************************************************)
EXTENDS Drives, DataLemmas, TLAPS

------------------------------------------------------------------------------
(***************************************************************************)
(* Paths that lead on.                                                     *)
(***************************************************************************)
\* d is a path that leads to f or is f.
Under(d, f) == Len(d) <= Len(f) /\ \A j \in 1 .. Len(d) : f[j] = d[j]

LEMMA PrefixUnder ==
    ASSUME NEW S, NEW d \in Seq(S), NEW f \in Seq(S)
    PROVE  IsPrefix(d, f) <=> Under(d, f)
<1>1. CASE ~(Len(d) <= Len(f))
  BY <1>1 DEF IsPrefix, Under
<1>2. CASE Len(d) <= Len(f)
  <2>1. Len(d) \in 0 .. Len(d) /\ Len(d) \in 0 .. Len(f)
    BY <1>2, Elements
  <2>2. /\ SubSeq(d, 1, Len(d)) \in Seq(S) /\ Len(SubSeq(d, 1, Len(d))) = Len(d)
        /\ \A j \in 1 .. Len(d) : SubSeq(d, 1, Len(d))[j] = d[j]
        /\ SubSeq(f, 1, Len(d)) \in Seq(S) /\ Len(SubSeq(f, 1, Len(d))) = Len(d)
        /\ \A j \in 1 .. Len(d) : SubSeq(f, 1, Len(d))[j] = f[j]
    BY <2>1, Cut
  <2>3. ASSUME Under(d, f) PROVE SubSeq(d, 1, Len(d)) = SubSeq(f, 1, Len(d))
    <3>1. \A j \in 1 .. Len(d) : SubSeq(f, 1, Len(d))[j] = SubSeq(d, 1, Len(d))[j]
      BY <2>2, <2>3 DEF Under
    <3> QED BY <2>2, <3>1, SameElements
  <2>4. ASSUME SubSeq(d, 1, Len(d)) = SubSeq(f, 1, Len(d)) PROVE Under(d, f)
    BY <1>2, <2>2, <2>4 DEF Under
  <2> QED BY <1>2, <2>3, <2>4 DEF IsPrefix
<1> QED BY <1>1, <1>2

LEMMA UnderSame ==
    ASSUME NEW S, NEW d \in Seq(S), NEW f \in Seq(S), Under(d, f), Len(d) = Len(f)
    PROVE  d = f
BY SameElements DEF Under

LEMMA UnderTrans ==
    ASSUME NEW S, NEW d \in Seq(S), NEW e \in Seq(S), NEW f \in Seq(S),
           Under(d, e), Under(e, f)
    PROVE  Under(d, f)
BY Elements DEF Under

\* Of two paths to the same place one leads on to the other.
LEMMA UnderBoth ==
    ASSUME NEW S, NEW d \in Seq(S), NEW e \in Seq(S), NEW f \in Seq(S),
           Under(d, f), Under(e, f), Len(d) <= Len(e)
    PROVE  Under(d, e)
BY Elements DEF Under

------------------------------------------------------------------------------
(***************************************************************************)
(* The tree.                                                               *)
(***************************************************************************)
LEMMA EmptyName == "" \in Name
BY TreeAssumption, Zenon

LEMMA NodeNames ==
    /\ Node \subseteq Seq(Name) /\ <<>> \in Node /\ <<>> \in Seq(Name) /\ Len(<<>>) = 0
    /\ Nowhere \notin Node
<1>1. Node \subseteq Seq(Name) /\ <<>> \in Node
  BY TreeAssumption, Zenon
<1>2. Len(<<>>) = 0 /\ <<>> \in Seq(Name)
  OBVIOUS
<1>3. ASSUME Nowhere \in Node PROVE FALSE
  <2>1. 1 \in DOMAIN Nowhere /\ Nowhere[1] = ""
    BY DEF Nowhere
  <2>2. Nowhere[1] \notin {"", ".", ".."}
    BY <1>3, <2>1, TreeAssumption, Zenon
  <2> QED BY <2>1, <2>2
<1> QED BY <1>1, <1>2, <1>3

LEMMA Limit == PATH_MAX \in Nat \ {0}
BY TreeAssumption, Zenon

LEMMA TreeNodes ==
    ASSUME NEW d, NEW f, IsTree(d, f)
    PROVE  /\ d \subseteq Seq(Name) /\ f \subseteq Seq(Name) /\ d \cap f = {} /\ <<>> \in d
           /\ d \subseteq Node /\ f \subseteq Node
           /\ \A n \in d \cup f : \A i \in 1 .. Len(n) - 1 : SubSeq(n, 1, i) \in d
BY NodeNames, Zenon DEF IsTree

\* What leads to something that is there is a directory.
LEMMA Ancestor ==
    ASSUME TreeTypeOK, NEW f \in dirs \cup files, NEW d \in Seq(Name),
           Under(d, f), Len(d) < Len(f)
    PROVE  d \in dirs
<1>1. f \in Seq(Name) /\ <<>> \in dirs
  BY TreeNodes DEF TreeTypeOK
<1>2. Len(d) \in Nat /\ Len(f) \in Nat /\ Len(d) \in 0 .. Len(f)
  BY <1>1, Elements
<1>3. CASE Len(d) = 0
  <2>1. d = <<>>
    BY <1>3
  <2> QED BY <1>1, <2>1
<1>4. CASE Len(d) # 0
  <2>1. Len(d) \in 1 .. Len(f) - 1
    BY <1>2, <1>4
  <2>2. SubSeq(f, 1, Len(d)) \in dirs
    BY <2>1, TreeNodes DEF TreeTypeOK
  <2>3. d = SubSeq(f, 1, Len(d))
    <3>1. /\ SubSeq(f, 1, Len(d)) \in Seq(Name) /\ Len(SubSeq(f, 1, Len(d))) = Len(d)
          /\ \A j \in 1 .. Len(d) : SubSeq(f, 1, Len(d))[j] = f[j]
      BY <1>1, <1>2, Cut
    <3>2. \A j \in 1 .. Len(d) : SubSeq(f, 1, Len(d))[j] = d[j]
      BY <3>1 DEF Under
    <3> QED BY <3>1, <3>2, SameElements
  <2> QED BY <2>2, <2>3
<1> QED BY <1>3, <1>4

\* And readdir names what leads on.
LEMMA LeadsOn ==
    ASSUME TreeTypeOK, NEW f \in dirs \cup files, NEW d \in Seq(Name),
           Under(d, f), Len(d) < Len(f)
    PROVE  f[Len(d) + 1] \in Names(d)
<1> DEFINE m == SubSeq(f, 1, Len(d) + 1)
<1>1. f \in Seq(Name)
  BY TreeNodes DEF TreeTypeOK
<1>2. Len(d) \in Nat /\ Len(f) \in Nat /\ Len(d) + 1 \in 0 .. Len(f) /\ Len(d) + 1 \in 1 .. Len(d) + 1
  BY <1>1, Elements
<1>3. /\ m \in Seq(Name) /\ Len(m) = Len(d) + 1
      /\ \A j \in 1 .. Len(d) + 1 : m[j] = f[j]
  BY <1>1, <1>2, Cut
<1> HIDE DEF m
<1>4. m \in dirs \cup files
  <2>1. CASE Len(m) = Len(f)
    <3>1. m = f
      BY <1>1, <1>3, <2>1, SameElements
    <3> QED BY <3>1
  <2>2. CASE Len(m) # Len(f)
    <3>1. Len(m) < Len(f) /\ Under(m, f)
      BY <1>2, <1>3, <2>2 DEF Under
    <3> QED BY <1>3, <3>1, Ancestor
  <2> QED BY <2>1, <2>2
<1>5. m # <<>>
  <2>1. Len(m) # 0
    BY <1>2, <1>3
  <2> QED BY <2>1, NodeNames
<1>6. Front(m) = d
  <2>1. Front(m) \in Seq(Name) /\ Len(Front(m)) = Len(d)
        /\ \A j \in 1 .. Len(d) : Front(m)[j] = m[j]
    BY <1>2, <1>3, <1>5, Shorten
  <2>2. \A j \in 1 .. Len(d) : d[j] = Front(m)[j]
    BY <1>2, <1>3, <2>1 DEF Under
  <2> QED BY <2>1, <2>2, SameElements
<1>7. Last(m) = f[Len(d) + 1]
  BY <1>2, <1>3 DEF Last
<1> QED BY <1>4, <1>5, <1>6, <1>7 DEF Names

LEMMA TreeGrows ==
    ASSUME TreeTypeOK, NEW d \in dirs, NEW e \in Name, Append(d, e) \in Node,
           ~Exists(Append(d, e))
    PROVE  /\ IsTree(dirs \cup {Append(d, e)}, files)
           /\ IsTree(dirs, files \cup {Append(d, e)})
<1> DEFINE n == Append(d, e)
<1>1. d \in Seq(Name) /\ <<>> \in dirs /\ dirs \cap files = {} /\ dirs \subseteq Node /\ files \subseteq Node
  BY TreeNodes DEF TreeTypeOK
<1>2. n \in Seq(Name) /\ Len(n) = Len(d) + 1 /\ \A j \in 1 .. Len(d) : n[j] = d[j]
  BY <1>1, Extend
<1>3. n \in Node /\ n \notin dirs \cup files
  BY DEF Exists
<1> HIDE DEF n
<1>4. ASSUME NEW i \in 1 .. Len(n) - 1 PROVE SubSeq(n, 1, i) \in dirs
  <2>1. i \in 0 .. Len(n) /\ i \in 0 .. Len(d) /\ i \in Nat /\ Len(d) \in Nat
    BY <1>1, <1>2, <1>4, Elements
  <2>2. /\ SubSeq(n, 1, i) \in Seq(Name) /\ Len(SubSeq(n, 1, i)) = i
        /\ \A j \in 1 .. i : SubSeq(n, 1, i)[j] = n[j]
    BY <1>2, <2>1, Cut
  <2>3. CASE i = Len(d)
    <3>1. SubSeq(n, 1, i) = d
      BY <1>1, <1>2, <2>2, <2>3, SameElements
    <3> QED BY <3>1
  <2>4. CASE i # Len(d)
    <3>1. \A j \in 1 .. i : SubSeq(n, 1, i)[j] = d[j]
      BY <1>2, <2>1, <2>2
    <3>2. Under(SubSeq(n, 1, i), d) /\ Len(SubSeq(n, 1, i)) < Len(d)
      BY <2>1, <2>2, <2>4, <3>1 DEF Under
    <3> QED BY <2>2, <3>2, Ancestor
  <2> QED BY <2>3, <2>4
<1>5. \A m \in dirs \cup files : \A i \in 1 .. Len(m) - 1 : SubSeq(m, 1, i) \in dirs
  BY TreeNodes DEF TreeTypeOK
<1>6. IsTree(dirs \cup {n}, files)
  BY <1>1, <1>3, <1>4, <1>5, Zenon DEF IsTree
<1>7. IsTree(dirs, files \cup {n})
  BY <1>1, <1>3, <1>4, <1>5, Zenon DEF IsTree
<1> QED BY <1>6, <1>7 DEF n

LEMMA FileRemoved ==
    ASSUME TreeTypeOK, NEW n, RemoveFile(n)
    PROVE  TreeTypeOK'
<1>1. files' \subseteq files /\ dirs' = dirs
  BY DEF RemoveFile
<1> QED BY <1>1, Zenon DEF TreeTypeOK, IsTree

LEMMA DirRemoved ==
    ASSUME TreeTypeOK, NEW n, RemoveDir(n)
    PROVE  TreeTypeOK'
<1>1. n \in dirs \ {<<>>} /\ Names(n) = {} /\ dirs' = dirs \ {n} /\ files' = files
  BY DEF RemoveDir
<1>2. n \in Seq(Name) /\ \A m \in dirs \cup files : m \in Seq(Name)
  BY <1>1, TreeNodes DEF TreeTypeOK
<1>3. ASSUME NEW m \in dirs' \cup files', NEW i \in 1 .. Len(m) - 1
      PROVE  SubSeq(m, 1, i) \in dirs'
  <2>1. m \in dirs \cup files /\ m \in Seq(Name)
    BY <1>1, <1>2
  <2>2. i \in 0 .. Len(m) /\ i < Len(m)
    BY <2>1, Elements
  <2>3. SubSeq(m, 1, i) \in dirs
    BY <2>1, TreeNodes DEF TreeTypeOK
  <2>4. ASSUME SubSeq(m, 1, i) = n PROVE FALSE
    <3>1. Len(n) = i /\ \A j \in 1 .. i : n[j] = m[j]
      BY <2>1, <2>2, <2>4, Cut
    <3>2. Under(n, m) /\ Len(n) < Len(m)
      BY <2>2, <3>1 DEF Under
    <3>3. m[Len(n) + 1] \in Names(n)
      BY <1>2, <2>1, <3>2, LeadsOn
    <3> QED BY <1>1, <3>3
  <2> QED BY <1>1, <2>3, <2>4
<1>4. dirs' \subseteq Node /\ files' \subseteq Node /\ dirs' \cap files' = {} /\ <<>> \in dirs'
  BY <1>1 DEF TreeTypeOK, IsTree
<1> QED BY <1>3, <1>4, Zenon DEF TreeTypeOK, IsTree

LEMMA AllRemoved ==
    ASSUME TreeTypeOK, NEW n, RemoveAll(n)
    PROVE  TreeTypeOK'
<1>1. n \in dirs \ {<<>>} /\ dirs' = dirs \ Below(n) /\ files' = files \ Below(n)
  BY DEF RemoveAll
<1>2. n \in Seq(Name) /\ \A m \in dirs \cup files : m \in Seq(Name)
  BY <1>1, TreeNodes DEF TreeTypeOK
<1>3. \A m \in dirs \cup files : m \in Below(n) <=> Under(n, m)
  BY <1>2, PrefixUnder DEF Below
<1>4. ASSUME NEW m \in dirs' \cup files', NEW i \in 1 .. Len(m) - 1
      PROVE  SubSeq(m, 1, i) \in dirs'
  <2>1. m \in dirs \cup files /\ m \in Seq(Name) /\ ~Under(n, m)
    BY <1>1, <1>2, <1>3
  <2>2. i \in 0 .. Len(m) /\ i <= Len(m)
    BY <2>1, Elements
  <2>3. SubSeq(m, 1, i) \in dirs
    BY <2>1, TreeNodes DEF TreeTypeOK
  <2>4. Under(SubSeq(m, 1, i), m) /\ SubSeq(m, 1, i) \in Seq(Name)
    BY <2>1, <2>2, Cut DEF Under
  <2>5. ~Under(n, SubSeq(m, 1, i))
    BY <1>2, <2>1, <2>4, UnderTrans
  <2> QED BY <1>1, <1>3, <2>3, <2>5
<1>5. <<>> \in dirs'
  <2>1. <<>> \in dirs /\ <<>> \in Seq(Name) /\ Len(<<>>) = 0
    BY NodeNames, TreeNodes DEF TreeTypeOK
  <2>2. ~Under(n, <<>>)
    <3>1. Len(n) > 0
      BY <1>1, <1>2, Elements
    <3> QED BY <2>1, <3>1 DEF Under
  <2> QED BY <1>1, <1>3, <2>1, <2>2
<1>6. dirs' \subseteq Node /\ files' \subseteq Node /\ dirs' \cap files' = {}
  BY <1>1 DEF TreeTypeOK, IsTree
<1> QED BY <1>4, <1>5, <1>6, Zenon DEF TreeTypeOK, IsTree

------------------------------------------------------------------------------
(***************************************************************************)
(* The connections.                                                        *)
(***************************************************************************)
LEMMA PathsTypes ==
    PathsTypeOK <=> /\ cwd \in [Session -> Seq(Name) \ {<<>>}]
                    /\ \A s \in Session : Len(cwd[s]) <= PATH_MAX
                    /\ astray \subseteq Session
BY DEF PathsTypeOK

LEMMA ArgsPaths ==
    ASSUME PathsTypeOK, NEW s \in Session
    PROVE  Args(s) \subseteq Seq(Name) \ {<<>>}
<1>1. cwd[s] \in Seq(Name) \ {<<>>}
  BY PathsTypes
<1>2. Absolute \subseteq Seq(Name) \ {<<>>} /\ Relative \subseteq Seq(Name) \ {<<>>}
  BY PathsAssumption
<1>3. ASSUME NEW a \in Relative PROVE cwd[s] \o a \in Seq(Name) \ {<<>>}
  <2>1. cwd[s] \o a \in Seq(Name) /\ Len(cwd[s] \o a) = Len(cwd[s]) + Len(a)
    BY <1>1, <1>2
  <2>2. Len(cwd[s]) > 0 /\ Len(a) \in Nat
    BY <1>1, <1>2, Elements
  <2>3. Len(cwd[s] \o a) # 0
    BY <1>1, <2>1, <2>2, Elements
  <2> QED BY <2>1, <2>3, NodeNames
<1> QED BY <1>2, <1>3 DEF Args, Abspath

\* What mkdir and open make is in a directory.
LEMMA PlaceIn ==
    ASSUME NEW path \in Seq(Name) \ {<<>>}, Place(path) \in Node
    PROVE  \E d \in dirs, e \in Name : Place(path) = Append(d, e)
<1>1. Place(path) # Nowhere
  BY NodeNames
<1>2. Lookup(Front(path)) \in dirs /\ Place(path) = Append(Lookup(Front(path)), Last(path))
  BY <1>1 DEF Place
<1>3. Last(path) \in Name
  BY Elements DEF Last
<1> QED BY <1>2, <1>3

LEMMA LookupLength ==
    ASSUME TreeTypeOK, NEW path, Lookup(path) \in dirs, Len(path) \in Nat
    PROVE  Len(path) <= PATH_MAX
<1>1. Nowhere \notin dirs
  BY NodeNames, TreeNodes DEF TreeTypeOK
<1> QED BY <1>1, Limit DEF Lookup, LookupIn

LEMMA ReadsKeep ==
    ASSUME TreeTypeOK, PathsTypeOK, NEW s \in Session, PathsReads(s)
    PROVE  UNCHANGED treeVars /\ PathsTypeOK'
<1>1. UNCHANGED treeVars
  BY DEF PathsReads, CWD, CDUP, ListPath, ListRelative, ListEntry, ListEnd
<1>2. CASE CWD(s)
  <2>1. PICK path \in Args(s) : Lookup(path) \in dirs /\ cwd' = [cwd EXCEPT ![s] = path]
    BY <1>2, Zenon DEF CWD
  <2>2. path \in Seq(Name) \ {<<>>}
    BY ArgsPaths
  <2>3. Len(path) <= PATH_MAX
    BY <2>1, <2>2, LookupLength, Elements
  <2>4. astray' \subseteq Session
    BY <1>2 DEF CWD, PathsTypeOK
  <2>5. cwd' \in [Session -> Seq(Name) \ {<<>>}] /\ \A t \in Session : Len(cwd'[t]) <= PATH_MAX
    <3>1. cwd \in [Session -> Seq(Name) \ {<<>>}] /\ \A t \in Session : Len(cwd[t]) <= PATH_MAX
      BY PathsTypes
    <3> QED BY <2>1, <2>2, <2>3, <3>1
  <2> QED BY <1>1, <2>4, <2>5, Zenon DEF PathsTypeOK
<1>3. CASE CDUP(s)
  <2>1. cwd' = [cwd EXCEPT ![s] = IF Len(cwd[s]) = 1 THEN <<"">> ELSE Front(cwd[s])]
        /\ UNCHANGED astray
    BY <1>3 DEF CDUP
  <2>2. cwd[s] \in Seq(Name) \ {<<>>} /\ Len(cwd[s]) \in Nat /\ Len(cwd[s]) > 0 /\ Len(cwd[s]) <= PATH_MAX
    <3>1. cwd[s] \in Seq(Name) \ {<<>>} /\ Len(cwd[s]) <= PATH_MAX
      BY PathsTypes
    <3> QED BY <3>1, Elements
  <2>3. <<"">> \in Seq(Name) \ {<<>>} /\ Len(<<"">>) = 1
    BY EmptyName, Single
  <2>4. /\ Front(cwd[s]) \in Seq(Name)
        /\ Len(Front(cwd[s])) = Len(cwd[s]) - 1
    BY <2>2, Shorten
  <2>5. Len(cwd[s]) # 1 => Front(cwd[s]) # <<>>
    <3>1. Len(cwd[s]) # 1 => Len(Front(cwd[s])) # 0
      BY <2>2, <2>4
    <3> QED BY <3>1, NodeNames
  <2> DEFINE path == IF Len(cwd[s]) = 1 THEN <<"">> ELSE Front(cwd[s])
  <2>6. path \in Seq(Name) \ {<<>>} /\ Len(path) <= PATH_MAX
    <3>1. CASE Len(cwd[s]) = 1
      BY <2>2, <2>3, <3>1, Limit
    <3>2. CASE Len(cwd[s]) # 1
      BY <2>2, <2>4, <2>5, <3>2, Limit
    <3> QED BY <3>1, <3>2
  <2>7. cwd' = [cwd EXCEPT ![s] = path]
    BY <2>1
  <2> HIDE DEF path
  <2>8. cwd' \in [Session -> Seq(Name) \ {<<>>}] /\ \A t \in Session : Len(cwd'[t]) <= PATH_MAX
    <3>1. cwd \in [Session -> Seq(Name) \ {<<>>}] /\ \A t \in Session : Len(cwd[t]) <= PATH_MAX
      BY PathsTypes
    <3> QED BY <2>6, <2>7, <3>1
  <2>9. astray' \subseteq Session
    BY <2>1 DEF PathsTypeOK
  <2> QED BY <1>1, <2>8, <2>9, Zenon DEF PathsTypeOK
<1>4. CASE ListPath(s) \/ ListRelative(s) \/ ListEntry(s) \/ ListEnd(s)
  <2>1. UNCHANGED <<cwd, astray>>
    BY <1>4 DEF ListPath, ListRelative, ListEntry, ListEnd
  <2> QED BY <1>1, <2>1 DEF PathsTypeOK
<1> QED BY <1>1, <1>2, <1>3, <1>4 DEF PathsReads

LEMMA WritesKeep ==
    ASSUME TreeTypeOK, PathsTypeOK, NEW s \in Session, PathsWrites(s)
    PROVE  TreeTypeOK' /\ PathsTypeOK'
<1>1. UNCHANGED cwd
  BY DEF PathsWrites, MKD, STOR, DELE, RMD, Follow
<1>2. astray' \subseteq Session
  <2>1. astray' = astray \/ \E gone : Strays(gone)
    BY Zenon DEF PathsWrites, MKD, STOR, DELE, RMD
  <2> QED BY <2>1 DEF Strays, PathsTypeOK
<1>3. TreeTypeOK'
  <2>1. CASE MKD(s) \/ STOR(s)
    <3>1. PICK path \in Args(s) : MakeDir(Place(path)) \/ MakeFile(Place(path))
      BY <2>1, Zenon DEF MKD, STOR
    <3>2. Place(path) \in Node /\ ~Exists(Place(path))
      BY <3>1 DEF MakeDir, MakeFile
    <3>3. PICK d \in dirs, e \in Name : Place(path) = Append(d, e)
      BY <3>2, ArgsPaths, PlaceIn
    <3>4. IsTree(dirs \cup {Place(path)}, files) /\ IsTree(dirs, files \cup {Place(path)})
      BY <3>2, <3>3, TreeGrows
    <3>5. \/ dirs' = dirs \cup {Place(path)} /\ files' = files
          \/ dirs' = dirs /\ files' = files \cup {Place(path)}
      BY <3>1 DEF MakeDir, MakeFile
    <3> QED BY <3>4, <3>5 DEF TreeTypeOK
  <2>2. CASE DELE(s) \/ RMD(s)
    <3>1. \E n : RemoveFile(n) \/ RemoveDir(n)
      BY <2>2, Zenon DEF DELE, RMD
    <3> QED BY <3>1, FileRemoved, DirRemoved
  <2> QED BY <2>1, <2>2 DEF PathsWrites
<1> QED BY <1>1, <1>2, <1>3 DEF PathsTypeOK

LEMMA PullKeeps ==
    ASSUME TreeTypeOK, PathsTypeOK, Pull
    PROVE  TreeTypeOK' /\ PathsTypeOK'
<1>1. \E r : RemoveAll(r) /\ Strays(Below(r))
  BY Zenon DEF Pull
<1>2. UNCHANGED cwd
  BY DEF Pull, Follow
<1> QED BY <1>1, <1>2, AllRemoved DEF PathsTypeOK, Strays

------------------------------------------------------------------------------
(***************************************************************************)
(* Where a scan is.                                                        *)
(***************************************************************************)
LEMMA RootNames ==
    /\ Len(Roots) \in Nat /\ DOMAIN Roots = 1 .. Len(Roots)
    /\ \A i \in 1 .. Len(Roots) : Roots[i] \in Seq(Name) /\ Roots[i] \in Node /\ Len(Roots[i]) \in Nat
    /\ \A i, j \in 1 .. Len(Roots) : i # j => ~Under(Roots[i], Roots[j])
    /\ PKG_MAX_RESULTS \in Nat \ {0} /\ PKG_MAX_DEPTH \in Nat
<1>1. /\ Roots \in Seq(Node \ {<<>>}) /\ PKG_MAX_RESULTS \in Nat \ {0} /\ PKG_MAX_DEPTH \in Nat
      /\ \A i, j \in DOMAIN Roots : i # j => ~IsPrefix(Roots[i], Roots[j])
  BY BrowserAssumption, Zenon
<1>2. Len(Roots) \in Nat /\ DOMAIN Roots = 1 .. Len(Roots)
  BY <1>1, Elements
<1>3. \A i \in 1 .. Len(Roots) : Roots[i] \in Node
  BY <1>1, Elements
<1>4. \A i \in 1 .. Len(Roots) : Roots[i] \in Seq(Name) /\ Len(Roots[i]) \in Nat
  BY <1>3, NodeNames, Elements
<1>5. \A i, j \in 1 .. Len(Roots) : i # j => ~Under(Roots[i], Roots[j])
  BY <1>1, <1>2, <1>4, PrefixUnder
<1> QED BY <1>1, <1>2, <1>3, <1>4, <1>5

LEMMA OneRoot ==
    ASSUME NEW i \in 1 .. Len(Roots), NEW j \in 1 .. Len(Roots), NEW f \in Seq(Name),
           Under(Roots[i], f), Under(Roots[j], f)
    PROVE  i = j
<1>1. Roots[i] \in Seq(Name) /\ Roots[j] \in Seq(Name) /\ Len(Roots[i]) \in Nat /\ Len(Roots[j]) \in Nat
  BY RootNames
<1>2. Under(Roots[i], Roots[j]) \/ Under(Roots[j], Roots[i])
  <2>1. CASE Len(Roots[i]) <= Len(Roots[j])
    BY <1>1, <2>1, UnderBoth
  <2>2. CASE Len(Roots[j]) <= Len(Roots[i])
    BY <1>1, <2>2, UnderBoth
  <2> QED BY <1>1, <2>1, <2>2
<1> QED BY <1>2, RootNames

\* f is a package that a scan of root i may come to.
Reach(f, i) ==
    /\ Under(Roots[i], f)
    /\ Len(f) - Len(Roots[i]) \in 1 .. PKG_MAX_DEPTH + 1
    /\ \A j \in Len(Roots[i]) + 1 .. Len(f) : f[j] \notin Passed

LEMMA WantedReach ==
    ASSUME TreeTypeOK, NEW f
    PROVE  f \in Wanted <=> /\ f \in files /\ Last(f) \in Pkg
                            /\ \E i \in 1 .. Len(Roots) : Reach(f, i)
<1>1. ASSUME f \in files
      PROVE  \A i \in 1 .. Len(Roots) : IsPrefix(Roots[i], f) <=> Under(Roots[i], f)
  <2>1. f \in Seq(Name)
    BY <1>1, TreeNodes DEF TreeTypeOK
  <2> QED BY <2>1, RootNames, PrefixUnder
<1>2. f \in Wanted <=> /\ f \in files /\ Last(f) \in Pkg
                       /\ \E i \in 1 .. Len(Roots) :
                            /\ IsPrefix(Roots[i], f)
                            /\ Len(f) - Len(Roots[i]) \in 1 .. PKG_MAX_DEPTH + 1
                            /\ \A j \in Len(Roots[i]) + 1 .. Len(f) : f[j] \notin Passed
  BY RootNames, Zenon DEF Wanted
<1> QED BY <1>1, <1>2, Zenon DEF Reach

Call == [dir : Node, unread : SUBSET Name]

\* The call at level i looks at a directory i - 1 levels below root r.
Level(st, i, r) ==
    /\ Under(Roots[r], st[i].dir)
    /\ Len(st[i].dir) = Len(Roots[r]) + i - 1
    /\ \A j \in Len(Roots[r]) + 1 .. Len(st[i].dir) : st[i].dir[j] \notin Passed
    /\ st[i].unread \cap Passed = {}

\* The directory d is what an earlier call has gone into.
Within(st, i, d) ==
    /\ Under(st[i].dir, d) /\ Len(st[i].dir) < Len(d)
    /\ d[Len(st[i].dir) + 1] \notin st[i].unread

Calls(st, r) ==
    /\ st \in Seq(Call)
    /\ Len(st) <= PKG_MAX_DEPTH + 1
    /\ st # <<>> => r \in 1 .. Len(Roots)
    /\ \A i \in 1 .. Len(st) : Level(st, i, r)
    /\ \A i, j \in 1 .. Len(st) : i < j => Within(st, i, st[j].dir)

\* What the call c has still to look at, and all calls together, and the
\* roots after r.
Awaits(c, f) == Under(c.dir, f) /\ Len(c.dir) < Len(f) /\ f[Len(c.dir) + 1] \in c.unread

InStack(st, f) == \E i \in 1 .. Len(st) : Awaits(st[i], f)

Ahead(r, f) == \E j \in r + 1 .. Len(Roots) : Under(Roots[j], f)

Pending(f) == Ahead(root, f) \/ InStack(stack, f)

LEMMA Push ==
    ASSUME NEW st, NEW r \in 1 .. Len(Roots), Calls(st, r), Len(st) <= PKG_MAX_DEPTH,
           NEW c \in Call, Under(Roots[r], c.dir), Len(c.dir) = Len(Roots[r]) + Len(st),
           \A j \in Len(Roots[r]) + 1 .. Len(c.dir) : c.dir[j] \notin Passed,
           c.unread \cap Passed = {},
           \A i \in 1 .. Len(st) : Within(st, i, c.dir)
    PROVE  /\ Calls(Append(st, c), r)
           /\ Len(Append(st, c)) = Len(st) + 1
           /\ \A f : InStack(Append(st, c), f) <=> InStack(st, f) \/ Awaits(c, f)
<1> DEFINE up == Append(st, c)
<1>1. st \in Seq(Call) /\ Len(st) \in Nat
  BY Elements DEF Calls
<1>2. /\ up \in Seq(Call) /\ Len(up) = Len(st) + 1
      /\ \A i \in 1 .. Len(st) : up[i] = st[i]
      /\ up[Len(st) + 1] = c
  BY <1>1, Extend
<1> HIDE DEF up
<1>3. ASSUME NEW i \in 1 .. Len(up) PROVE i \in 1 .. Len(st) \/ i = Len(st) + 1
  BY <1>1, <1>2, <1>3
<1>4. \A i \in 1 .. Len(up) : Level(up, i, r)
  <2>1. ASSUME NEW i \in 1 .. Len(st) PROVE Level(up, i, r)
    <3>1. Level(st, i, r) /\ up[i] = st[i]
      BY <1>2, <2>1 DEF Calls
    <3> QED BY <3>1 DEF Level
  <2>2. Level(up, Len(st) + 1, r)
    <3>1. Len(st) + 1 - 1 = Len(st) /\ Len(Roots[r]) \in Nat
      BY <1>1, RootNames
    <3>2. Len(c.dir) = Len(Roots[r]) + (Len(st) + 1) - 1
      BY <1>1, <3>1
    <3> QED BY <1>2, <3>2 DEF Level
  <2> QED BY <1>3, <2>1, <2>2
<1>5. \A i, j \in 1 .. Len(up) : i < j => Within(up, i, up[j].dir)
  <2> SUFFICES ASSUME NEW i \in 1 .. Len(up), NEW j \in 1 .. Len(up), i < j
               PROVE  Within(up, i, up[j].dir)
      OBVIOUS
  <2>1. i \in 1 .. Len(st) /\ up[i] = st[i]
    BY <1>1, <1>2
  <2>2. Within(st, i, up[j].dir)
    <3>1. CASE j \in 1 .. Len(st)
      BY <1>2, <2>1, <3>1 DEF Calls
    <3>2. CASE j = Len(st) + 1
      BY <1>2, <2>1, <3>2
    <3> QED BY <1>3, <3>1, <3>2
  <2> QED BY <2>1, <2>2 DEF Within
<1>6. ASSUME NEW f PROVE InStack(up, f) <=> InStack(st, f) \/ Awaits(c, f)
  <2>1. ASSUME InStack(up, f) PROVE InStack(st, f) \/ Awaits(c, f)
    BY <1>2, <1>3, <2>1 DEF InStack
  <2>2. ASSUME InStack(st, f) PROVE InStack(up, f)
    <3>1. PICK i \in 1 .. Len(st) : Awaits(st[i], f)
      BY <2>2 DEF InStack
    <3>2. i \in 1 .. Len(up) /\ Awaits(up[i], f)
      BY <1>1, <1>2, <3>1
    <3> QED BY <3>2 DEF InStack
  <2>3. ASSUME Awaits(c, f) PROVE InStack(up, f)
    <3>1. Len(st) + 1 \in 1 .. Len(up) /\ Awaits(up[Len(st) + 1], f)
      BY <1>1, <1>2, <2>3
    <3> QED BY <3>1 DEF InStack
  <2> QED BY <2>1, <2>2, <2>3
<1>7. Len(up) <= PKG_MAX_DEPTH + 1
  BY <1>1, <1>2, RootNames
<1>8. Calls(up, r)
  BY <1>2, <1>4, <1>5, <1>7 DEF Calls
<1> QED BY <1>2, <1>6, <1>8 DEF up

LEMMA Pop ==
    ASSUME NEW st, NEW r, Calls(st, r), st # <<>>
    PROVE  /\ Calls(Front(st), r)
           /\ Len(Front(st)) = Len(st) - 1
           /\ \A f : InStack(st, f) <=> InStack(Front(st), f) \/ Awaits(Last(st), f)
<1> DEFINE down == Front(st)
<1>1. st \in Seq(Call) /\ Len(st) \in Nat /\ Len(st) > 0
  BY Elements DEF Calls
<1>2. down \in Seq(Call) /\ Len(down) = Len(st) - 1 /\ \A i \in 1 .. Len(st) - 1 : down[i] = st[i]
  BY <1>1, Shorten
<1> HIDE DEF down
<1>3. \A i \in 1 .. Len(down) : i \in 1 .. Len(st) /\ down[i] = st[i]
  BY <1>1, <1>2
<1>4. \A i \in 1 .. Len(down) : Level(down, i, r)
  BY <1>3 DEF Calls, Level
<1>5. \A i, j \in 1 .. Len(down) : i < j => Within(down, i, down[j].dir)
  BY <1>3 DEF Calls, Within
<1>6. ASSUME NEW f PROVE InStack(st, f) <=> InStack(down, f) \/ Awaits(Last(st), f)
  <2>1. Last(st) = st[Len(st)] /\ Len(st) \in 1 .. Len(st)
    BY <1>1 DEF Last
  <2>2. \A i \in 1 .. Len(st) : i \in 1 .. Len(down) \/ i = Len(st)
    BY <1>1, <1>2
  <2> QED BY <1>3, <2>1, <2>2 DEF InStack
<1>7. Len(down) <= PKG_MAX_DEPTH + 1 /\ (down # <<>> => r \in 1 .. Len(Roots))
  BY <1>1, <1>2, RootNames DEF Calls
<1>8. Calls(down, r)
  BY <1>2, <1>4, <1>5, <1>7 DEF Calls
<1> QED BY <1>2, <1>6, <1>8 DEF down

\* The innermost call goes on to its next entry.
Rest(e) == [dir |-> Last(stack).dir, unread |-> Last(stack).unread \ {e}]

LEMMA Top ==
    ASSUME Calls(stack, root), stack # <<>>
    PROVE  /\ Len(stack) \in Nat \ {0} /\ Len(stack) \in 1 .. Len(stack)
           /\ Last(stack) = stack[Len(stack)] /\ Last(stack) \in Call
           /\ Last(stack).dir \in Node /\ Last(stack).dir \in Seq(Name)
           /\ Len(Last(stack).dir) \in Nat
           /\ Last(stack).unread \subseteq Name
           /\ root \in 1 .. Len(Roots)
           /\ Level(stack, Len(stack), root)
           /\ \A i \in 1 .. Len(stack) - 1 : Within(stack, i, Last(stack).dir)
<1>1. stack \in Seq(Call) /\ Len(stack) \in Nat \ {0} /\ Len(stack) \in 1 .. Len(stack)
  <2>1. stack \in Seq(Call)
    BY DEF Calls
  <2> QED BY <2>1, Elements
<1>2. Last(stack) = stack[Len(stack)] /\ Last(stack) \in Call
  BY <1>1, Elements DEF Last
<1>3. Last(stack).dir \in Node /\ Last(stack).unread \subseteq Name
  BY <1>2 DEF Call
<1>4. Last(stack).dir \in Seq(Name) /\ Len(Last(stack).dir) \in Nat
  BY <1>3, NodeNames, Elements
<1>5. root \in 1 .. Len(Roots) /\ Level(stack, Len(stack), root)
  BY <1>1 DEF Calls
<1>6. ASSUME NEW i \in 1 .. Len(stack) - 1 PROVE Within(stack, i, Last(stack).dir)
  <2>1. i \in 1 .. Len(stack) /\ i < Len(stack)
    BY <1>1
  <2> QED BY <1>1, <1>2, <2>1 DEF Calls
<1> QED BY <1>1, <1>2, <1>3, <1>4, <1>5, <1>6

LEMMA PastCalls ==
    ASSUME Calls(stack, root), stack # <<>>, NEW e \in Last(stack).unread
    PROVE  /\ Calls(Past(e), root) /\ Len(Past(e)) = Len(stack)
           /\ \A f : InStack(Past(e), f) <=> InStack(Front(stack), f) \/ Awaits(Rest(e), f)
           /\ \A i \in 1 .. Len(stack) - 1 : Past(e)[i] = stack[i]
           /\ Past(e)[Len(stack)] = Rest(e)
<1>1. /\ Calls(Front(stack), root) /\ Len(Front(stack)) = Len(stack) - 1
      /\ Len(stack) <= PKG_MAX_DEPTH + 1
  BY Pop DEF Calls
<1>2. \A i \in 1 .. Len(stack) - 1 : Front(stack)[i] = stack[i]
  BY Shorten DEF Calls
<1>3. Past(e) = Append(Front(stack), Rest(e))
  <2>1. \A c \in Call : [c EXCEPT !.unread = @ \ {e}] = [dir |-> c.dir, unread |-> c.unread \ {e}]
    BY DEF Call
  <2> QED BY <2>1, Top DEF Past, Rest
<1>4. Rest(e) \in Call /\ Rest(e).dir = Last(stack).dir /\ Rest(e).unread = Last(stack).unread \ {e}
  BY Top DEF Rest, Call
<1>5. /\ Under(Roots[root], Rest(e).dir) /\ Len(Rest(e).dir) = Len(Roots[root]) + Len(Front(stack))
      /\ \A j \in Len(Roots[root]) + 1 .. Len(Rest(e).dir) : Rest(e).dir[j] \notin Passed
      /\ Rest(e).unread \cap Passed = {}
  <2>1. Len(Roots[root]) \in Nat
    BY Top, RootNames
  <2> QED BY <1>1, <1>4, <2>1, Top DEF Level
<1>6. \A i \in 1 .. Len(Front(stack)) : Within(Front(stack), i, Rest(e).dir)
  BY <1>1, <1>2, <1>4, Top DEF Within
<1>7. Len(Front(stack)) <= PKG_MAX_DEPTH /\ root \in 1 .. Len(Roots)
  BY <1>1, Top, RootNames
<1>8. /\ Calls(Past(e), root) /\ Len(Past(e)) = Len(Front(stack)) + 1
      /\ \A f : InStack(Past(e), f) <=> InStack(Front(stack), f) \/ Awaits(Rest(e), f)
  <2> DEFINE st == Front(stack)
             c == Rest(e)
  <2>1. Calls(st, root) /\ Len(st) <= PKG_MAX_DEPTH /\ root \in 1 .. Len(Roots)
    BY <1>1, <1>7
  <2>2. /\ c \in Call /\ Under(Roots[root], c.dir) /\ Len(c.dir) = Len(Roots[root]) + Len(st)
        /\ \A j \in Len(Roots[root]) + 1 .. Len(c.dir) : c.dir[j] \notin Passed
        /\ c.unread \cap Passed = {}
        /\ \A i \in 1 .. Len(st) : Within(st, i, c.dir)
    BY <1>4, <1>5, <1>6
  <2>3. Past(e) = Append(st, c)
    BY <1>3
  <2> HIDE DEF st, c
  <2>4. /\ Calls(Append(st, c), root) /\ Len(Append(st, c)) = Len(st) + 1
        /\ \A f : InStack(Append(st, c), f) <=> InStack(st, f) \/ Awaits(c, f)
    BY <2>1, <2>2, Push
  <2> QED BY <2>3, <2>4 DEF st, c
<1>9. /\ \A i \in 1 .. Len(Front(stack)) : Past(e)[i] = Front(stack)[i]
      /\ Past(e)[Len(Front(stack)) + 1] = Rest(e)
  <2>1. Front(stack) \in Seq(Call)
    BY <1>1 DEF Calls
  <2> QED BY <1>3, <1>4, <2>1, Extend
<1>10. Len(Front(stack)) + 1 = Len(stack)
  BY <1>1, Top
<1> QED BY <1>1, <1>2, <1>8, <1>9, <1>10

\* The entry e of the innermost directory.
LEMMA EntryPath ==
    ASSUME Calls(stack, root), stack # <<>>, NEW e \in Last(stack).unread
    PROVE  /\ Full(e) \in Seq(Name)
           /\ Len(Full(e)) = Len(Last(stack).dir) + 1
           /\ Full(e)[Len(Last(stack).dir) + 1] = e
           /\ Under(Last(stack).dir, Full(e))
           /\ \A f \in Seq(Name) : Under(Full(e), f) <=>
                /\ Under(Last(stack).dir, f) /\ Len(Last(stack).dir) < Len(f)
                /\ f[Len(Last(stack).dir) + 1] = e
<1> DEFINE d == Last(stack).dir
           g == Full(e)
<1>1. d \in Seq(Name) /\ Len(d) \in Nat /\ e \in Name
  BY Top
<1>2. g = Append(d, e)
  BY DEF Full
<1> HIDE DEF d, g
<1>3. g \in Seq(Name) /\ Len(g) = Len(d) + 1 /\ g[Len(d) + 1] = e
      /\ \A j \in 1 .. Len(d) : g[j] = d[j]
  BY <1>1, <1>2, Extend
<1>4. Under(d, g)
  BY <1>1, <1>3 DEF Under
<1>5. ASSUME NEW f \in Seq(Name)
      PROVE  Under(g, f) <=> Under(d, f) /\ Len(d) < Len(f) /\ f[Len(d) + 1] = e
  <2>1. Len(f) \in Nat
    BY Elements
  <2>2. ASSUME Under(g, f) PROVE Under(d, f) /\ Len(d) < Len(f) /\ f[Len(d) + 1] = e
    <3>1. Under(d, f)
      BY <1>1, <1>3, <1>4, <2>2, UnderTrans
    <3>2. Len(d) + 1 <= Len(f) /\ Len(d) + 1 \in 1 .. Len(g)
      BY <1>1, <1>3, <2>2 DEF Under
    <3> QED BY <1>1, <1>3, <2>1, <2>2, <3>1, <3>2 DEF Under
  <2>3. ASSUME Under(d, f), Len(d) < Len(f), f[Len(d) + 1] = e PROVE Under(g, f)
    <3>1. \A j \in 1 .. Len(g) : f[j] = g[j]
      <4> TAKE j \in 1 .. Len(g)
      <4>1. CASE j \in 1 .. Len(d)
        BY <1>3, <2>3, <4>1 DEF Under
      <4>2. CASE j = Len(d) + 1
        BY <1>3, <2>3, <4>2
      <4> QED BY <1>1, <1>3, <4>1, <4>2
    <3>2. Len(g) <= Len(f)
      BY <1>1, <1>3, <2>1, <2>3
    <3> QED BY <3>1, <3>2 DEF Under
  <2> QED BY <2>2, <2>3
<1> QED BY <1>3, <1>4, <1>5 DEF d, g

LEMMA EntryAwaits ==
    ASSUME Calls(stack, root), stack # <<>>, NEW e \in Last(stack).unread, NEW f \in Seq(Name)
    PROVE  /\ InStack(stack, f) => InStack(Past(e), f) \/ Under(Full(e), f)
           /\ InStack(Past(e), f) => InStack(stack, f) /\ ~Under(Full(e), f)
           /\ Under(Full(e), f) => InStack(stack, f)
<1>1. InStack(stack, f) <=> InStack(Front(stack), f) \/ Awaits(Last(stack), f)
  BY Pop
<1>2. InStack(Past(e), f) <=> InStack(Front(stack), f) \/ Awaits(Rest(e), f)
  BY PastCalls
<1>3. Awaits(Last(stack), f) <=> Awaits(Rest(e), f) \/ Under(Full(e), f)
  BY EntryPath DEF Awaits, Rest
<1>4. Awaits(Rest(e), f) => ~Under(Full(e), f)
  BY EntryPath DEF Awaits, Rest
<1>5. ASSUME InStack(Front(stack), f), Under(Full(e), f) PROVE FALSE
  <2>1. Len(Front(stack)) = Len(stack) - 1 /\ \A i \in 1 .. Len(stack) - 1 : Front(stack)[i] = stack[i]
    BY Pop, Shorten DEF Calls
  <2>2. PICK i \in 1 .. Len(stack) - 1 : Awaits(stack[i], f)
    BY <1>5, <2>1 DEF InStack
  <2>3. Within(stack, i, Last(stack).dir)
    BY Top
  <2>4. Under(Last(stack).dir, f) /\ Last(stack).dir \in Seq(Name)
    BY <1>5, EntryPath, Top
  <2>5. stack[i].dir \in Node
    <3>1. stack \in Seq(Call) /\ i \in 1 .. Len(stack)
      BY Top DEF Calls
    <3>2. stack[i] \in Call
      BY <3>1, Elements
    <3> QED BY <3>2 DEF Call
  <2>6. Len(stack[i].dir) + 1 \in 1 .. Len(Last(stack).dir)
    <3>1. Len(stack[i].dir) \in Nat /\ Len(Last(stack).dir) \in Nat
      BY <2>5, NodeNames, Elements, Top
    <3> QED BY <2>3, <3>1 DEF Within
  <2>7. f[Len(stack[i].dir) + 1] = Last(stack).dir[Len(stack[i].dir) + 1]
    BY <2>4, <2>6 DEF Under
  <2> QED BY <2>2, <2>3, <2>7 DEF Awaits, Within
<1> QED BY <1>1, <1>2, <1>3, <1>4, <1>5

\* It may be gone into.
LEMMA EntryWithin ==
    ASSUME Calls(stack, root), stack # <<>>, NEW e \in Last(stack).unread
    PROVE  /\ Under(Roots[root], Full(e)) /\ Len(Full(e)) = Len(Roots[root]) + Len(stack)
           /\ \A j \in Len(Roots[root]) + 1 .. Len(Full(e)) : Full(e)[j] \notin Passed
           /\ \A i \in 1 .. Len(Past(e)) : Within(Past(e), i, Full(e))
<1> DEFINE d == Last(stack).dir
           g == Full(e)
           R == Roots[root]
<1>1. d \in Seq(Name) /\ Len(d) \in Nat /\ Level(stack, Len(stack), root) /\ stack[Len(stack)].dir = d
      /\ stack[Len(stack)].unread = Last(stack).unread /\ Len(stack) \in Nat \ {0}
  BY Top
<1>2. R \in Seq(Name) /\ Len(R) \in Nat
  BY Top, RootNames
<1>3. g \in Seq(Name) /\ Len(g) = Len(d) + 1 /\ g[Len(d) + 1] = e /\ Under(d, g)
  BY EntryPath
<1>4. Under(R, d) /\ Len(d) = Len(R) + Len(stack) - 1 /\ e \notin Passed
      /\ \A j \in Len(R) + 1 .. Len(d) : d[j] \notin Passed
  BY <1>1 DEF Level
<1>5. \A i \in 1 .. Len(stack) - 1 : Within(stack, i, d)
  BY Top
<1>6. /\ Len(Past(e)) = Len(stack)
      /\ \A i \in 1 .. Len(stack) - 1 : Past(e)[i] = stack[i]
      /\ Past(e)[Len(stack)] = Rest(e) /\ Rest(e).dir = d /\ e \notin Rest(e).unread
  BY PastCalls DEF Rest
<1> HIDE DEF d, g, R
<1>7. Under(R, g)
  BY <1>1, <1>2, <1>3, <1>4, UnderTrans
<1>8. Len(g) = Len(R) + Len(stack)
  BY <1>1, <1>2, <1>3, <1>4
<1>9. ASSUME NEW j \in Len(R) + 1 .. Len(g) PROVE g[j] \notin Passed
  <2>1. CASE j = Len(d) + 1
    BY <1>3, <1>4, <2>1
  <2>2. CASE j # Len(d) + 1
    <3>1. j \in 1 .. Len(d) /\ j \in Len(R) + 1 .. Len(d)
      BY <1>1, <1>2, <1>3, <2>2
    <3> QED BY <1>3, <1>4, <3>1 DEF Under
  <2> QED BY <2>1, <2>2
<1>10. ASSUME NEW i \in 1 .. Len(Past(e)) PROVE Within(Past(e), i, g)
  <2>1. CASE i \in 1 .. Len(stack) - 1
    <3>1. Within(stack, i, d) /\ Past(e)[i] = stack[i]
      BY <1>5, <1>6, <2>1
    <3>2. stack[i].dir \in Seq(Name) /\ Len(stack[i].dir) \in Nat
      <4>1. stack \in Seq(Call) /\ i \in 1 .. Len(stack)
        BY <1>1, <2>1 DEF Calls
      <4>2. stack[i] \in Call
        BY <4>1, Elements
      <4>3. stack[i].dir \in Node
        BY <4>2 DEF Call
      <4> QED BY <4>3, NodeNames, Elements
    <3>3. Under(stack[i].dir, g)
      BY <1>1, <1>3, <3>1, <3>2, UnderTrans DEF Within
    <3>4. Len(stack[i].dir) < Len(g) /\ Len(stack[i].dir) + 1 \in 1 .. Len(d)
      BY <1>1, <1>3, <3>1, <3>2 DEF Within
    <3>5. g[Len(stack[i].dir) + 1] = d[Len(stack[i].dir) + 1]
      BY <1>3, <3>4 DEF Under
    <3> QED BY <3>1, <3>3, <3>4, <3>5 DEF Within
  <2>2. CASE i = Len(stack)
    <3>1. Past(e)[i].dir = d /\ e \notin Past(e)[i].unread
      BY <1>6, <2>2
    <3>2. Len(d) < Len(g)
      BY <1>1, <1>3
    <3> QED BY <1>3, <3>1, <3>2 DEF Within
  <2> QED BY <1>1, <1>6, <2>1, <2>2
<1> QED BY <1>7, <1>8, <1>9, <1>10 DEF d, g, R

------------------------------------------------------------------------------
(***************************************************************************)
(* What a scan has told, with r, st, l and sty for root, stack,            *)
(* g_last_scan and stay.                                                   *)
(***************************************************************************)
\* f is still to be looked at.
Out(r, st, f) == Ahead(r, f) \/ InStack(st, f)

GoodList(l, sn) ==
    /\ l \in [entries : Seq(Node), overflow : BOOLEAN]
    /\ Len(l.entries) <= PKG_MAX_RESULTS
    /\ l.overflow = TRUE => Len(l.entries) = PKG_MAX_RESULTS
    /\ IsInjective(l.entries)
    /\ Range(l.entries) \subseteq sn

Once(r, st, l) == \A f \in Range(l.entries) : ~Out(r, st, f)

Tells(r, st, l, sty) ==
    l.overflow = TRUE \/ \A f \in sty : f \in Range(l.entries) \/ Out(r, st, f)

LEMMA ListNodes ==
    ASSUME NEW l, NEW sn, GoodList(l, sn)
    PROVE  /\ Range(l.entries) \subseteq Node /\ Range(l.entries) \subseteq Seq(Name)
           /\ Len(l.entries) \in Nat
<1>1. l.entries \in Seq(Node)
  BY DEF GoodList
<1>2. Len(l.entries) \in Nat /\ Range(l.entries) \subseteq Node
  BY <1>1, Elements DEF Range
<1> QED BY <1>2, NodeNames

LEMMA ListMarked ==
    ASSUME NEW l, NEW sn, GoodList(l, sn), Len(l.entries) >= PKG_MAX_RESULTS
    PROVE  /\ GoodList([l EXCEPT !.overflow = TRUE], sn)
           /\ [l EXCEPT !.overflow = TRUE].entries = l.entries
           /\ [l EXCEPT !.overflow = TRUE].overflow = TRUE
<1> DEFINE m == [l EXCEPT !.overflow = TRUE]
<1>1. l \in [entries : Seq(Node), overflow : BOOLEAN]
  BY DEF GoodList
<1>2. m \in [entries : Seq(Node), overflow : BOOLEAN] /\ m.entries = l.entries /\ m.overflow = TRUE
  BY <1>1
<1> HIDE DEF m
<1>3. Len(m.entries) = PKG_MAX_RESULTS
  BY <1>2, ListNodes, RootNames DEF GoodList
<1>4. GoodList(m, sn)
  BY <1>2, <1>3, RootNames DEF GoodList
<1> QED BY <1>2, <1>4 DEF m

LEMMA ListGrown ==
    ASSUME NEW l, NEW sn, GoodList(l, sn), Len(l.entries) < PKG_MAX_RESULTS,
           NEW g \in Node \cap sn, g \notin Range(l.entries)
    PROVE  LET m == [l EXCEPT !.entries = Append(@, g)] IN
           /\ GoodList(m, sn)
           /\ Range(m.entries) = Range(l.entries) \cup {g}
           /\ m.overflow = l.overflow
<1> DEFINE m == [l EXCEPT !.entries = Append(@, g)]
           d == l.entries
           up == Append(d, g)
<1>1. l \in [entries : Seq(Node), overflow : BOOLEAN] /\ d \in Seq(Node) /\ Len(d) \in Nat
      /\ Len(d) < PKG_MAX_RESULTS
  BY ListNodes DEF GoodList
<1>2. m \in [entries : Seq(Node), overflow : BOOLEAN] /\ m.entries = up /\ m.overflow = l.overflow
  BY <1>1
<1>3. /\ up \in Seq(Node) /\ Len(up) = Len(d) + 1
      /\ \A j \in 1 .. Len(d) : up[j] = d[j]
      /\ up[Len(d) + 1] = g
  BY <1>1, Extend
<1> HIDE DEF m, up, d
<1>4. DOMAIN up = 1 .. Len(d) + 1 /\ DOMAIN d = 1 .. Len(d)
  BY <1>1, <1>3, Elements
<1>5. Range(up) = Range(d) \cup {g}
  BY <1>1, <1>3, <1>4 DEF Range
<1>6. IsInjective(up)
  <2> SUFFICES ASSUME NEW a \in 1 .. Len(d) + 1, NEW b \in 1 .. Len(d) + 1, up[a] = up[b]
               PROVE  a = b
      BY <1>4 DEF IsInjective
  <2>1. \A j \in 1 .. Len(d) : up[j] # g
    BY <1>3, <1>4 DEF Range, d
  <2>2. \A i, j \in 1 .. Len(d) : d[i] = d[j] => i = j
    BY <1>4 DEF GoodList, IsInjective, d
  <2> QED BY <1>1, <1>3, <2>1, <2>2
<1>7. GoodList(m, sn)
  <2>1. l.overflow # TRUE
    <3>1. Len(d) # PKG_MAX_RESULTS
      BY <1>1, RootNames
    <3> QED BY <3>1, Zenon DEF GoodList, d
  <2>2. Range(d) \subseteq sn
    BY DEF GoodList, d
  <2>3. Len(up) <= PKG_MAX_RESULTS
    BY <1>1, <1>3, RootNames
  <2> QED BY <1>2, <1>5, <1>6, <2>1, <2>2, <2>3 DEF GoodList
<1> QED BY <1>2, <1>5, <1>7 DEF m, d

\* An entry that has been looked at is all that is not out any more.
LEMMA EntryOut ==
    ASSUME Calls(stack, root), stack # <<>>, NEW e \in Last(stack).unread, NEW f \in Seq(Name)
    PROVE  /\ Out(root, Past(e), f) <=> Out(root, stack, f) /\ ~Under(Full(e), f)
           /\ Under(Full(e), f) => Out(root, stack, f) /\ Under(Roots[root], f)
<1>1. /\ InStack(stack, f) => InStack(Past(e), f) \/ Under(Full(e), f)
      /\ InStack(Past(e), f) => InStack(stack, f) /\ ~Under(Full(e), f)
      /\ Under(Full(e), f) => InStack(stack, f)
  BY EntryAwaits
<1>2. Under(Full(e), f) => Under(Roots[root], f)
  <2>1. Roots[root] \in Seq(Name) /\ Full(e) \in Seq(Name) /\ Under(Roots[root], Full(e))
    BY Top, RootNames, EntryPath, EntryWithin
  <2> QED BY <2>1, UnderTrans
<1>3. Under(Full(e), f) => ~Ahead(root, f)
  <2> SUFFICES ASSUME Under(Roots[root], f), Ahead(root, f) PROVE FALSE
      BY <1>2
  <2>1. PICK j \in root + 1 .. Len(Roots) : Under(Roots[j], f)
    BY DEF Ahead
  <2>2. root \in 1 .. Len(Roots) /\ j \in 1 .. Len(Roots) /\ j # root
    BY Top, RootNames
  <2> QED BY <2>1, <2>2, OneRoot
<1> QED BY <1>1, <1>2, <1>3, Zenon DEF Out

LEMMA WantedNodes ==
    ASSUME TreeTypeOK
    PROVE  Wanted \subseteq files /\ Wanted \subseteq Node /\ Wanted \subseteq Seq(Name)
<1>1. Wanted \subseteq files
  BY DEF Wanted
<1> QED BY <1>1, TreeNodes DEF TreeTypeOK

\* A package in reach, below a directory or file g of the root r.
LEMMA WantedUnder ==
    ASSUME TreeTypeOK, NEW r \in 1 .. Len(Roots), NEW g \in Seq(Name), Under(Roots[r], g),
           NEW f \in Wanted, Under(g, f)
    PROVE  /\ f \in files /\ Last(f) \in Pkg /\ Reach(f, r)
           /\ g \notin dirs => f = g
           /\ g \in dirs => Len(g) < Len(f) /\ f[Len(g) + 1] \in Names(g) \ Passed
<1>1. PICK i \in 1 .. Len(Roots) : Reach(f, i)
  BY WantedReach
<1>2. f \in files /\ Last(f) \in Pkg /\ f \in Seq(Name)
  BY WantedReach, WantedNodes
<1>3. Roots[r] \in Seq(Name) /\ Len(Roots[r]) \in Nat /\ Len(g) \in Nat /\ Len(f) \in Nat
  BY <1>2, RootNames, Elements
<1>4. i = r
  <2>1. Under(Roots[r], f)
    BY <1>2, <1>3, UnderTrans
  <2> QED BY <1>1, <1>2, <2>1, OneRoot DEF Reach
<1>5. Len(g) = Len(f) => f = g
  BY <1>2, UnderSame
<1>6. Len(g) < Len(f) => g \in dirs
  BY <1>2, Ancestor
<1>7. Len(g) <= Len(f)
  BY DEF Under
<1>8. ASSUME g \in dirs PROVE Len(g) < Len(f) /\ f[Len(g) + 1] \in Names(g) \ Passed
  <2>1. dirs \cap files = {}
    BY TreeNodes DEF TreeTypeOK
  <2>2. Len(g) < Len(f)
    BY <1>2, <1>3, <1>5, <1>7, <1>8, <2>1
  <2>3. f[Len(g) + 1] \in Names(g)
    BY <1>2, <2>2, LeadsOn
  <2>4. Len(g) + 1 \in Len(Roots[r]) + 1 .. Len(f)
    BY <1>3, <2>2 DEF Under
  <2> QED BY <1>1, <1>4, <2>2, <2>3, <2>4 DEF Reach
<1> QED BY <1>1, <1>2, <1>3, <1>4, <1>5, <1>6, <1>7, <1>8

LEMMA UnreadNames ==
    ASSUME TreeTypeOK, NEW dir
    PROVE  /\ Unread(dir) \subseteq Name /\ Unread(dir) \cap Passed = {}
           /\ Names(dir) \ Passed \subseteq Unread(dir)
<1>1. ASSUME NEW m \in (dirs \cup files) \ {<<>>} PROVE Last(m) \in Name
  <2>1. m \in Seq(Name) /\ m # <<>>
    BY TreeNodes DEF TreeTypeOK
  <2> QED BY <2>1, Elements DEF Last
<1>2. {".", ".."} \subseteq Name
  BY TreeAssumption, Zenon
<1> QED BY <1>1, <1>2 DEF Unread, Names

\* scan_dir_recursive, called by st for a directory d of the root r, where all
\* that is below d is still to be told.
LEMMA Entered ==
    ASSUME TreeTypeOK, NEW r \in 1 .. Len(Roots), NEW st, NEW d \in dirs,
           Calls(st, r), Under(Roots[r], d), Len(d) = Len(Roots[r]) + Len(st),
           \A j \in Len(Roots[r]) + 1 .. Len(d) : d[j] \notin Passed,
           \A i \in 1 .. Len(st) : Within(st, i, d),
           GoodList(g_last_scan, seen), stay \subseteq Wanted, streams = Len(st),
           \A f \in Range(g_last_scan.entries) : ~Out(r, st, f) /\ ~Under(d, f),
           \/ g_last_scan.overflow = TRUE
           \/ \A f \in stay : f \in Range(g_last_scan.entries) \/ Out(r, st, f) \/ Under(d, f),
           scan_dir_recursive(st, d)
    PROVE  /\ Calls(stack', r) /\ streams' = Len(stack')
           /\ GoodList(g_last_scan', seen) /\ stay' \subseteq stay
           /\ Once(r, stack', g_last_scan')
           /\ Tells(r, stack', g_last_scan', stay')
<1> DEFINE l == g_last_scan
           R == Roots[r]
<1>1. R \in Seq(Name) /\ Len(R) \in Nat /\ d \in Seq(Name) /\ Len(d) \in Nat /\ Len(st) \in Nat
      /\ d \in Node
  BY RootNames, TreeNodes, Elements DEF TreeTypeOK, Calls
<1>2. /\ \A f \in Range(l.entries) : ~Out(r, st, f) /\ ~Under(d, f)
      /\ l.overflow = TRUE \/ \A f \in stay : f \in Range(l.entries) \/ Out(r, st, f) \/ Under(d, f)
  OBVIOUS
<1>3. \A f \in stay : f \in Seq(Name)
  BY WantedNodes
<1>4. \A f \in stay : Under(d, f) => /\ Reach(f, r) /\ Len(d) < Len(f)
                                     /\ f[Len(d) + 1] \in Names(d) \ Passed
  BY <1>1, WantedUnder
<1> HIDE DEF l
<1>5. CASE Len(st) > PKG_MAX_DEPTH
  <2>1. stack' = st /\ UNCHANGED <<streams, g_last_scan, stay>>
    BY <1>5 DEF scan_dir_recursive
  <2>2. \A f \in stay : ~Under(d, f)
    <3> SUFFICES ASSUME NEW f \in stay, Under(d, f) PROVE FALSE
        OBVIOUS
    <3>1. Len(d) < Len(f) /\ Len(f) - Len(R) \in 1 .. PKG_MAX_DEPTH + 1 /\ Len(f) \in Nat
      BY <1>3, <1>4, Elements DEF Reach
    <3> QED BY <1>1, <1>5, <3>1, RootNames
  <2>3. Once(r, st, l) /\ Tells(r, st, l, stay)
    BY <1>2, <2>2, Zenon DEF Once, Tells
  <2> QED BY <2>1, <2>3 DEF l
<1>6. CASE ~(Len(st) > PKG_MAX_DEPTH) /\ Count >= PKG_MAX_RESULTS
  <2>1. stack' = st /\ UNCHANGED <<streams, stay>> /\ g_last_scan' = [l EXCEPT !.overflow = TRUE]
    BY <1>6 DEF scan_dir_recursive, l
  <2>2. /\ GoodList([l EXCEPT !.overflow = TRUE], seen)
        /\ [l EXCEPT !.overflow = TRUE].entries = l.entries
        /\ [l EXCEPT !.overflow = TRUE].overflow = TRUE
    BY <1>6, ListMarked DEF l, Count, entries
  <2>3. Once(r, st, g_last_scan') /\ Tells(r, st, g_last_scan', stay)
    BY <1>2, <2>1, <2>2, Zenon DEF Once, Tells
  <2>4. GoodList(g_last_scan', seen)
    BY <2>1, <2>2
  <2> QED BY <2>1, <2>3, <2>4
<1>7. CASE ~(Len(st) > PKG_MAX_DEPTH) /\ ~(Count >= PKG_MAX_RESULTS)
  <2> DEFINE c == [dir |-> d, unread |-> Unread(d)]
  <2>1. CASE /\ stack' = Append(st, c) /\ streams' = streams + 1
             /\ UNCHANGED <<g_last_scan, stay>>
    <3>1. c \in Call /\ c.dir = d /\ c.unread = Unread(d) /\ c.unread \cap Passed = {}
      BY <1>1, UnreadNames DEF Call
    <3> HIDE DEF c
    <3>2. Len(st) <= PKG_MAX_DEPTH
      BY <1>1, <1>7, RootNames
    <3>3. /\ Calls(Append(st, c), r) /\ Len(Append(st, c)) = Len(st) + 1
          /\ \A f : InStack(Append(st, c), f) <=> InStack(st, f) \/ Awaits(c, f)
      BY <3>1, <3>2, Push
    <3>4. \A f : Out(r, Append(st, c), f) <=> Out(r, st, f) \/ Awaits(c, f)
      BY <3>3, Zenon DEF Out
    <3>5. \A f : Awaits(c, f) => Under(d, f)
      BY <3>1 DEF Awaits
    <3>6. \A f \in stay : Under(d, f) => Awaits(c, f)
      BY <1>4, <3>1, UnreadNames DEF Awaits
    <3>7. Once(r, Append(st, c), l)
      BY <1>2, <3>4, <3>5, Zenon DEF Once
    <3>8. Tells(r, Append(st, c), l, stay)
      BY <1>2, <3>4, <3>6, Zenon DEF Tells
    <3>9. streams' = Len(Append(st, c))
      BY <2>1, <3>3
    <3> QED BY <2>1, <3>3, <3>7, <3>8, <3>9, Zenon DEF l
  <2>2. CASE /\ stack' = st /\ stay' = {f \in stay : ~IsPrefix(d, f)}
             /\ UNCHANGED <<streams, g_last_scan>>
    <3>1. stay' \subseteq stay /\ \A f \in stay' : ~Under(d, f)
      BY <1>1, <1>3, <2>2, PrefixUnder
    <3>2. Once(r, st, l) /\ Tells(r, st, l, stay')
      BY <1>2, <3>1, Zenon DEF Once, Tells
    <3> QED BY <2>2, <3>1, <3>2 DEF l
  <2> QED BY <1>7, <2>1, <2>2 DEF scan_dir_recursive
<1> QED BY <1>5, <1>6, <1>7

------------------------------------------------------------------------------
(***************************************************************************)
(* The invariant of a scan, step by step.                                  *)
(***************************************************************************)
ScanPlaces ==
    /\ phase \in {"idle", "scan", "open", "write"} /\ root \in 0 .. Len(Roots)
    /\ Calls(stack, root) /\ streams = Len(stack)
    /\ phase # "scan" => stack = <<>>
    /\ phase \in {"open", "write"} => root = Len(Roots)

ScanSets == stay \subseteq Node /\ seen \subseteq Node /\ GoodList(g_last_scan, seen)

ScanRuns ==
    phase = "scan" => stay \subseteq Wanted /\ Wanted \subseteq seen /\ Once(root, stack, g_last_scan)

ScanTells == phase # "idle" => Tells(root, stack, g_last_scan, stay)

ScanInv == ScanPlaces /\ ScanSets /\ ScanRuns /\ ScanTells

LEMMA SameWanted ==
    ASSUME UNCHANGED treeVars
    PROVE  Wanted' = Wanted
BY DEF treeVars, Wanted

LEMMA NoCalls ==
    /\ \A r : Calls(<<>>, r)
    /\ \A f : ~InStack(<<>>, f)
    /\ Len(<<>>) = 0
<1>1. <<>> \in Seq(Call) /\ Len(<<>>) = 0 /\ \A i \in 1 .. Len(<<>>) : FALSE
  OBVIOUS
<1>2. Len(<<>>) <= PKG_MAX_DEPTH + 1
  BY <1>1, RootNames
<1> QED BY <1>1, <1>2 DEF Calls, InStack

LEMMA RefreshScan ==
    ASSUME TreeTypeOK, ScanInv, PkgBrowser_Refresh
    PROVE  ScanInv'
<1>1. /\ phase' = "scan" /\ root' = 0 /\ stack' = <<>> /\ streams' = 0 /\ UNCHANGED treeVars
      /\ g_last_scan' = [entries |-> <<>>, overflow |-> FALSE]
      /\ stay' = Wanted /\ seen' = Wanted
  BY NoCalls DEF PkgBrowser_Refresh, ScanInv, ScanPlaces
<1>2. ScanPlaces'
  BY <1>1, NoCalls, RootNames DEF ScanPlaces
<1>3. Range(<<>>) = {} /\ IsInjective(<<>>) /\ <<>> \in Seq(Node)
  BY DEF Range, IsInjective
<1>4. g_last_scan'.entries = <<>> /\ g_last_scan'.overflow = FALSE
      /\ g_last_scan' \in [entries : Seq(Node), overflow : BOOLEAN]
  BY <1>1, <1>3
<1>5. ScanSets'
  <2>1. GoodList(g_last_scan', seen')
    BY <1>3, <1>4, NoCalls, RootNames DEF GoodList
  <2> QED BY <1>1, <2>1, WantedNodes DEF ScanSets
<1>6. ScanRuns'
  BY <1>1, <1>3, <1>4, SameWanted DEF ScanRuns, Once
<1>7. ASSUME NEW f \in Wanted PROVE Out(0, <<>>, f)
  <2>1. PICK i \in 1 .. Len(Roots) : Under(Roots[i], f)
    BY WantedReach DEF Reach
  <2>2. i \in 0 + 1 .. Len(Roots)
    BY <2>1
  <2> QED BY <2>1, <2>2 DEF Out, Ahead
<1>8. ScanTells'
  BY <1>1, <1>7 DEF ScanTells, Tells
<1> QED BY <1>2, <1>5, <1>6, <1>8 DEF ScanInv

\* What holds after any step of a scan.
LEMMA ScanKept ==
    ASSUME ScanInv, phase = "scan", UNCHANGED <<treeVars, phase, seen>>,
           Calls(stack', root'), streams' = Len(stack'), root' \in 0 .. Len(Roots),
           stay' \subseteq stay, GoodList(g_last_scan', seen),
           Once(root', stack', g_last_scan'), Tells(root', stack', g_last_scan', stay')
    PROVE  ScanInv'
<1>1. stay \subseteq Wanted /\ Wanted \subseteq seen /\ stay \subseteq Node /\ seen \subseteq Node
  BY DEF ScanInv, ScanRuns, ScanSets
<1>2. Wanted' = Wanted /\ phase' = "scan" /\ seen' = seen
  BY SameWanted
<1>3. ScanPlaces'
  BY <1>2 DEF ScanPlaces
<1>4. ScanSets'
  BY <1>1, <1>2 DEF ScanSets
<1>5. ScanRuns' /\ ScanTells'
  BY <1>1, <1>2 DEF ScanRuns, ScanTells
<1> QED BY <1>3, <1>4, <1>5 DEF ScanInv

LEMMA RootScan ==
    ASSUME TreeTypeOK, ScanInv, ScanRoot
    PROVE  ScanInv'
<1> DEFINE r == root + 1
           l == g_last_scan
<1>1. /\ phase = "scan" /\ stack = <<>> /\ root' = r /\ r \in 1 .. Len(Roots)
      /\ UNCHANGED <<treeVars, phase, seen>> /\ root \in Nat /\ r \in 0 .. Len(Roots)
  BY RootNames DEF ScanRoot, ScanInv, ScanPlaces
<1>2. Roots[r] \in Seq(Name) /\ Roots[r] \in Node /\ Len(Roots[r]) \in Nat
  BY <1>1, RootNames
<1>3. /\ stay \subseteq Wanted /\ GoodList(l, seen) /\ Once(root, <<>>, l) /\ Tells(root, <<>>, l, stay)
      /\ streams = 0
  BY <1>1, NoCalls DEF ScanInv, ScanPlaces, ScanSets, ScanRuns, ScanTells
<1>4. ASSUME NEW f PROVE Out(root, <<>>, f) <=> Out(r, <<>>, f) \/ Under(Roots[r], f)
  <2>1. \A j : j \in root + 1 .. Len(Roots) <=> j = r \/ j \in r + 1 .. Len(Roots)
    BY <1>1, RootNames
  <2>2. Ahead(root, f) <=> Ahead(r, f) \/ Under(Roots[r], f)
    BY <2>1, Zenon DEF Ahead
  <2> QED BY <2>2, NoCalls DEF Out
<1>5. \A f \in Range(l.entries) : ~Out(r, <<>>, f) /\ ~Under(Roots[r], f)
  BY <1>3, <1>4, Zenon DEF Once
<1>6. l.overflow = TRUE \/ \A f \in stay : f \in Range(l.entries) \/ Out(r, <<>>, f) \/ Under(Roots[r], f)
  BY <1>3, <1>4, Zenon DEF Tells
<1>7. CASE Roots[r] \in dirs
  <2>1. scan_dir_recursive(<<>>, Roots[r])
    BY <1>7 DEF ScanRoot
  <2>2. Under(Roots[r], Roots[r]) /\ Len(Roots[r]) = Len(Roots[r]) + Len(<<>>)
        /\ \A j \in Len(Roots[r]) + 1 .. Len(Roots[r]) : Roots[r][j] \notin Passed
        /\ \A i \in 1 .. Len(<<>>) : Within(<<>>, i, Roots[r])
    BY <1>2, NoCalls DEF Under
  <2>3. /\ Calls(stack', r) /\ streams' = Len(stack')
        /\ GoodList(g_last_scan', seen) /\ stay' \subseteq stay
        /\ Once(r, stack', g_last_scan') /\ Tells(r, stack', g_last_scan', stay')
    <3> DEFINE st == <<>>
               d == Roots[r]
    <3>1. Calls(st, r) /\ streams = Len(st) /\ r \in 1 .. Len(Roots) /\ d \in dirs
      BY <1>1, <1>3, <1>7, NoCalls
    <3>2. /\ Under(Roots[r], d) /\ Len(d) = Len(Roots[r]) + Len(st)
          /\ \A j \in Len(Roots[r]) + 1 .. Len(d) : d[j] \notin Passed
          /\ \A i \in 1 .. Len(st) : Within(st, i, d)
          /\ scan_dir_recursive(st, d)
      BY <2>1, <2>2
    <3>3. /\ \A f \in Range(g_last_scan.entries) : ~Out(r, st, f) /\ ~Under(d, f)
          /\ \/ g_last_scan.overflow = TRUE
             \/ \A f \in stay : f \in Range(g_last_scan.entries) \/ Out(r, st, f) \/ Under(d, f)
          /\ stay \subseteq Wanted /\ GoodList(g_last_scan, seen)
      BY <1>3, <1>5, <1>6
    <3> HIDE DEF st, d, r, l
    <3> QED BY <3>1, <3>2, <3>3, Entered
  <2> HIDE DEF r, l
  <2> QED BY <1>1, <2>3, ScanKept
<1>8. CASE Roots[r] \notin dirs
  <2>1. UNCHANGED <<stack, streams, g_last_scan, stay>>
    BY <1>8 DEF ScanRoot
  <2>2. \A f \in stay : ~Under(Roots[r], f)
    <3> SUFFICES ASSUME NEW f \in stay, Under(Roots[r], f) PROVE FALSE
        OBVIOUS
    <3>1. Under(Roots[r], Roots[r])
      BY DEF Under
    <3>2. f = Roots[r] /\ Reach(f, r)
      BY <1>1, <1>2, <1>3, <1>8, <3>1, WantedUnder
    <3>3. Len(f) - Len(Roots[r]) = 0
      BY <1>2, <3>2
    <3> QED BY <3>2, <3>3, RootNames DEF Reach
  <2>3. Once(r, <<>>, l) /\ Tells(r, <<>>, l, stay)
    BY <1>5, <1>6, <2>2, Zenon DEF Once, Tells
  <2>4. stack' = <<>> /\ streams' = 0 /\ g_last_scan' = l /\ stay' = stay
    BY <1>1, <1>3, <2>1
  <2> HIDE DEF r, l
  <2> QED BY <1>1, <1>3, <2>3, <2>4, NoCalls, ScanKept
<1> QED BY <1>7, <1>8

\* The loop is at an entry e.
LEMMA InLoop ==
    ASSUME TreeTypeOK, ScanInv, NEW e \in Unseen
    PROVE  /\ stack # <<>> /\ e \in Last(stack).unread /\ phase = "scan"
           /\ Calls(stack, root) /\ streams = Len(stack)
           /\ Calls(Past(e), root) /\ Len(Past(e)) = Len(stack)
           /\ root \in 1 .. Len(Roots) /\ root \in 0 .. Len(Roots)
           /\ Full(e) \in Seq(Name) /\ Under(Roots[root], Full(e))
           /\ GoodList(g_last_scan, seen) /\ stay \subseteq Wanted /\ Wanted \subseteq seen
           /\ Once(root, stack, g_last_scan) /\ Tells(root, stack, g_last_scan, stay)
           /\ \A f \in Range(g_last_scan.entries) : ~Out(root, Past(e), f) /\ ~Under(Full(e), f)
           /\ \/ g_last_scan.overflow = TRUE
              \/ \A f \in stay : \/ f \in Range(g_last_scan.entries)
                                 \/ Out(root, Past(e), f) \/ Under(Full(e), f)
<1>1. stack # <<>> /\ e \in Last(stack).unread
  BY DEF Unseen
<1>2. phase = "scan" /\ Calls(stack, root) /\ streams = Len(stack) /\ root \in 0 .. Len(Roots)
  BY <1>1, Zenon DEF ScanInv, ScanPlaces
<1>3. /\ GoodList(g_last_scan, seen) /\ stay \subseteq Wanted /\ Wanted \subseteq seen
      /\ Once(root, stack, g_last_scan) /\ Tells(root, stack, g_last_scan, stay)
  BY <1>2 DEF ScanInv, ScanSets, ScanRuns, ScanTells
<1>4. /\ Calls(Past(e), root) /\ Len(Past(e)) = Len(stack)
      /\ root \in 1 .. Len(Roots) /\ Full(e) \in Seq(Name) /\ Under(Roots[root], Full(e))
  BY <1>1, <1>2, Top, PastCalls, EntryPath, EntryWithin
<1>5. \A f \in Seq(Name) : /\ Out(root, Past(e), f) <=> Out(root, stack, f) /\ ~Under(Full(e), f)
                           /\ Under(Full(e), f) => Out(root, stack, f)
  BY <1>1, <1>2, EntryOut
<1>6. Range(g_last_scan.entries) \subseteq Seq(Name) /\ stay \subseteq Seq(Name)
  BY <1>3, ListNodes, WantedNodes
<1>7. \A f \in Range(g_last_scan.entries) : ~Out(root, Past(e), f) /\ ~Under(Full(e), f)
  BY <1>3, <1>5, <1>6, Zenon DEF Once
<1>8. \/ g_last_scan.overflow = TRUE
      \/ \A f \in stay : \/ f \in Range(g_last_scan.entries)
                         \/ Out(root, Past(e), f) \/ Under(Full(e), f)
  BY <1>3, <1>5, <1>6, Zenon DEF Tells
<1> QED BY <1>1, <1>2, <1>3, <1>4, <1>7, <1>8

LEMMA OtherScan ==
    ASSUME TreeTypeOK, ScanInv, ScanOther
    PROVE  ScanInv'
<1>1. PICK e \in Unseen : Full(e) \notin dirs /\ ~IsPkg(e) /\ stack' = Past(e)
  BY DEF ScanOther
<1>2. UNCHANGED <<treeVars, phase, root, streams, g_last_scan, stay, seen>>
  BY DEF ScanOther
<1>3. \A f \in stay : ~Under(Full(e), f)
  <2> SUFFICES ASSUME NEW f \in stay, Under(Full(e), f) PROVE FALSE
      OBVIOUS
  <2>1. f = Full(e) /\ f \in files /\ Last(f) \in Pkg
    BY <1>1, InLoop, WantedUnder
  <2>2. Last(Full(e)) = e
    <3>1. e \in Last(stack).unread /\ stack # <<>> /\ Calls(stack, root)
      BY InLoop
    <3> QED BY <3>1, EntryPath DEF Last
  <2> QED BY <1>1, <2>1, <2>2 DEF IsPkg
<1>4. Once(root, Past(e), g_last_scan) /\ Tells(root, Past(e), g_last_scan, stay)
  BY <1>3, InLoop, Zenon DEF Once, Tells
<1>5. phase = "scan" /\ Calls(Past(e), root) /\ Len(Past(e)) = Len(stack) /\ streams = Len(stack)
      /\ root \in 0 .. Len(Roots) /\ GoodList(g_last_scan, seen)
  BY InLoop
<1> QED BY <1>1, <1>2, <1>4, <1>5, ScanKept

LEMMA DirScan ==
    ASSUME TreeTypeOK, ScanInv, ScanDir
    PROVE  ScanInv'
<1>1. PICK e \in Unseen : Full(e) \in dirs /\ scan_dir_recursive(Past(e), Full(e))
  BY DEF ScanDir
<1>2. UNCHANGED <<treeVars, phase, root, seen>>
  BY DEF ScanDir
<1>3. /\ Len(Full(e)) = Len(Roots[root]) + Len(Past(e))
      /\ \A j \in Len(Roots[root]) + 1 .. Len(Full(e)) : Full(e)[j] \notin Passed
      /\ \A i \in 1 .. Len(Past(e)) : Within(Past(e), i, Full(e))
  <2>1. e \in Last(stack).unread /\ stack # <<>> /\ Calls(stack, root) /\ Len(Past(e)) = Len(stack)
    BY InLoop
  <2> QED BY <2>1, EntryWithin
<1> DEFINE st == Past(e)
           d == Full(e)
<1>4. /\ root \in 1 .. Len(Roots) /\ d \in dirs /\ Calls(st, root) /\ Under(Roots[root], d)
      /\ Len(d) = Len(Roots[root]) + Len(st)
      /\ \A j \in Len(Roots[root]) + 1 .. Len(d) : d[j] \notin Passed
      /\ \A i \in 1 .. Len(st) : Within(st, i, d)
      /\ scan_dir_recursive(st, d)
  BY <1>1, <1>3, InLoop
<1>5. /\ GoodList(g_last_scan, seen) /\ stay \subseteq Wanted /\ streams = Len(st)
      /\ \A f \in Range(g_last_scan.entries) : ~Out(root, st, f) /\ ~Under(d, f)
      /\ \/ g_last_scan.overflow = TRUE
         \/ \A f \in stay : f \in Range(g_last_scan.entries) \/ Out(root, st, f) \/ Under(d, f)
  BY InLoop
<1>6. phase = "scan" /\ root \in 0 .. Len(Roots)
  BY InLoop
<1> HIDE DEF st, d
<1>7. /\ Calls(stack', root) /\ streams' = Len(stack')
      /\ GoodList(g_last_scan', seen) /\ stay' \subseteq stay
      /\ Once(root, stack', g_last_scan') /\ Tells(root, stack', g_last_scan', stay')
  BY <1>4, <1>5, Entered
<1> QED BY <1>2, <1>6, <1>7, ScanKept

LEMMA PkgScan ==
    ASSUME TreeTypeOK, ScanInv, ScanPkg
    PROVE  ScanInv'
<1>1. PICK e \in Unseen :
        /\ IsPkg(e) /\ stack' = Past(e)
        /\ g_last_scan' = [g_last_scan EXCEPT !.entries = Append(@, Full(e))]
  BY DEF ScanPkg
<1>2. UNCHANGED <<treeVars, phase, root, streams, stay, seen>> /\ Len(g_last_scan.entries) < PKG_MAX_RESULTS
  BY DEF ScanPkg, Count, entries
<1> DEFINE g == Full(e)
           l == g_last_scan
<1>3. e \in Last(stack).unread /\ stack # <<>> /\ Calls(stack, root) /\ root \in 1 .. Len(Roots)
  BY InLoop
<1>4. g \in files /\ g \in Node /\ g \notin dirs /\ g \in Seq(Name)
  BY <1>1, TreeNodes DEF IsPkg, TreeTypeOK
<1>5. Under(g, g)
  BY DEF Under
<1>6. g \in Wanted
  <2>1. Last(g) \in Pkg
    <3>1. Last(g) = e
      BY <1>3, EntryPath DEF Last
    <3> QED BY <1>1, <3>1 DEF IsPkg
  <2>2. Reach(g, root)
    <3>1. /\ Under(Roots[root], g) /\ Len(g) = Len(Roots[root]) + Len(stack)
          /\ \A j \in Len(Roots[root]) + 1 .. Len(g) : g[j] \notin Passed
      BY <1>3, EntryWithin
    <3>2. Len(stack) \in 1 .. PKG_MAX_DEPTH + 1 /\ Len(Roots[root]) \in Nat
      <4>1. Len(stack) \in Nat \ {0}
        BY <1>3, Top
      <4>2. Len(stack) <= PKG_MAX_DEPTH + 1
        BY <1>3 DEF Calls
      <4> QED BY <1>3, <4>1, <4>2, RootNames
    <3>3. Len(g) - Len(Roots[root]) \in 1 .. PKG_MAX_DEPTH + 1
      BY <3>1, <3>2
    <3> QED BY <3>1, <3>3 DEF Reach
  <2> QED BY <1>3, <1>4, <2>1, <2>2, WantedReach
<1>7. /\ \A f \in Range(l.entries) : ~Out(root, Past(e), f) /\ ~Under(g, f)
      /\ l.overflow = TRUE \/ \A f \in stay : f \in Range(l.entries) \/ Out(root, Past(e), f) \/ Under(g, f)
      /\ GoodList(l, seen) /\ g \in Node \cap seen
  BY <1>4, <1>6, InLoop
<1>8. g \notin Range(l.entries)
  BY <1>5, <1>7
<1>9. ~Out(root, Past(e), g)
  BY <1>3, <1>4, <1>5, EntryOut
<1>10. \A f \in stay : Under(g, f) => f = g
  BY <1>4, InLoop, WantedUnder
<1>11. g_last_scan' = [l EXCEPT !.entries = Append(@, g)]
  BY <1>1
<1> HIDE DEF g, l
<1>12. GoodList(g_last_scan', seen) /\ g_last_scan'.overflow = l.overflow
       /\ Range(g_last_scan'.entries) = Range(l.entries) \cup {g}
  BY <1>2, <1>7, <1>8, <1>11, ListGrown DEF l
<1>13. Once(root, Past(e), g_last_scan')
  BY <1>7, <1>9, <1>12 DEF Once
<1>14. Tells(root, Past(e), g_last_scan', stay)
  BY <1>7, <1>10, <1>12 DEF Tells
<1>15. phase = "scan" /\ Calls(Past(e), root) /\ Len(Past(e)) = Len(stack) /\ streams = Len(stack)
       /\ root \in 0 .. Len(Roots)
  BY InLoop
<1> QED BY <1>1, <1>2, <1>12, <1>13, <1>14, <1>15, ScanKept

LEMMA FullScan ==
    ASSUME TreeTypeOK, ScanInv, ScanFull
    PROVE  ScanInv'
<1>1. /\ stack' = Front(stack) /\ streams' = streams - 1
      /\ g_last_scan' = [g_last_scan EXCEPT !.overflow = TRUE]
      /\ UNCHANGED <<treeVars, phase, root, stay, seen>>
      /\ Len(g_last_scan.entries) >= PKG_MAX_RESULTS
  BY DEF ScanFull, Count, entries
<1>2. PICK e \in Unseen : TRUE
  BY DEF ScanFull
<1>3. /\ phase = "scan" /\ Calls(stack, root) /\ stack # <<>> /\ streams = Len(stack)
      /\ GoodList(g_last_scan, seen) /\ Once(root, stack, g_last_scan) /\ root \in 0 .. Len(Roots)
  BY InLoop
<1>4. /\ Calls(Front(stack), root) /\ Len(Front(stack)) = Len(stack) - 1
      /\ \A f : InStack(Front(stack), f) => InStack(stack, f)
  BY <1>3, Pop
<1>5. /\ GoodList(g_last_scan', seen) /\ g_last_scan'.entries = g_last_scan.entries
      /\ g_last_scan'.overflow = TRUE
  BY <1>1, <1>3, ListMarked
<1>6. Once(root, Front(stack), g_last_scan')
  BY <1>3, <1>4, <1>5, Zenon DEF Once, Out
<1>7. Tells(root, Front(stack), g_last_scan', stay)
  BY <1>5 DEF Tells
<1> QED BY <1>1, <1>3, <1>4, <1>5, <1>6, <1>7, ScanKept

LEMMA ReturnScan ==
    ASSUME TreeTypeOK, ScanInv, ScanReturn
    PROVE  ScanInv'
<1>1. /\ stack # <<>> /\ Last(stack).unread = {}
      /\ stack' = Front(stack) /\ streams' = streams - 1
      /\ UNCHANGED <<treeVars, phase, root, g_last_scan, stay, seen>>
  BY DEF ScanReturn, Unseen
<1>2. phase = "scan" /\ Calls(stack, root) /\ streams = Len(stack) /\ root \in 0 .. Len(Roots)
  BY <1>1, Zenon DEF ScanInv, ScanPlaces
<1>3. /\ GoodList(g_last_scan, seen)
      /\ Once(root, stack, g_last_scan) /\ Tells(root, stack, g_last_scan, stay)
  BY <1>2 DEF ScanInv, ScanSets, ScanRuns, ScanTells
<1>4. /\ Calls(Front(stack), root) /\ Len(Front(stack)) = Len(stack) - 1
      /\ \A f : InStack(stack, f) <=> InStack(Front(stack), f) \/ Awaits(Last(stack), f)
  BY <1>1, <1>2, Pop
<1>5. \A f : ~Awaits(Last(stack), f)
  BY <1>1 DEF Awaits
<1>6. Once(root, Front(stack), g_last_scan) /\ Tells(root, Front(stack), g_last_scan, stay)
  BY <1>3, <1>4, <1>5, Zenon DEF Once, Tells, Out
<1>7. streams' = Len(stack')
  BY <1>1, <1>2, <1>4
<1> QED BY <1>1, <1>2, <1>3, <1>4, <1>6, <1>7, ScanKept

LEMMA DoneScan ==
    ASSUME ScanInv, ScanDone
    PROVE  ScanInv'
<1>1. /\ phase = "scan" /\ stack = <<>> /\ root = Len(Roots) /\ phase' = "open"
      /\ UNCHANGED <<root, stack, streams, g_last_scan, stay, seen>>
  BY DEF ScanDone
<1>2. ScanPlaces' /\ ScanSets' /\ ScanRuns'
  BY <1>1 DEF ScanInv, ScanPlaces, ScanSets, ScanRuns
<1>3. ScanTells'
  BY <1>1 DEF ScanInv, ScanTells
<1> QED BY <1>2, <1>3 DEF ScanInv

LEMMA PageScan ==
    ASSUME ScanInv, PageOpen \/ PageClose
    PROVE  ScanInv'
<1>1. /\ phase \in {"open", "write"} /\ phase' \in {"idle", "write"}
      /\ UNCHANGED <<root, stack, streams, g_last_scan, stay, seen>>
  BY DEF PageOpen, PageClose
<1>2. stack = <<>> /\ root = Len(Roots)
  BY <1>1 DEF ScanInv, ScanPlaces
<1>3. ScanPlaces'
  BY <1>1, <1>2 DEF ScanInv, ScanPlaces
<1>4. ScanSets' /\ ScanRuns'
  BY <1>1 DEF ScanInv, ScanSets, ScanRuns
<1>5. ScanTells'
  BY <1>1 DEF ScanInv, ScanTells
<1> QED BY <1>3, <1>4, <1>5 DEF ScanInv

\* Nothing of the browser moves, and the tree changes or does not.
LEMMA RestScan ==
    ASSUME ScanInv, UNCHANGED <<treeVars, scanVars>>
    PROVE  ScanInv'
<1>1. UNCHANGED <<phase, root, stack, streams, g_last_scan, stay, seen>> /\ Wanted' = Wanted
  BY SameWanted DEF scanVars
<1> QED BY <1>1 DEF ScanInv, ScanPlaces, ScanSets, ScanRuns, ScanTells

LEMMA WatchScan ==
    ASSUME ScanInv, TreeTypeOK', Watch
    PROVE  ScanInv'
<1>1. UNCHANGED <<phase, root, stack, streams, g_last_scan>>
  BY DEF Watch
<1>2. ScanPlaces'
  BY <1>1 DEF ScanInv, ScanPlaces
<1>3. CASE phase # "scan"
  <2>1. UNCHANGED <<stay, seen>>
    BY <1>3 DEF Watch
  <2> QED BY <1>1, <1>2, <1>3, <2>1 DEF ScanInv, ScanSets, ScanRuns, ScanTells
<1>4. CASE phase = "scan"
  <2>1. stay' = stay \cap Wanted' /\ seen' = seen \cup Wanted'
    BY <1>4 DEF Watch
  <2>2. Wanted' \subseteq Node
    <3>1. Wanted' \subseteq files' /\ files' \subseteq Node
      BY DEF Wanted, TreeTypeOK, IsTree
    <3> QED BY <3>1
  <2>3. ScanSets'
    <3>1. stay \subseteq Node /\ seen \subseteq Node /\ GoodList(g_last_scan, seen)
      BY DEF ScanInv, ScanSets
    <3>2. GoodList(g_last_scan, seen')
      BY <2>1, <3>1 DEF GoodList
    <3> QED BY <1>1, <2>1, <2>2, <3>1, <3>2 DEF ScanSets
  <2>4. Once(root, stack, g_last_scan) /\ Tells(root, stack, g_last_scan, stay)
    BY <1>4 DEF ScanInv, ScanRuns, ScanTells
  <2>5. Tells(root, stack, g_last_scan, stay')
    BY <2>1, <2>4, Zenon DEF Tells
  <2> QED BY <1>1, <1>2, <1>4, <2>1, <2>3, <2>4, <2>5 DEF ScanInv, ScanRuns, ScanTells
<1> QED BY <1>3, <1>4

------------------------------------------------------------------------------
(***************************************************************************)
(* The theorems about the scan.                                            *)
(***************************************************************************)
DrivesInv == TreeTypeOK /\ PathsTypeOK /\ ScanInv

LEMMA DrivesStart ==
    ASSUME DrivesInit
    PROVE  DrivesInv
<1>1. TreeTypeOK
  <2>1. PICK t \in FirstTree : dirs = t[1] /\ files = t[2]
    BY Zenon DEF DrivesInit
  <2>2. IsTree(t[1], t[2])
    BY FirstTreeAssumption, Zenon
  <2> QED BY <2>1, <2>2 DEF TreeTypeOK
<1>2. PathsTypeOK
  <2> DEFINE start == <<"">>
  <2>1. start \in Seq(Name) \ {<<>>} /\ Len(start) = 1
    BY EmptyName, Single
  <2>2. cwd = [s \in Session |-> start] /\ astray = {}
    BY DEF DrivesInit, PathsInit
  <2> HIDE DEF start
  <2>3. cwd \in [Session -> Seq(Name) \ {<<>>}]
    BY <2>1, <2>2, Zenon
  <2>4. ASSUME NEW s \in Session PROVE Len(cwd[s]) <= PATH_MAX
    <3>1. cwd[s] = start
      BY <2>2, Zenon
    <3> QED BY <2>1, <3>1, Limit
  <2> QED BY <2>2, <2>3, <2>4 DEF PathsTypeOK
<1>3. /\ phase = "idle" /\ root = 0 /\ stack = <<>> /\ streams = 0
      /\ g_last_scan = [entries |-> <<>>, overflow |-> FALSE]
      /\ stay = {} /\ seen = {}
  BY DEF DrivesInit, BrowserInit
<1>4. ScanPlaces
  BY <1>3, NoCalls, RootNames DEF ScanPlaces
<1>5. ScanSets
  <2>1. Range(<<>>) = {} /\ IsInjective(<<>>) /\ <<>> \in Seq(Node)
    BY DEF Range, IsInjective
  <2>2. g_last_scan.entries = <<>> /\ g_last_scan.overflow = FALSE
        /\ g_last_scan \in [entries : Seq(Node), overflow : BOOLEAN]
    BY <1>3, <2>1
  <2>3. GoodList(g_last_scan, seen)
    BY <2>1, <2>2, NoCalls, RootNames DEF GoodList
  <2> QED BY <1>3, <2>3 DEF ScanSets
<1>6. ScanRuns /\ ScanTells
  BY <1>3 DEF ScanRuns, ScanTells
<1> QED BY <1>1, <1>2, <1>4, <1>5, <1>6 DEF ScanInv, DrivesInv

LEMMA DrivesStep ==
    ASSUME DrivesInv, [DrivesNext]_drivesVars
    PROVE  DrivesInv'
<1>1. TreeTypeOK /\ PathsTypeOK /\ ScanInv
  BY DEF DrivesInv
<1>2. CASE \E s \in Session : PathsReads(s) /\ UNCHANGED browserVars
  <2>1. UNCHANGED treeVars /\ PathsTypeOK' /\ UNCHANGED scanVars
    BY <1>1, <1>2, ReadsKeep DEF browserVars
  <2>2. TreeTypeOK'
    BY <1>1, <2>1 DEF treeVars, TreeTypeOK
  <2> QED BY <1>1, <2>1, <2>2, RestScan DEF DrivesInv
<1>3. CASE \E s \in Session : PathsWrites(s) /\ Watch
  <2>1. TreeTypeOK' /\ PathsTypeOK' /\ Watch
    BY <1>1, <1>3, WritesKeep
  <2> QED BY <1>1, <2>1, WatchScan DEF DrivesInv
<1>4. CASE Pull /\ Watch
  <2>1. TreeTypeOK' /\ PathsTypeOK' /\ Watch
    BY <1>1, <1>4, PullKeeps
  <2> QED BY <1>1, <2>1, WatchScan DEF DrivesInv
<1>5. CASE BrowserNext /\ UNCHANGED pathsVars
  <2>1. UNCHANGED treeVars
    BY <1>5 DEF BrowserNext, PkgBrowser_Refresh, ScanRoot, ScanOther, ScanDir, ScanPkg, ScanFull,
                ScanReturn, ScanDone, PageOpen, PageClose, PkgBrowser_InstallByPath
  <2>2. TreeTypeOK'
    BY <1>1, <2>1 DEF treeVars, TreeTypeOK
  <2>3. PathsTypeOK'
    BY <1>1, <1>5 DEF pathsVars, PathsTypeOK
  <2>4. CASE PkgBrowser_InstallByPath
    <3>1. UNCHANGED <<treeVars, scanVars>>
      BY <2>4 DEF PkgBrowser_InstallByPath
    <3> QED BY <1>1, <2>2, <2>3, <3>1, RestScan DEF DrivesInv
  <2>5. CASE PkgBrowser_Refresh \/ ScanRoot \/ ScanOther \/ ScanDir \/ ScanPkg
    BY <1>1, <2>2, <2>3, <2>5, RefreshScan, RootScan, OtherScan, DirScan, PkgScan DEF DrivesInv
  <2>6. CASE ScanFull \/ ScanReturn \/ ScanDone \/ PageOpen \/ PageClose
    BY <1>1, <2>2, <2>3, <2>6, FullScan, ReturnScan, DoneScan, PageScan DEF DrivesInv
  <2> QED BY <1>5, <2>4, <2>5, <2>6 DEF BrowserNext
<1>6. CASE UNCHANGED drivesVars
  <2>1. UNCHANGED <<treeVars, cwd, astray, scanVars>>
    BY <1>6 DEF drivesVars, pathsVars, browserVars
  <2>2. TreeTypeOK' /\ PathsTypeOK'
    BY <1>1, <2>1 DEF treeVars, TreeTypeOK, PathsTypeOK
  <2> QED BY <1>1, <2>1, <2>2, RestScan DEF DrivesInv
<1> QED BY <1>2, <1>3, <1>4, <1>5, <1>6 DEF DrivesNext

LEMMA DrivesAlways == DrivesSpec => []DrivesInv
BY DrivesStart, DrivesStep, PTL DEF DrivesSpec

\* What leads to a file or directory is always a directory, every cwd is a
\* path of at most PATH_MAX names, and the list of the scan stays within
\* PKG_MAX_RESULTS.
THEOREM DrivesTypeCorrect == DrivesSpec => []DrivesTypeOK
<1>1. DrivesInv => DrivesTypeOK
  <2> SUFFICES ASSUME DrivesInv PROVE DrivesTypeOK
      OBVIOUS
  <2>1. GoodList(g_last_scan, seen) /\ stay \subseteq Node /\ seen \subseteq Node /\ ScanPlaces
    BY DEF DrivesInv, ScanInv, ScanSets
  <2>2. Range(entries) \subseteq Node /\ Count <= PKG_MAX_RESULTS
    BY <2>1, ListNodes DEF GoodList, entries, Count
  <2> QED BY <2>1, <2>2 DEF DrivesInv, DrivesTypeOK, BrowserTypeOK, ScanPlaces
<1> QED BY <1>1, DrivesAlways, PTL

\* scan_dir_recursive closes what it opened on every way out of it, and never
\* has more than PKG_MAX_DEPTH + 1 directories open.
THEOREM EveryStreamReturned == DrivesSpec => []StreamsReturned
<1>1. DrivesInv => StreamsReturned
  <2> SUFFICES ASSUME DrivesInv PROVE StreamsReturned
      OBVIOUS
  <2>1. Calls(stack, root) /\ streams = Len(stack) /\ (phase # "scan" => stack = <<>>)
    BY DEF DrivesInv, ScanInv, ScanPlaces
  <2>2. Len(stack) <= PKG_MAX_DEPTH + 1
    BY <2>1 DEF Calls
  <2> QED BY <2>1, <2>2, NoCalls DEF StreamsReturned
<1> QED BY <1>1, DrivesAlways, PTL

\* The list of a scan is what was there, once each, and is whole unless it says
\* that it is not, however the FTP connections and the hands that pull out
\* drives change the tree under it.
THEOREM EveryScanFaithful == DrivesSpec => []ScanFaithful
<1>1. DrivesInv => ScanFaithful
  <2> SUFFICES ASSUME DrivesInv PROVE ScanFaithful
      OBVIOUS
  <2>1. GoodList(g_last_scan, seen) /\ ScanPlaces /\ ScanTells
    BY DEF DrivesInv, ScanInv, ScanSets
  <2>2. /\ IsInjective(entries) /\ Range(entries) \subseteq seen
        /\ g_last_scan.overflow = TRUE => Count = PKG_MAX_RESULTS
        /\ g_last_scan.overflow \in BOOLEAN
    BY <2>1, Zenon DEF GoodList, entries, Count
  <2>3. ASSUME phase \in {"open", "write"}
        PROVE  stay \subseteq Range(entries) \/ g_last_scan.overflow = TRUE
    <3>1. stack = <<>> /\ root = Len(Roots) /\ Tells(root, stack, g_last_scan, stay)
      BY <2>1, <2>3 DEF ScanPlaces, ScanTells
    <3>2. \A f : ~Out(root, stack, f)
      BY <3>1, NoCalls, RootNames DEF Out, Ahead
    <3> QED BY <3>1, <3>2 DEF Tells, entries
  <2> QED BY <2>2, <2>3, Zenon DEF ScanFaithful
<1> QED BY <1>1, DrivesAlways, PTL

------------------------------------------------------------------------------
(***************************************************************************)
(* The way of a path.                                                      *)
(***************************************************************************)
\* The nodes of a way, one by one.
LEMMA WaySteps ==
    ASSUME NEW d, NEW f, NEW path, Len(path) \in Nat
    PROVE  /\ Way(d, f, path)[0] = <<>>
           /\ \A i \in 1 .. Len(path) :
                Way(d, f, path)[i] = Enter(d, f, Way(d, f, path)[i - 1], path[i])
<1> DEFINE Is(k, g) ==
        g = [i \in 0 .. k |-> IF i = 0 THEN <<>> ELSE Enter(d, f, g[i - 1], path[i])]
           S == {k \in Nat : \E g : Is(k, g)}
           n == Len(path)
<1>1. 0 \in S
  <2> DEFINE g == [i \in 0 .. 0 |-> <<>>]
  <2>1. Is(0, g)
    OBVIOUS
  <2> QED BY <2>1
<1>2. ASSUME NEW k \in 1 .. n, k - 1 \in S PROVE k \in S
  <2>1. PICK g : Is(k - 1, g)
    BY <1>2
  <2> DEFINE h == [i \in 0 .. k |-> IF i = k THEN Enter(d, f, g[k - 1], path[k]) ELSE g[i]]
  <2>2. ASSUME NEW i \in 0 .. k
        PROVE  h[i] = IF i = 0 THEN <<>> ELSE Enter(d, f, h[i - 1], path[i])
    <3>1. CASE i = k
      BY <3>1
    <3>2. CASE i # k
      <4>1. i \in 0 .. k - 1 /\ h[i] = g[i] /\ (i # 0 => i - 1 \in 0 .. k /\ i - 1 # k)
        BY <3>2
      <4>2. g[i] = IF i = 0 THEN <<>> ELSE Enter(d, f, g[i - 1], path[i])
        BY <2>1, <4>1
      <4>3. i # 0 => h[i - 1] = g[i - 1]
        BY <4>1
      <4> QED BY <4>1, <4>2, <4>3
    <3> QED BY <3>1, <3>2
  <2>3. Is(k, h)
    <3>1. h = [i \in 0 .. k |-> h[i]]
      OBVIOUS
    <3> DEFINE body(i) == IF i = 0 THEN <<>> ELSE Enter(d, f, h[i - 1], path[i])
    <3>2. \A i \in 0 .. k : h[i] = body(i)
      BY <2>2
    <3> HIDE DEF h
    <3>3. h = [i \in 0 .. k |-> body(i)]
      <4> HIDE DEF body
      <4> QED BY <3>1, <3>2, Zenon
    <3> QED BY <3>3, Zenon
  <2>4. \E g1 : Is(k, g1)
    <3> HIDE DEF Is, h
    <3> QED BY <2>3
  <2> QED
    <3> HIDE DEF Is, h
    <3> QED BY <2>4
<1>3. n \in S
  <2> HIDE DEF S
  <2>1. 0 .. n \subseteq S
    BY <1>1, <1>2, Climb
  <2> QED BY <2>1
<1>4. PICK g : Is(n, g)
  BY <1>3
<1>5. Is(n, Way(d, f, path))
  BY <1>4, Zenon DEF Way
<1> HIDE DEF Is
<1>6. \A i \in 0 .. n : Way(d, f, path)[i] = IF i = 0 THEN <<>> ELSE Enter(d, f, Way(d, f, path)[i - 1], path[i])
  BY <1>5, Zenon DEF Is
<1> DEFINE w == Way(d, f, path)
<1> HIDE DEF w
<1>7. \A i \in 0 .. n : w[i] = IF i = 0 THEN <<>> ELSE Enter(d, f, w[i - 1], path[i])
  BY <1>6 DEF w
<1>8. w[0] = <<>> /\ \A i \in 1 .. n : w[i] = Enter(d, f, w[i - 1], path[i])
  BY <1>7
<1> QED BY <1>8 DEF w

\* Paths that start with the same names go the same way.
LEMMA WaySame ==
    ASSUME NEW d, NEW f, NEW p, NEW q, Len(p) \in Nat, Len(q) \in Nat, NEW n \in Nat,
           n <= Len(p), n <= Len(q), \A i \in 1 .. n : p[i] = q[i]
    PROVE  \A i \in 0 .. n : Way(d, f, p)[i] = Way(d, f, q)[i]
<1> DEFINE v == Way(d, f, p)
           w == Way(d, f, q)
           S == {i \in 0 .. n : v[i] = w[i]}
<1>1. /\ v[0] = <<>> /\ \A i \in 1 .. Len(p) : v[i] = Enter(d, f, v[i - 1], p[i])
      /\ w[0] = <<>> /\ \A i \in 1 .. Len(q) : w[i] = Enter(d, f, w[i - 1], q[i])
  BY WaySteps
<1> HIDE DEF v, w
<1>2. 0 \in S
  BY <1>1
<1>3. ASSUME NEW i \in 1 .. n, i - 1 \in S PROVE i \in S
  BY <1>1, <1>3
<1>4. 0 .. n \subseteq S
  <2> HIDE DEF S
  <2> QED BY <1>2, <1>3, Climb
<1> QED BY <1>4 DEF v, w

\* One more name.
LEMMA WayOn ==
    ASSUME NEW d, NEW f, NEW p \in Seq(Name), NEW q \in Seq(Name), Len(q) = Len(p) + 1,
           \A i \in 1 .. Len(p) : q[i] = p[i]
    PROVE  Way(d, f, q)[Len(q)] = Enter(d, f, Way(d, f, p)[Len(p)], q[Len(q)])
<1>1. Len(p) \in Nat /\ Len(q) \in Nat /\ Len(q) \in 1 .. Len(q) /\ Len(p) \in 0 .. Len(p)
      /\ Len(q) - 1 = Len(p) /\ Len(p) <= Len(q)
  BY Elements
<1>2. Way(d, f, q)[Len(q)] = Enter(d, f, Way(d, f, q)[Len(q) - 1], q[Len(q)])
  BY <1>1, WaySteps
<1>3. \A i \in 0 .. Len(p) : Way(d, f, p)[i] = Way(d, f, q)[i]
  BY <1>1, WaySame
<1> QED BY <1>1, <1>2, <1>3

\* The empty name between two slashes leads nowhere else, and a name to what is there.
LEMMA EnterEmpty ==
    ASSUME NEW d, NEW f, NEW m \in d
    PROVE  Enter(d, f, m, "") = m
<1>1. "" \in {"", "."} /\ "" # ".."
  OBVIOUS
<1> QED BY <1>1, Zenon DEF Enter, Dots

LEMMA EnterName ==
    ASSUME NEW d, NEW f, NEW m \in d, NEW c, c \notin Dots
    PROVE  Enter(d, f, m, c) = IF Append(m, c) \in d \cup f THEN Append(m, c) ELSE Nowhere
BY DEF Enter, Dots

LEMMA EnterNowhere ==
    ASSUME NEW d, NEW f, NEW m, m \notin d, NEW c
    PROVE  Enter(d, f, m, c) = Nowhere
BY DEF Enter

\* A slash at the front changes nothing.
LEMMA WaySlash ==
    ASSUME NEW d, NEW f, NEW p \in Seq(Name), NEW q \in Seq(Name), Len(q) = Len(p) + 1,
           Enter(d, f, <<>>, q[1]) = <<>>, \A i \in 1 .. Len(p) : q[i + 1] = p[i]
    PROVE  Way(d, f, q)[Len(q)] = Way(d, f, p)[Len(p)]
<1>1. Len(p) \in Nat /\ Len(q) \in Nat /\ 1 \in 1 .. Len(q)
  <2>1. Len(p) \in Nat /\ Len(q) \in Nat
    BY Elements
  <2> QED BY <2>1
<1> DEFINE v == Way(d, f, p)
           w == Way(d, f, q)
           n == Len(p)
           S == {i \in 0 .. n : w[i + 1] = v[i]}
<1>2. /\ v[0] = <<>> /\ \A i \in 1 .. n : v[i] = Enter(d, f, v[i - 1], p[i])
      /\ w[0] = <<>> /\ \A i \in 1 .. Len(q) : w[i] = Enter(d, f, w[i - 1], q[i])
  BY <1>1, WaySteps
<1> HIDE DEF v, w
<1>4. 0 \in S
  BY <1>1, <1>2
<1>5. ASSUME NEW i \in 1 .. n, i - 1 \in S PROVE i \in S
  <2>1. i + 1 \in 1 .. Len(q) /\ (i + 1) - 1 = i /\ i \in 0 .. n /\ (i - 1) + 1 = i
    BY <1>1
  <2>2. w[i + 1] = Enter(d, f, w[i], p[i])
    BY <1>2, <2>1
  <2>3. w[i] = v[i - 1]
    BY <1>5, <2>1
  <2> QED BY <1>2, <2>1, <2>2, <2>3
<1>6. 0 .. n \subseteq S
  <2> HIDE DEF S
  <2> QED BY <1>1, <1>4, <1>5, Climb
<1>7. w[n + 1] = v[n]
  BY <1>1, <1>6
<1> QED BY <1>7 DEF v, w

\* Who gets to a directory only passes directories.
LEMMA WayDirs ==
    ASSUME NEW d, NEW f, Nowhere \notin d, <<>> \in d, NEW p, Len(p) \in Nat,
           Way(d, f, p)[Len(p)] \in d
    PROVE  \A i \in 0 .. Len(p) : Way(d, f, p)[i] \in d
<1> DEFINE w == Way(d, f, p)
           n == Len(p)
           S == {i \in 0 .. n : w[n - i] \in d}
<1>1. \A i \in 1 .. n : w[i] = Enter(d, f, w[i - 1], p[i])
  BY WaySteps
<1>2. \A m, c : m \notin d => Enter(d, f, m, c) = Nowhere
  BY DEF Enter
<1> HIDE DEF w
<1>3. 0 \in S
  BY DEF w
<1>4. ASSUME NEW i \in 1 .. n, i - 1 \in S PROVE i \in S
  <2>1. n - i + 1 \in 1 .. n /\ n - i + 1 = n - (i - 1) /\ (n - i + 1) - 1 = n - i
    OBVIOUS
  <2>2. w[n - i + 1] = Enter(d, f, w[n - i], p[n - i + 1])
    BY <1>1, <2>1
  <2>3. w[n - i + 1] \in d
    BY <1>4, <2>1
  <2> QED BY <1>2, <2>2, <2>3
<1>5. 0 .. n \subseteq S
  <2> HIDE DEF S
  <2> QED BY <1>3, <1>4, Climb
<1>6. ASSUME NEW i \in 0 .. n PROVE w[i] \in d
  <2>1. n - i \in 0 .. n /\ n - (n - i) = i
    OBVIOUS
  <2> QED BY <1>5, <2>1
<1> QED BY <1>6 DEF w

\* A way stays what it is as long as the directories it passes stay.
LEMMA WayStays ==
    ASSUME NEW d, NEW f, NEW e, NEW g, Nowhere \notin d, NEW p, Len(p) \in Nat,
           \A i \in 0 .. Len(p) : Way(d, f, p)[i] \in d /\ Way(d, f, p)[i] \in e
    PROVE  \A i \in 0 .. Len(p) : Way(e, g, p)[i] = Way(d, f, p)[i]
<1> DEFINE v == Way(e, g, p)
           w == Way(d, f, p)
           n == Len(p)
           S == {i \in 0 .. n : v[i] = w[i]}
<1>1. /\ v[0] = <<>> /\ \A i \in 1 .. n : v[i] = Enter(e, g, v[i - 1], p[i])
      /\ w[0] = <<>> /\ \A i \in 1 .. n : w[i] = Enter(d, f, w[i - 1], p[i])
  BY WaySteps
<1>2. ASSUME NEW m, NEW c, m \in d, m \in e, Enter(d, f, m, c) \in d, Enter(d, f, m, c) \in e
      PROVE  Enter(e, g, m, c) = Enter(d, f, m, c)
  BY <1>2 DEF Enter, Dots
<1> HIDE DEF v, w
<1>3. 0 \in S
  BY <1>1
<1>4. ASSUME NEW i \in 1 .. n, i - 1 \in S PROVE i \in S
  <2>1. i - 1 \in 0 .. n /\ i \in 0 .. n
    OBVIOUS
  <2>2. w[i - 1] \in d /\ w[i - 1] \in e /\ w[i] \in d /\ w[i] \in e
    BY <2>1 DEF w
  <2>3. v[i] = Enter(e, g, w[i - 1], p[i]) /\ w[i] = Enter(d, f, w[i - 1], p[i])
    BY <1>1, <1>4
  <2>4. v[i] = w[i]
    BY <1>2, <2>2, <2>3
  <2> QED BY <2>1, <2>4
<1>5. 0 .. n \subseteq S
  <2> HIDE DEF S
  <2> QED BY <1>3, <1>4, Climb
<1> QED BY <1>5 DEF v, w

LEMMA LookupWay ==
    ASSUME TreeTypeOK, NEW path, Len(path) \in Nat, Lookup(path) \in dirs
    PROVE  /\ Len(path) <= PATH_MAX
           /\ Lookup(path) = Way(dirs, files, path)[Len(path)]
           /\ \A i \in 0 .. Len(path) : Way(dirs, files, path)[i] \in dirs
<1>1. Nowhere \notin dirs /\ <<>> \in dirs
  BY NodeNames, TreeNodes DEF TreeTypeOK
<1>2. Len(path) <= PATH_MAX
  BY LookupLength
<1>3. Lookup(path) = Way(dirs, files, path)[Len(path)]
  BY <1>2, Limit DEF Lookup, LookupIn
<1>4. Way(dirs, files, path)[Len(path)] \in dirs
  BY <1>3
<1>5. \A i \in 0 .. Len(path) : Way(dirs, files, path)[i] \in dirs
  BY <1>1, <1>4, WayDirs
<1> QED BY <1>2, <1>3, <1>5

\* The nodes of the way are what the prefixes of the path lead to.
LEMMA PassesWay ==
    ASSUME NEW path \in Seq(Name), Len(path) <= PATH_MAX, NEW i \in 1 .. Len(path)
    PROVE  Way(dirs, files, path)[i] \in Passes(path)
<1> DEFINE p == SubSeq(path, 1, i)
<1>1. Len(path) \in Nat
  BY Elements
<1>2. i \in 0 .. Len(path) /\ i \in Nat /\ i \in 0 .. i /\ i <= PATH_MAX /\ i <= Len(path)
  BY <1>1, Limit
<1>3. Len(p) = i /\ \A j \in 1 .. i : p[j] = path[j]
  BY <1>2, Cut
<1> HIDE DEF p
<1>4. Lookup(p) = Way(dirs, files, p)[i]
  BY <1>2, <1>3, Limit DEF Lookup, LookupIn
<1>5. \A j \in 0 .. i : Way(dirs, files, p)[j] = Way(dirs, files, path)[j]
  BY <1>1, <1>2, <1>3, WaySame
<1>6. Lookup(p) = Way(dirs, files, path)[i]
  BY <1>2, <1>4, <1>5
<1> QED BY <1>6, Zenon DEF Passes, p

------------------------------------------------------------------------------
(***************************************************************************)
(* The working directories.                                                *)
(***************************************************************************)
\* A path to a directory leads there as long as no directory on it is gone.
LEMMA StillLeads ==
    ASSUME TreeTypeOK, TreeTypeOK', NEW path \in Seq(Name), Lookup(path) \in dirs,
           NEW gone, dirs \ gone \subseteq dirs', Passes(path) \cap gone = {}
    PROVE  LookupIn(dirs', files', path) \in dirs'
<1>1. /\ Len(path) <= PATH_MAX /\ Len(path) \in Nat
      /\ Lookup(path) = Way(dirs, files, path)[Len(path)]
      /\ \A i \in 0 .. Len(path) : Way(dirs, files, path)[i] \in dirs
  BY LookupWay, Elements
<1>2. Nowhere \notin dirs
  BY NodeNames, TreeNodes DEF TreeTypeOK
<1>3. ASSUME NEW i \in 0 .. Len(path) PROVE Way(dirs, files, path)[i] \in dirs'
  <2>1. CASE i = 0
    <3>1. Way(dirs, files, path)[0] = <<>>
      BY <1>1, WaySteps
    <3>2. <<>> \in dirs'
      BY Zenon DEF TreeTypeOK, IsTree
    <3> QED BY <2>1, <3>1, <3>2
  <2>2. CASE i # 0
    <3>1. i \in 1 .. Len(path)
      BY <2>2
    <3>2. Way(dirs, files, path)[i] \in Passes(path)
      BY <1>1, <3>1, PassesWay
    <3> QED BY <1>1, <3>2
  <2> QED BY <2>1, <2>2
<1>4. \A i \in 0 .. Len(path) : Way(dirs', files', path)[i] = Way(dirs, files, path)[i]
  <2>1. Len(path) \in Nat
    BY <1>1
  <2>2. \A i \in 0 .. Len(path) : Way(dirs, files, path)[i] \in dirs /\ Way(dirs, files, path)[i] \in dirs'
    BY <1>1, <1>3
  <2> DEFINE d == dirs
             f == files
             e == dirs'
             g == files'
  <2>3. Nowhere \notin d /\ \A i \in 0 .. Len(path) : Way(d, f, path)[i] \in d /\ Way(d, f, path)[i] \in e
    BY <1>2, <2>2
  <2> HIDE DEF d, f, e, g
  <2>4. \A i \in 0 .. Len(path) : Way(e, g, path)[i] = Way(d, f, path)[i]
    BY <2>1, <2>3, WayStays
  <2> QED BY <2>4 DEF d, f, e, g
<1>5. LookupIn(dirs', files', path) = Way(dirs', files', path)[Len(path)]
  BY <1>1, Limit DEF LookupIn
<1> QED BY <1>1, <1>3, <1>4, <1>5

LEMMA CwdPaths ==
    ASSUME PathsTypeOK, NEW s \in Session
    PROVE  cwd[s] \in Seq(Name) /\ cwd[s] # <<>> /\ Len(cwd[s]) \in Nat /\ Len(cwd[s]) > 0
           /\ Len(cwd[s]) <= PATH_MAX /\ (Len(cwd[s]) = 1 \/ Len(cwd[s]) > 1)
<1>1. cwd[s] \in Seq(Name) \ {<<>>} /\ Len(cwd[s]) <= PATH_MAX
  BY PathsTypes
<1> DEFINE n == Len(cwd[s])
<1>2. n \in Nat /\ n > 0
  BY <1>1, Elements
<1> HIDE DEF n
<1>3. n = 1 \/ n > 1
  BY <1>2
<1> QED BY <1>1, <1>2, <1>3 DEF n

\* Others change the tree.
LEMMA TreeChanged ==
    ASSUME TreeTypeOK, TreeTypeOK', PathsTypeOK, CwdLeads, UNCHANGED cwd,
           NEW gone, dirs \ gone \subseteq dirs',
           \A s \in Session : s \notin astray' => s \notin astray /\ Passes(cwd[s]) \cap gone = {}
    PROVE  CwdLeads'
<1> SUFFICES ASSUME NEW s \in Session, s \notin astray'
             PROVE  LookupIn(dirs', files', cwd'[s]) \in dirs'
    BY DEF CwdLeads, Lookup
<1>1. Lookup(cwd[s]) \in dirs /\ cwd'[s] = cwd[s]
  BY Zenon DEF CwdLeads
<1>2. cwd[s] \in Seq(Name)
  BY CwdPaths
<1>3. Passes(cwd[s]) \cap gone = {}
  OBVIOUS
<1>4. LookupIn(dirs', files', cwd[s]) \in dirs'
  BY <1>1, <1>2, <1>3, StillLeads
<1> QED BY <1>1, <1>4

LEMMA WritesLead ==
    ASSUME TreeTypeOK, TreeTypeOK', PathsTypeOK, CwdLeads,
           (\E s \in Session : PathsWrites(s)) \/ Pull
    PROVE  CwdLeads'
<1>1. UNCHANGED cwd
  BY DEF PathsWrites, MKD, STOR, DELE, RMD, Pull, Follow
<1>2. CASE \E s \in Session : MKD(s) \/ STOR(s)
  <2>1. dirs \subseteq dirs' /\ astray' = astray
    BY <1>2 DEF MKD, STOR, MakeDir, MakeFile
  <2>2. dirs \ {} \subseteq dirs' /\ \A s \in Session : Passes(cwd[s]) \cap {} = {}
    BY <2>1
  <2> QED BY <1>1, <2>1, <2>2, TreeChanged
<1>3. CASE \E s \in Session : DELE(s) \/ RMD(s)
  <2>1. PICK n : (RemoveFile(n) \/ RemoveDir(n)) /\ Strays({n})
    BY <1>3, Zenon DEF DELE, RMD
  <2>2. dirs \ {n} \subseteq dirs'
    BY <2>1 DEF RemoveFile, RemoveDir
  <2>3. \A s \in Session : s \notin astray' => s \notin astray /\ Passes(cwd[s]) \cap {n} = {}
    BY <2>1 DEF Strays
  <2> QED BY <1>1, <2>2, <2>3, TreeChanged
<1>4. CASE Pull
  <2>1. PICK r : RemoveAll(r) /\ Strays(Below(r))
    BY <1>4, Zenon DEF Pull
  <2>2. dirs \ Below(r) \subseteq dirs'
    BY <2>1 DEF RemoveAll
  <2>3. \A s \in Session : s \notin astray' => s \notin astray /\ Passes(cwd[s]) \cap Below(r) = {}
    BY <2>1 DEF Strays
  <2> QED BY <1>1, <2>2, <2>3, TreeChanged
<1> QED BY <1>2, <1>3, <1>4, Zenon DEF PathsWrites

\* What CDUP cuts off.
LEMMA Parent ==
    ASSUME TreeTypeOK, NEW path \in Seq(Name), Len(path) > 1, Lookup(path) \in dirs
    PROVE  /\ Lookup(Front(path)) \in dirs
           /\ Lookup(path) = Enter(dirs, files, Lookup(Front(path)), Last(path))
<1>1. /\ Len(path) <= PATH_MAX /\ Len(path) \in Nat /\ path # <<>>
      /\ Lookup(path) = Way(dirs, files, path)[Len(path)]
  <2>1. Len(path) \in Nat
    BY Elements
  <2>2. path # <<>>
    BY NodeNames
  <2> QED BY <2>1, <2>2, LookupWay
<1> DEFINE p == Front(path)
<1>2. p \in Seq(Name) /\ Len(p) = Len(path) - 1 /\ \A j \in 1 .. Len(p) : path[j] = p[j]
  <2>1. p \in Seq(Name) /\ Len(p) = Len(path) - 1 /\ \A j \in 1 .. Len(path) - 1 : p[j] = path[j]
    BY <1>1, Shorten
  <2> HIDE DEF p
  <2> QED BY <2>1
<1> HIDE DEF p
<1>3. Len(path) = Len(p) + 1 /\ Len(p) <= PATH_MAX /\ Len(p) \in Nat
  BY <1>1, <1>2, Limit
<1>4. Way(dirs, files, path)[Len(path)] = Enter(dirs, files, Way(dirs, files, p)[Len(p)], path[Len(path)])
  BY <1>2, <1>3, WayOn
<1>5. Lookup(p) = Way(dirs, files, p)[Len(p)]
  BY <1>3, Limit DEF Lookup, LookupIn
<1>6. Lookup(path) = Enter(dirs, files, Lookup(p), path[Len(path)])
  BY <1>1, <1>4, <1>5
<1>7. Lookup(p) \in dirs
  <2>1. Nowhere \notin dirs
    BY NodeNames, TreeNodes DEF TreeTypeOK
  <2> QED BY <1>6, <2>1, EnterNowhere
<1> QED BY <1>6, <1>7 DEF p, Last

\* A path of one name.
LEMMA FirstName ==
    ASSUME NEW path \in Seq(Name), Len(path) = 1
    PROVE  Lookup(path) = Enter(dirs, files, <<>>, path[1])
<1>1. 1 \in 1 .. Len(path) /\ Len(path) \in Nat
  OBVIOUS
<1>2. Way(dirs, files, path)[1] = Enter(dirs, files, Way(dirs, files, path)[1 - 1], path[1])
      /\ Way(dirs, files, path)[0] = <<>>
  BY <1>1, WaySteps
<1>3. 1 - 1 = 0
  OBVIOUS
<1>4. Lookup(path) = Way(dirs, files, path)[1]
  BY Limit DEF Lookup, LookupIn
<1> QED BY <1>2, <1>3, <1>4

LEMMA RootPath ==
    ASSUME TreeTypeOK
    PROVE  Lookup(<<"">>) = <<>> /\ Lookup(<<"">>) \in dirs
<1> DEFINE p == <<"">>
<1>1. p \in Seq(Name) /\ Len(p) = 1
  BY EmptyName, Single
<1>2. p[1] = ""
  OBVIOUS
<1> HIDE DEF p
<1>3. <<>> \in dirs
  BY TreeNodes DEF TreeTypeOK
<1>4. Enter(dirs, files, <<>>, "") = <<>>
  BY <1>3, EnterEmpty
<1>5. Lookup(p) = <<>>
  BY <1>1, <1>2, <1>4, FirstName, Zenon
<1> QED BY <1>3, <1>5 DEF p

LEMMA ReadsLead ==
    ASSUME TreeTypeOK, PathsTypeOK, PathsTypeOK', CwdLeads, NEW s \in Session, PathsReads(s)
    PROVE  CwdLeads'
<1>1. UNCHANGED treeVars
  BY ReadsKeep
<1> SUFFICES ASSUME NEW t \in Session, t \notin astray'
             PROVE  Lookup(cwd'[t]) \in dirs
    BY <1>1 DEF CwdLeads, Lookup, treeVars
<1>2. cwd \in [Session -> Seq(Name) \ {<<>>}]
  BY PathsTypes
<1>3. CASE CWD(s)
  <2>1. PICK path \in Args(s) : Lookup(path) \in dirs /\ cwd' = [cwd EXCEPT ![s] = path]
    BY <1>3, Zenon DEF CWD
  <2>2. t # s => t \notin astray
    BY <1>3 DEF CWD
  <2>3. t # s => Lookup(cwd[t]) \in dirs
    BY <2>2 DEF CwdLeads
  <2>4. cwd'[t] = IF t = s THEN path ELSE cwd[t]
    BY <1>2, <2>1
  <2> QED BY <2>1, <2>3, <2>4
<1>4. CASE CDUP(s)
  <2>1. cwd' = [cwd EXCEPT ![s] = IF Len(cwd[s]) = 1 THEN <<"">> ELSE Front(cwd[s])]
        /\ UNCHANGED astray
    BY <1>4 DEF CDUP
  <2>2. Lookup(cwd[t]) \in dirs
    BY <2>1 DEF CwdLeads
  <2>3. cwd'[t] = IF t # s THEN cwd[t] ELSE IF Len(cwd[s]) = 1 THEN <<"">> ELSE Front(cwd[s])
    BY <1>2, <2>1
  <2>4. cwd[t] \in Seq(Name)
    BY CwdPaths
  <2>5. Len(cwd[t]) # 1 => Len(cwd[t]) > 1
    BY CwdPaths, Zenon
  <2>6. Len(cwd[t]) # 1 => Lookup(Front(cwd[t])) \in dirs
    BY <2>2, <2>4, <2>5, Parent
  <2>7. Lookup(<<"">>) \in dirs
    BY RootPath
  <2> QED BY <2>2, <2>3, <2>6, <2>7
<1>5. CASE ListPath(s) \/ ListRelative(s) \/ ListEntry(s) \/ ListEnd(s)
  <2>1. UNCHANGED <<cwd, astray>>
    BY <1>5 DEF ListPath, ListRelative, ListEntry, ListEnd
  <2> QED BY <2>1 DEF CwdLeads
<1> QED BY <1>3, <1>4, <1>5 DEF PathsReads

\* CDUP of a working directory that is there.
LEMMA CdupRises ==
    ASSUME TreeTypeOK, PathsTypeOK, CwdLeads, NEW s \in Session \ astray, CDUP(s)
    PROVE  /\ Last(cwd[s]) \notin Dots => Lookup(cwd'[s]) = Front(Lookup(cwd[s]))
           /\ cwd[s] = <<"">> => cwd'[s] = <<"">>
<1>1. cwd[s] \in Seq(Name) /\ Len(cwd[s]) \in Nat /\ Len(cwd[s]) > 0
  BY CwdPaths
<1>2. cwd'[s] = IF Len(cwd[s]) = 1 THEN <<"">> ELSE Front(cwd[s])
  <2>1. cwd \in [Session -> Seq(Name) \ {<<>>}]
    BY PathsTypes
  <2> QED BY <2>1 DEF CDUP
<1>3. Lookup(cwd[s]) \in dirs
  BY DEF CwdLeads
<1>4. cwd[s] = <<"">> => cwd'[s] = <<"">>
  <2>1. Len(<<"">>) = 1
    BY EmptyName, Single
  <2> QED BY <1>2, <2>1
<1>5. ASSUME Last(cwd[s]) \notin Dots PROVE Lookup(cwd'[s]) = Front(Lookup(cwd[s]))
  <2> DEFINE d == Lookup(cwd'[s])
             c == Last(cwd[s])
  <2>1. d \in dirs /\ Lookup(cwd[s]) = Enter(dirs, files, d, c)
    <3>1. CASE Len(cwd[s]) = 1
      <4>1. Lookup(cwd[s]) = Enter(dirs, files, <<>>, cwd[s][1])
        BY <1>1, <3>1, FirstName
      <4>2. cwd[s][1] = Last(cwd[s])
        BY <3>1 DEF Last
      <4>3. Lookup(cwd'[s]) = <<>> /\ Lookup(cwd'[s]) \in dirs
        BY <1>2, <3>1, RootPath
      <4> QED BY <4>1, <4>2, <4>3
    <3>2. CASE Len(cwd[s]) # 1
      <4>1. Len(cwd[s]) > 1
        BY <3>2, CwdPaths, Zenon
      <4> QED BY <1>1, <1>2, <1>3, <3>2, <4>1, Parent
    <3> QED BY <3>1, <3>2
  <2>2. c \in Name /\ d \in Seq(Name)
    <3>1. c \in Name
      BY <1>1 DEF Last
    <3>2. d \in Seq(Name)
      BY <2>1, TreeNodes DEF TreeTypeOK
    <3> QED BY <3>1, <3>2
  <2> HIDE DEF c, d
  <2>3. Enter(dirs, files, d, c) = Append(d, c)
    <3>1. Nowhere \notin dirs
      BY NodeNames, TreeNodes DEF TreeTypeOK
    <3>2. Enter(dirs, files, d, c) = IF Append(d, c) \in dirs \cup files THEN Append(d, c) ELSE Nowhere
      BY <1>5, <2>1, EnterName DEF c
    <3> QED BY <1>3, <2>1, <3>1, <3>2
  <2>4. Front(Append(d, c)) = d
    BY <2>2, FrontAppend
  <2> QED BY <2>1, <2>3, <2>4 DEF d
<1> QED BY <1>4, <1>5

------------------------------------------------------------------------------
(***************************************************************************)
(* What readdir and stat say.                                              *)
(***************************************************************************)
LEMMA NamesNamed ==
    ASSUME TreeTypeOK, NEW n
    PROVE  Names(n) \subseteq Name \ Dots
<1> SUFFICES ASSUME NEW k \in (dirs \cup files) \ {<<>>}
             PROVE  Last(k) \in Name \ Dots
    BY DEF Names
<1>1. k \in Node /\ k \in Seq(Name)
  BY TreeNodes DEF TreeTypeOK
<1>2. Len(k) \in DOMAIN k
  BY <1>1, Elements
<1>3. k[Len(k)] \notin {"", ".", ".."}
  BY <1>1, <1>2, TreeAssumption, Zenon
<1>4. k[Len(k)] \in Name
  BY <1>1, <1>2, Elements
<1> QED BY <1>3, <1>4, Zenon DEF Last, Dots

LEMMA NameThere ==
    ASSUME TreeTypeOK, NEW n, NEW e \in Names(n)
    PROVE  n \in dirs /\ Append(n, e) \in dirs \cup files
<1>1. PICK k \in (dirs \cup files) \ {<<>>} : Front(k) = n /\ Last(k) = e
  BY DEF Names
<1>2. k \in Seq(Name) /\ Len(k) \in Nat /\ Len(k) > 0
  <2>1. k \in Seq(Name)
    BY TreeNodes DEF TreeTypeOK
  <2> QED BY <2>1, Elements
<1>3. n \in Seq(Name) /\ Len(n) = Len(k) - 1 /\ \A j \in 1 .. Len(n) : n[j] = k[j]
  <2>1. n \in Seq(Name) /\ Len(n) = Len(k) - 1 /\ \A j \in 1 .. Len(k) - 1 : n[j] = k[j]
    BY <1>1, <1>2, Shorten, Zenon
  <2> QED BY <2>1
<1>4. Under(n, k) /\ Len(n) < Len(k)
  BY <1>2, <1>3 DEF Under
<1>5. n \in dirs
  BY <1>2, <1>3, <1>4, Ancestor
<1>6. e = k[Len(k)] /\ e \in Name
  BY <1>1, <1>2 DEF Last
<1> DEFINE m == Append(n, e)
<1>7. m \in Seq(Name) /\ Len(m) = Len(n) + 1 /\ (\A j \in 1 .. Len(n) : m[j] = n[j]) /\ m[Len(n) + 1] = e
  BY <1>3, <1>6, Extend
<1> HIDE DEF m
<1>8. Len(m) = Len(k) /\ \A j \in 1 .. Len(m) : k[j] = m[j]
  <2>1. Len(m) = Len(k) /\ Len(n) + 1 = Len(k) /\ Len(n) \in Nat
    BY <1>2, <1>3, <1>7
  <2>2. ASSUME NEW j \in 1 .. Len(m) PROVE k[j] = m[j]
    <3>1. CASE j = Len(k)
      BY <1>6, <1>7, <2>1, <3>1
    <3>2. CASE j # Len(k)
      <4>1. j \in 1 .. Len(n)
        BY <2>1, <3>2
      <4> QED BY <1>3, <1>7, <4>1
    <3> QED BY <3>1, <3>2
  <2> QED BY <2>1, <2>2
<1>9. m = k
  BY <1>2, <1>7, <1>8, SameElements
<1> QED BY <1>5, <1>9 DEF m

LEMMA ThereNamed ==
    ASSUME TreeTypeOK, NEW n \in dirs, NEW e \in Name, Append(n, e) \in dirs \cup files
    PROVE  e \in Names(n)
<1> DEFINE m == Append(n, e)
<1>1. n \in Seq(Name)
  BY TreeNodes DEF TreeTypeOK
<1>2. m \in Seq(Name) /\ Len(m) = Len(n) + 1 /\ m[Len(n) + 1] = e /\ Len(n) \in Nat
  BY <1>1, Extend, Elements
<1>3. Front(m) = n
  BY <1>1, FrontAppend
<1> HIDE DEF m
<1>4. Last(m) = e /\ Len(m) # 0
  BY <1>2 DEF Last
<1>5. m # <<>>
  BY <1>4, NodeNames
<1>6. m \in dirs \cup files
  BY DEF m
<1> QED BY <1>3, <1>4, <1>5, <1>6 DEF Names

\* at names what m names: LIST puts a slash before a relative path.
SameWay(at, m) ==
    \/ at = m
    \/ /\ Len(at) = Len(m) + 1 /\ at[1] = ""
       /\ \A i \in 1 .. Len(m) : at[i + 1] = m[i]

LEMMA SameLookup ==
    ASSUME TreeTypeOK, NEW at \in Seq(Name), NEW m \in Seq(Name), SameWay(at, m),
           Len(at) <= PATH_MAX
    PROVE  Lookup(at) = Lookup(m)
<1>1. CASE at = m
  BY <1>1
<1>2. CASE at # m
  <2>1. Len(at) = Len(m) + 1 /\ at[1] = "" /\ \A i \in 1 .. Len(m) : at[i + 1] = m[i]
    BY <1>2, Zenon DEF SameWay
  <2>2. <<>> \in dirs
    BY TreeNodes DEF TreeTypeOK
  <2>3. Enter(dirs, files, <<>>, "") = <<>>
    BY <2>2, EnterEmpty
  <2>4. Enter(dirs, files, <<>>, at[1]) = <<>>
    BY <2>1, <2>3, Zenon
  <2>5. Len(at) = Len(m) + 1 /\ \A i \in 1 .. Len(m) : at[i + 1] = m[i]
    BY <2>1, Zenon
  <2>6. Way(dirs, files, at)[Len(at)] = Way(dirs, files, m)[Len(m)]
    BY <2>4, <2>5, WaySlash
  <2>7. Len(m) \in Nat /\ Len(at) \in Nat
    BY Elements
  <2>8. Len(m) <= PATH_MAX
    BY <2>5, <2>7, Limit
  <2> QED BY <2>6, <2>7, <2>8, Limit DEF Lookup, LookupIn
<1> QED BY <1>1, <1>2

\* stat finds an entry where LIST looks exactly if the directory that was
\* asked for has it, as long as the path is not too long.
LEMMA EntryFound ==
    ASSUME TreeTypeOK, NEW at \in Seq(Name), NEW m \in Seq(Name), SameWay(at, m),
           NEW e \in Name, e \notin Dots
    PROVE  /\ Lookup(Append(at, e)) # Nowhere => e \in Names(Lookup(m))
           /\ Len(at) < PATH_MAX /\ e \in Names(Lookup(m)) => Lookup(Append(at, e)) # Nowhere
<1> DEFINE p == Append(at, e)
<1>1. /\ p \in Seq(Name) /\ Len(p) = Len(at) + 1 /\ \A j \in 1 .. Len(at) : p[j] = at[j]
      /\ p[Len(at) + 1] = e /\ Len(at) \in Nat
  BY Extend, Elements
<1> HIDE DEF p
<1>2. CASE ~(Len(at) < PATH_MAX)
  <2>1. Len(p) > PATH_MAX
    BY <1>1, <1>2, Limit
  <2>2. Lookup(p) = Nowhere
    BY <2>1 DEF Lookup, LookupIn
  <2> QED BY <1>2, <2>2 DEF p
<1>3. CASE Len(at) < PATH_MAX
  <2>1. Way(dirs, files, p)[Len(p)] = Enter(dirs, files, Way(dirs, files, at)[Len(at)], p[Len(p)])
    BY <1>1, WayOn
  <2>2. Lookup(p) = Way(dirs, files, p)[Len(p)] /\ Lookup(at) = Way(dirs, files, at)[Len(at)]
        /\ Len(at) <= PATH_MAX /\ p[Len(p)] = e
    BY <1>1, <1>3, Limit DEF Lookup, LookupIn
  <2>3. Lookup(at) = Lookup(m)
    BY <2>2, SameLookup
  <2> DEFINE n == Lookup(m)
  <2>4. Lookup(p) = Enter(dirs, files, n, e)
    BY <2>1, <2>2, <2>3
  <2> HIDE DEF n
  <2>5. n \in dirs => Lookup(p) = IF Append(n, e) \in dirs \cup files THEN Append(n, e) ELSE Nowhere
    BY <2>4, EnterName
  <2>6. n \notin dirs => Lookup(p) = Nowhere
    BY <2>4, EnterNowhere
  <2>7. Lookup(p) # Nowhere => e \in Names(n)
    BY <2>5, <2>6, ThereNamed
  <2>8. ASSUME e \in Names(n) PROVE Lookup(p) # Nowhere
    <3>1. n \in dirs /\ Append(n, e) \in dirs \cup files
      BY <2>8, NameThere
    <3>2. Nowhere \notin dirs \cup files
      BY NodeNames, TreeNodes DEF TreeTypeOK
    <3> QED BY <2>5, <3>1, <3>2
  <2> QED BY <2>7, <2>8 DEF n, p
<1> QED BY <1>2, <1>3

------------------------------------------------------------------------------
(***************************************************************************)
(* LIST.                                                                   *)
(***************************************************************************)
\* What a LIST of the directory m has done and what it may still do, when the
\* names in m are those of now: w, k and e are its whole, kept and met.
Told(l, m, w, k, e, now) ==
    /\ SameWay(l.at, m)
    /\ l.unread \cap Dots = {}
    /\ l.sent \subseteq e
    /\ k \subseteq now /\ now \subseteq e
    /\ w = TRUE => Len(l.at) < PATH_MAX /\ k \subseteq l.sent \cup l.unread

ListTypes ==
    /\ listing \in [Session -> [at : Seq(Name), unread : SUBSET Name, sent : SUBSET Name]]
    /\ meant \in [Session -> Seq(Name)] /\ whole \in [Session -> BOOLEAN]
    /\ kept = [s \in Session |-> kept[s]] /\ met = [s \in Session |-> met[s]]

ListsTold ==
    \A s \in Session : Listing(s) =>
        Told(listing[s], meant[s], whole[s], kept[s], met[s], Names(Lookup(meant[s])))

ListInv == ListTypes /\ ListsTold

LEMMA SameNames ==
    ASSUME UNCHANGED treeVars, NEW s \in Session, NEW m, meant'[s] = m
    PROVE  Names(Lookup(meant[s]))' = Names(Lookup(m))
<1>1. dirs' = dirs /\ files' = files
  BY DEF treeVars
<1> QED BY <1>1 DEF Names, Lookup

\* The tree changes while it runs.
LEMMA FollowTells ==
    ASSUME ListInv, Follow
    PROVE  ListInv'
<1>1. ListTypes /\ ListsTold /\ UNCHANGED <<listing, meant, whole>>
  BY DEF ListInv, Follow
<1>2. /\ kept' = [s \in Session |-> kept[s] \cap InMeant(s)']
      /\ met' = [s \in Session |-> met[s] \cup InMeant(s)']
  BY DEF Follow
<1>3. ListTypes'
  BY <1>1, <1>2 DEF ListTypes
<1>4. ASSUME NEW s \in Session, Listing(s)'
      PROVE  Told(listing'[s], meant'[s], whole'[s], kept'[s], met'[s], Names(Lookup(meant[s]))')
  <2>1. Listing(s)
    BY <1>1, <1>4 DEF Listing
  <2>2. Told(listing[s], meant[s], whole[s], kept[s], met[s], Names(Lookup(meant[s])))
    BY <1>1, <2>1 DEF ListsTold
  <2> DEFINE now == Names(Lookup(meant[s]))'
  <2>3. InMeant(s)' = now
    BY <1>4 DEF InMeant
  <2> HIDE DEF now
  <2>4. kept'[s] = kept[s] \cap now /\ met'[s] = met[s] \cup now
    BY <1>2, <2>3
  <2>5. Told(listing[s], meant[s], whole[s], kept'[s], met'[s], now)
    BY <2>2, <2>4 DEF Told
  <2>6. Told(listing'[s], meant'[s], whole'[s], kept'[s], met'[s], now)
    BY <1>1, <2>5
  <2> QED BY <2>6 DEF now
<1>5. ListsTold'
  BY <1>4 DEF ListsTold
<1> QED BY <1>3, <1>5 DEF ListInv

\* A step of one connection that leaves the tree as it is.
LEMMA OneTells ==
    ASSUME ListInv, UNCHANGED treeVars, ListTypes', NEW s \in Session,
           \A t \in Session \ {s} : /\ listing'[t] = listing[t] /\ meant'[t] = meant[t]
                                    /\ whole'[t] = whole[t] /\ kept'[t] = kept[t] /\ met'[t] = met[t],
           NEW m, meant'[s] = m,
           listing'[s] # NoList =>
               Told(listing'[s], m, whole'[s], kept'[s], met'[s], Names(Lookup(m)))
    PROVE  ListInv'
<1>1. ASSUME NEW t \in Session, listing'[t] # NoList
      PROVE  Told(listing'[t], meant'[t], whole'[t], kept'[t], met'[t], Names(Lookup(meant[t]))')
  <2>1. CASE t = s
    <3>1. Names(Lookup(meant[s]))' = Names(Lookup(m))
      BY SameNames
    <3>2. Told(listing'[s], meant'[s], whole'[s], kept'[s], met'[s], Names(Lookup(meant[s]))')
      BY <1>1, <2>1, <3>1
    <3> QED BY <2>1, <3>2
  <2>2. CASE t # s
    <3>1. /\ listing'[t] = listing[t] /\ meant'[t] = meant[t]
          /\ whole'[t] = whole[t] /\ kept'[t] = kept[t] /\ met'[t] = met[t]
      BY <2>2
    <3>2. Told(listing[t], meant[t], whole[t], kept[t], met[t], Names(Lookup(meant[t])))
      BY <1>1, <3>1 DEF ListInv, ListsTold, Listing
    <3> DEFINE was == meant[t]
    <3>3. meant'[t] = was
      BY <3>1
    <3> HIDE DEF was
    <3>4. Names(Lookup(meant[t]))' = Names(Lookup(was))
      BY <3>3, SameNames
    <3> QED BY <3>1, <3>2, <3>4 DEF was
  <2> QED BY <2>1, <2>2
<1> QED BY <1>1 DEF ListInv, ListsTold, Listing

LEMMA StartTells ==
    ASSUME ListInv, TreeTypeOK, UNCHANGED treeVars, NEW s \in Session,
           NEW opened, NEW at \in Seq(Name), NEW asked \in Seq(Name), SameWay(at, asked),
           Lists(s, opened, at, asked)
    PROVE  ListInv'
<1> DEFINE l == [at |-> at, unread |-> Names(Lookup(opened)), sent |-> {}]
           w == (Lookup(opened) = Lookup(asked) /\ Len(at) < PATH_MAX)
           now == Names(Lookup(asked))
<1>1. /\ listing' = [listing EXCEPT ![s] = l] /\ meant' = [meant EXCEPT ![s] = asked]
      /\ whole' = [whole EXCEPT ![s] = w] /\ kept' = [kept EXCEPT ![s] = now]
      /\ met' = [met EXCEPT ![s] = now]
  BY DEF Lists
<1>2. /\ listing \in [Session -> [at : Seq(Name), unread : SUBSET Name, sent : SUBSET Name]]
      /\ meant \in [Session -> Seq(Name)] /\ whole \in [Session -> BOOLEAN]
      /\ kept = [t \in Session |-> kept[t]] /\ met = [t \in Session |-> met[t]]
  BY DEF ListInv, ListTypes
<1>3. l \in [at : Seq(Name), unread : SUBSET Name, sent : SUBSET Name]
  <2>1. Names(Lookup(opened)) \subseteq Name
    BY NamesNamed
  <2> QED BY <2>1
<1>4. w \in BOOLEAN
  OBVIOUS
<1>5. Told(l, asked, w, now, now, now)
  <2>1. l.at = at /\ l.unread = Names(Lookup(opened)) /\ l.sent = {}
    OBVIOUS
  <2>2. Names(Lookup(opened)) \cap Dots = {}
    BY NamesNamed
  <2>3. w = TRUE => Len(at) < PATH_MAX /\ now = Names(Lookup(opened))
    OBVIOUS
  <2> HIDE DEF l, w, now
  <2> QED BY <2>1, <2>2, <2>3 DEF Told
<1> HIDE DEF l, w, now
<1>6. ListTypes'
  BY <1>1, <1>2, <1>3, <1>4 DEF ListTypes
<1>7. /\ listing'[s] = l /\ meant'[s] = asked /\ whole'[s] = w /\ kept'[s] = now /\ met'[s] = now
      /\ \A t \in Session \ {s} : /\ listing'[t] = listing[t] /\ meant'[t] = meant[t]
                                  /\ whole'[t] = whole[t] /\ kept'[t] = kept[t] /\ met'[t] = met[t]
  BY <1>1, <1>2
<1>8. Told(listing'[s], asked, whole'[s], kept'[s], met'[s], Names(Lookup(asked)))
  BY <1>5, <1>7 DEF now
<1> QED BY <1>6, <1>7, <1>8, OneTells

LEMMA PathTells ==
    ASSUME ListInv, TreeTypeOK, PathsTypeOK, NEW s \in Session, ListPath(s)
    PROVE  ListInv'
<1>1. PICK p \in Absolute \cup {cwd[s]} : Lists(s, p, p, p)
  BY Zenon DEF ListPath
<1>2. p \in Seq(Name)
  BY PathsAssumption, CwdPaths
<1>3. SameWay(p, p)
  BY Zenon DEF SameWay
<1>4. UNCHANGED treeVars
  BY DEF ListPath
<1> QED BY <1>1, <1>2, <1>3, <1>4, StartTells

LEMMA RelativeTells ==
    ASSUME ListInv, TreeTypeOK, PathsTypeOK, NEW s \in Session, ListRelative(s)
    PROVE  ListInv'
<1>1. PICK arg \in Relative : Lists(s, Process \o arg, <<"">> \o cwd[s] \o arg, cwd[s] \o arg)
  BY Zenon DEF ListRelative
<1> DEFINE slash == <<"">>
           at == slash \o cwd[s] \o arg
           asked == cwd[s] \o arg
<1>2. slash \in Seq(Name) /\ Len(slash) = 1
  BY EmptyName, Single
<1>3. slash[1] = ""
  OBVIOUS
<1>4. Lists(s, Process \o arg, at, asked)
  BY <1>1
<1> HIDE DEF slash
<1>5. arg \in Seq(Name) /\ cwd[s] \in Seq(Name)
  BY PathsAssumption, CwdPaths
<1>6. asked \in Seq(Name) /\ at \in Seq(Name) /\ Len(at) = Len(asked) + 1
      /\ at[1] = slash[1] /\ \A i \in 1 .. Len(asked) : at[i + 1] = asked[i]
  <2> DEFINE q == cwd[s]
  <2>1. q \in Seq(Name)
    BY <1>5
  <2> HIDE DEF q
  <2> DEFINE r == slash \o q
             u == q \o arg
             v == r \o arg
  <2>0. r = slash \o q /\ u = q \o arg /\ v = r \o arg /\ Len(slash) = 1 /\ arg \in Seq(Name)
    BY <1>2, <1>5
  <2> HIDE DEF r, u, v
  <2>2. /\ r \in Seq(Name) /\ Len(r) = 1 + Len(q) /\ Len(q) \in Nat
        /\ \A i \in 1 .. 1 : r[i] = slash[i]
        /\ \A i \in 1 .. Len(q) : r[1 + i] = q[i]
    <3>1. /\ r \in Seq(Name) /\ Len(r) = Len(slash) + Len(q) /\ Len(q) \in Nat
          /\ \A i \in 1 .. Len(slash) : r[i] = slash[i]
          /\ \A i \in 1 .. Len(q) : r[Len(slash) + i] = q[i]
      <4>1. r = slash \o q /\ slash \in Seq(Name)
        BY <1>2, <2>0
      <4> HIDE DEF slash
      <4> QED BY <2>1, <4>1, Concat
    <3> QED BY <2>0, <3>1
  <2>3. /\ u \in Seq(Name) /\ Len(u) = Len(q) + Len(arg) /\ Len(arg) \in Nat
        /\ \A i \in 1 .. Len(q) : u[i] = q[i]
        /\ \A i \in 1 .. Len(arg) : u[Len(q) + i] = arg[i]
    BY <2>1, <2>0, Concat
  <2>4. /\ v \in Seq(Name) /\ Len(v) = Len(r) + Len(arg)
        /\ \A i \in 1 .. Len(r) : v[i] = r[i]
        /\ \A i \in 1 .. Len(arg) : v[Len(r) + i] = arg[i]
    BY <2>2, <2>0, Concat, SMTT(30)
  <2>5. Len(v) = Len(u) + 1 /\ v[1] = slash[1]
    BY <2>2, <2>3, <2>4
  <2>6. ASSUME NEW i \in 1 .. Len(u) PROVE v[i + 1] = u[i]
    <3>1. CASE i \in 1 .. Len(q)
      <4>1. i + 1 \in 1 .. Len(r) /\ i + 1 = 1 + i
        BY <2>2, <3>1
      <4> QED BY <2>2, <2>3, <2>4, <3>1, <4>1
    <3>2. CASE i \notin 1 .. Len(q)
      <4> DEFINE j == i - Len(q)
      <4>1. j \in 1 .. Len(arg) /\ i = Len(q) + j /\ i + 1 = Len(r) + j
        BY <2>2, <2>3, <3>2
      <4> HIDE DEF j
      <4> QED BY <2>3, <2>4, <4>1
    <3> QED BY <3>1, <3>2
  <2> QED BY <2>3, <2>4, <2>5, <2>6 DEF u, v, r, q
<1> HIDE DEF at, asked
<1>7. SameWay(at, asked)
  <2>1. at[1] = ""
    BY <1>3, <1>6, Zenon
  <2> QED BY <1>6, <2>1, Zenon DEF SameWay
<1>8. UNCHANGED treeVars
  BY DEF ListRelative
<1> QED BY <1>4, <1>6, <1>7, <1>8, StartTells

LEMMA EntryTells ==
    ASSUME ListInv, TreeTypeOK, NEW s \in Session, ListEntry(s)
    PROVE  ListInv'
<1> DEFINE l == listing[s]
           m == meant[s]
<1>1. ListTypes /\ UNCHANGED <<treeVars, meant, kept, met>>
  BY DEF ListInv, ListEntry
<1>2. l \in [at : Seq(Name), unread : SUBSET Name, sent : SUBSET Name] /\ m \in Seq(Name)
      /\ whole[s] \in BOOLEAN
  BY <1>1 DEF ListTypes
<1> DEFINE there(e) == Lookup(Append(l.at, e)) # Nowhere
<1>3. PICK e \in l.unread : \E line \in SUBSET {e} :
        /\ ~there(e) => line = {}
        /\ listing' = [listing EXCEPT ![s].unread = @ \ {e}, ![s].sent = @ \cup line]
        /\ whole' = [whole EXCEPT ![s] = @ /\ (there(e) => line = {e})]
  BY DEF ListEntry
<1>4. PICK line \in SUBSET {e} :
        /\ ~there(e) => line = {}
        /\ listing' = [listing EXCEPT ![s].unread = @ \ {e}, ![s].sent = @ \cup line]
        /\ whole' = [whole EXCEPT ![s] = @ /\ (there(e) => line = {e})]
  BY <1>3
<1> HIDE DEF there
<1>5. Listing(s)
  <2>1. NoList.unread = {}
    BY DEF NoList
  <2> QED BY <1>4, <2>1 DEF Listing
<1>6. Told(l, m, whole[s], kept[s], met[s], Names(Lookup(m)))
  BY <1>5 DEF ListInv, ListsTold
<1> DEFINE gone == ~there(e)
           now == Names(Lookup(m))
           k == [at |-> l.at, unread |-> l.unread \ {e},
                 sent |-> l.sent \cup line]
<1>7. listing' = [listing EXCEPT ![s] = k]
  <2> DEFINE r == [l EXCEPT !.unread = @ \ {e}, !.sent = @ \cup line]
  <2>1. r = k
    <3> DEFINE a == l.unread \ {e}
               b == l.sent \cup line
               q == [l EXCEPT !.unread = a, !.sent = b]
               u == [at |-> l.at, unread |-> a, sent |-> b]
    <3>1. r = q /\ k = u
      OBVIOUS
    <3>2. /\ q.at = l.at /\ q.unread = a /\ q.sent = b
          /\ DOMAIN q = {"at", "unread", "sent"}
      BY <1>2
    <3>3. q = u
      <4> HIDE DEF a, b, l
      <4>1. DOMAIN u = {"at", "unread", "sent"} /\ u.at = l.at /\ u.unread = a /\ u.sent = b
        OBVIOUS
      <4>2. q = [x \in DOMAIN q |-> q[x]] /\ u = [x \in DOMAIN u |-> u[x]]
        BY <1>2
      <4> HIDE DEF q, u
      <4>3. \A x \in {"at", "unread", "sent"} : q[x] = u[x]
        BY <3>2, <4>1
      <4> QED BY <3>2, <4>1, <4>2, <4>3
    <3> QED BY <3>1, <3>3
  <2>2. listing' = [listing EXCEPT ![s] = r]
    BY <1>4
  <2> QED BY <2>1, <2>2
<1>8. e \in Name /\ e \notin Dots /\ l.at \in Seq(Name) /\ SameWay(l.at, m)
  BY <1>2, <1>4, <1>6 DEF Told
<1>9. (~gone => e \in now) /\ (Len(l.at) < PATH_MAX /\ e \in now => ~gone)
  BY <1>2, <1>8, EntryFound DEF there
<1>10. k \in [at : Seq(Name), unread : SUBSET Name, sent : SUBSET Name]
  BY <1>2, <1>8
<1>11. /\ l.sent \subseteq met[s] /\ l.unread \cap Dots = {} /\ kept[s] \subseteq now /\ now \subseteq met[s]
       /\ whole[s] = TRUE => Len(l.at) < PATH_MAX /\ kept[s] \subseteq l.sent \cup l.unread
  BY <1>6 DEF Told
<1>12. k.at = l.at /\ k.unread = l.unread \ {e} /\ k.sent = l.sent \cup line
  OBVIOUS
<1> HIDE DEF k, gone, now
<1>13. /\ whole' \in [Session -> BOOLEAN] /\ \A t \in Session \ {s} : whole'[t] = whole[t]
       /\ whole'[s] = TRUE => whole[s] = TRUE /\ (~gone => line = {e})
  <2> DEFINE told == (there(e) => line = {e})
             w == whole[s] /\ told
  <2>1. whole' = [whole EXCEPT ![s] = w]
    BY <1>4
  <2>2. w \in BOOLEAN /\ (w = TRUE => whole[s] = TRUE /\ told)
    BY <1>2
  <2>3. told => (~gone => line = {e})
    BY DEF gone
  <2> HIDE DEF w, told
  <2>4. whole'[s] = w /\ \A t \in Session \ {s} : whole'[t] = whole[t]
    BY <1>1, <2>1 DEF ListTypes
  <2>5. whole' \in [Session -> BOOLEAN]
    BY <1>1, <2>1, <2>2 DEF ListTypes
  <2> QED BY <2>2, <2>3, <2>4, <2>5
<1>14. line \subseteq {e} /\ (gone => line = {})
  BY <1>4 DEF gone
<1>15. Told(k, m, whole'[s], kept[s], met[s], now)
  <2>1. k.sent \subseteq met[s]
    BY <1>9, <1>11, <1>12, <1>14
  <2>2. whole'[s] = TRUE => Len(k.at) < PATH_MAX /\ kept[s] \subseteq k.sent \cup k.unread
    BY <1>9, <1>11, <1>12, <1>13, <1>14
  <2>3. SameWay(k.at, m) /\ k.unread \cap Dots = {}
    BY <1>8, <1>11, <1>12
  <2> QED BY <1>11, <2>1, <2>2, <2>3 DEF Told
<1>16. ListTypes'
  BY <1>1, <1>7, <1>10, <1>13 DEF ListTypes
<1>17. listing'[s] = k /\ \A t \in Session \ {s} : listing'[t] = listing[t]
  BY <1>1, <1>7 DEF ListTypes
<1>18. Told(listing'[s], m, whole'[s], kept'[s], met'[s], Names(Lookup(m)))
  BY <1>1, <1>15, <1>17 DEF now
<1>19. meant'[s] = m /\ UNCHANGED treeVars
       /\ \A t \in Session \ {s} : /\ listing'[t] = listing[t] /\ meant'[t] = meant[t]
                                   /\ whole'[t] = whole[t] /\ kept'[t] = kept[t] /\ met'[t] = met[t]
  BY <1>1, <1>17, <1>13
<1> HIDE DEF m
<1> QED BY <1>16, <1>18, <1>19, OneTells

LEMMA EndTells ==
    ASSUME ListInv, NEW s \in Session, ListEnd(s)
    PROVE  ListInv'
<1>1. ListTypes /\ UNCHANGED treeVars
  BY DEF ListInv, ListEnd
<1>2. /\ listing' = [listing EXCEPT ![s] = NoList]
      /\ meant' = [meant EXCEPT ![s] = <<>>] /\ whole' = [whole EXCEPT ![s] = FALSE]
      /\ kept' = [kept EXCEPT ![s] = {}] /\ met' = [met EXCEPT ![s] = {}]
  BY DEF ListEnd
<1>3. NoList \in [at : Seq(Name), unread : SUBSET Name, sent : SUBSET Name] /\ <<>> \in Seq(Name)
  BY DEF NoList
<1>4. ListTypes'
  BY <1>1, <1>2, <1>3 DEF ListTypes
<1>5. listing'[s] = NoList /\ meant'[s] = <<>>
      /\ \A t \in Session \ {s} : /\ listing'[t] = listing[t] /\ meant'[t] = meant[t]
                                  /\ whole'[t] = whole[t] /\ kept'[t] = kept[t] /\ met'[t] = met[t]
  BY <1>1, <1>2 DEF ListTypes
<1> QED BY <1>1, <1>4, <1>5, OneTells

LEMMA SameTells ==
    ASSUME ListInv, UNCHANGED <<treeVars, listVars>>
    PROVE  ListInv'
<1>1. UNCHANGED <<dirs, files, listing, meant, whole, kept, met>>
  BY DEF treeVars, listVars
<1>2. ListTypes'
  BY <1>1 DEF ListInv, ListTypes
<1>3. ListsTold'
  BY <1>1 DEF ListInv, ListsTold, Listing, Names, Lookup
<1> QED BY <1>2, <1>3 DEF ListInv

------------------------------------------------------------------------------
(***************************************************************************)
(* The theorems about the connections.                                     *)
(***************************************************************************)
PathsInv == DrivesInv /\ CwdLeads /\ ListInv

LEMMA PathsStart ==
    ASSUME DrivesInit
    PROVE  PathsInv
<1>1. DrivesInv
  BY DrivesStart
<1>2. CwdLeads
  <2>1. \A s \in Session : cwd[s] = <<"">>
    BY DEF DrivesInit, PathsInit
  <2>2. Lookup(<<"">>) \in dirs
    BY <1>1, RootPath DEF DrivesInv
  <2> QED BY <2>1, <2>2 DEF CwdLeads
<1>3. ListInv
  <2>1. /\ listing = [s \in Session |-> NoList]
        /\ meant = [s \in Session |-> <<>>] /\ whole = [s \in Session |-> FALSE]
        /\ kept = [s \in Session |-> {}] /\ met = [s \in Session |-> {}]
    BY DEF DrivesInit, PathsInit
  <2>2. NoList \in [at : Seq(Name), unread : SUBSET Name, sent : SUBSET Name] /\ <<>> \in Seq(Name)
    BY DEF NoList
  <2>3. ListTypes
    BY <2>1, <2>2 DEF ListTypes
  <2>4. ListsTold
    BY <2>1 DEF ListsTold, Listing
  <2> QED BY <2>3, <2>4 DEF ListInv
<1> QED BY <1>1, <1>2, <1>3 DEF PathsInv

LEMMA PathsStep ==
    ASSUME PathsInv, [DrivesNext]_drivesVars
    PROVE  PathsInv'
<1>1. DrivesInv' /\ TreeTypeOK' /\ PathsTypeOK' /\ TreeTypeOK /\ PathsTypeOK /\ CwdLeads /\ ListInv
  BY DrivesStep DEF PathsInv, DrivesInv
<1>2. CASE \E s \in Session : PathsReads(s) /\ UNCHANGED browserVars
  <2>1. PICK s \in Session : PathsReads(s)
    BY <1>2, Zenon
  <2>2. CwdLeads'
    BY <1>1, <2>1, ReadsLead
  <2>3. ListInv'
    <3>1. CASE CWD(s) \/ CDUP(s)
      <4>1. UNCHANGED <<treeVars, listVars>>
        BY <3>1 DEF CWD, CDUP
      <4> QED BY <1>1, <4>1, SameTells
    <3> QED BY <1>1, <2>1, <3>1, PathTells, RelativeTells, EntryTells, EndTells, Zenon DEF PathsReads
  <2> QED BY <1>1, <2>2, <2>3 DEF PathsInv
<1>3. CASE (\E s \in Session : PathsWrites(s) /\ Watch) \/ (Pull /\ Watch)
  <2>1. (\E s \in Session : PathsWrites(s)) \/ Pull
    BY <1>3, Zenon
  <2>2. Follow
    BY <2>1, Zenon DEF PathsWrites, MKD, STOR, DELE, RMD, Pull
  <2> QED BY <1>1, <2>1, <2>2, WritesLead, FollowTells DEF PathsInv
<1>4. CASE (BrowserNext /\ UNCHANGED pathsVars) \/ UNCHANGED drivesVars
  <2>1. UNCHANGED treeVars
    BY <1>4 DEF drivesVars, BrowserNext, PkgBrowser_Refresh, ScanRoot, ScanOther, ScanDir, ScanPkg,
                ScanFull, ScanReturn, ScanDone, PageOpen, PageClose, PkgBrowser_InstallByPath
  <2>2. UNCHANGED <<cwd, astray, listVars>>
    BY <1>4 DEF drivesVars, pathsVars
  <2>3. CwdLeads'
    BY <1>1, <2>1, <2>2 DEF CwdLeads, Lookup, treeVars
  <2>4. ListInv'
    BY <1>1, <2>1, <2>2, SameTells
  <2> QED BY <1>1, <2>3, <2>4 DEF PathsInv
<1> QED BY <1>2, <1>3, <1>4, Zenon DEF DrivesNext

LEMMA PathsAlways == DrivesSpec => []PathsInv
BY PathsStart, PathsStep, PTL DEF DrivesSpec

\* The working directory of a connection is a directory at all times until one
\* that it passes is removed, however CWD and CDUP are mixed and whatever dots
\* and slashes cwd has gathered, while the other connections and the hands that
\* pull out drives change the tree.
THEOREM EveryCwdLeads == DrivesSpec => []CwdLeads
<1>1. PathsInv => CwdLeads
  BY DEF PathsInv
<1> QED BY <1>1, PathsAlways, PTL

\* CDUP cuts cwd at its last slash and so leads to the parent of a directory
\* that was entered by its name, and from the root to the root.
THEOREM EveryCdupGoesUp == DrivesSpec => CdupGoesUp
<1> DEFINE Up == \A s \in Session \ astray : CDUP(s) =>
        /\ Last(cwd[s]) \notin Dots => Lookup(cwd'[s]) = Front(Lookup(cwd[s]))
        /\ cwd[s] = <<"">> => cwd'[s] = <<"">>
<1>1. PathsInv => Up
  BY CdupRises DEF PathsInv, DrivesInv
<1>2. PathsInv => [Up]_<<treeVars, pathsVars>>
  BY <1>1
<1> QED BY <1>2, PathsAlways, PTL DEF CdupGoesUp

\* What LIST sends was in the directory that the client asked for, and what
\* was there all the time is sent if that is the directory LIST opened, for
\* every tree and whatever others do to it while the directory is read.
THEOREM EveryListTells == DrivesSpec => []ListTells
<1>1. PathsInv => ListTells
  BY DEF PathsInv, ListInv, ListTypes, ListsTold, Told, ListTells
<1> QED BY <1>1, PathsAlways, PTL
=============================================================================

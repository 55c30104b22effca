--------------------------- MODULE IniFileProofs ---------------------------
(***************************************************************************)
(* Proofs about IniFile, for every set of sections, keys, values, texts    *)
(* and files.                                                              *)
(***************************************************************************)
EXTENDS IniFile, DataLemmas, TLAPS

------------------------------------------------------------------------------
(***************************************************************************)
(* The lists, by their parts.                                              *)
(***************************************************************************)
IniOf(h, ss) == [header_comments |-> h, sections |-> ss]

\* A section with other comments before it and other keys.
SecWith(sec, b, ks) ==
    [name |-> sec.name, comment |-> sec.comment, comments_before |-> b, keys |-> ks]

LEMMA BlankComment == Blank \in Comment
BY DEF Comment

LEMMA IniParts ==
    ASSUME NEW t \in INIFile
    PROVE  /\ t.header_comments \in Seq(Comment) /\ t.sections \in Seq(INISection)
           /\ t = IniOf(t.header_comments, t.sections)
BY DEF INIFile, IniOf

LEMMA IniType ==
    ASSUME NEW h \in Seq(Comment), NEW ss \in Seq(INISection)
    PROVE  /\ IniOf(h, ss) \in INIFile
           /\ IniOf(h, ss).header_comments = h /\ IniOf(h, ss).sections = ss
BY DEF INIFile, IniOf

LEMMA SecParts ==
    ASSUME NEW sec \in INISection
    PROVE  /\ sec.name \in Section /\ sec.comment \in Comment
           /\ sec.comments_before \in Seq(Comment) /\ sec.keys \in Seq(KeyValue)
           /\ sec = SecWith(sec, sec.comments_before, sec.keys)
BY DEF INISection, SecWith

LEMMA SecType ==
    ASSUME NEW sec \in INISection, NEW b \in Seq(Comment), NEW ks \in Seq(KeyValue)
    PROVE  /\ SecWith(sec, b, ks) \in INISection
           /\ SecWith(sec, b, ks).name = sec.name /\ SecWith(sec, b, ks).comment = sec.comment
           /\ SecWith(sec, b, ks).comments_before = b /\ SecWith(sec, b, ks).keys = ks
BY DEF INISection, SecWith

LEMMA NewSectionType ==
    ASSUME NEW s \in Section, NEW c \in Comment
    PROVE  /\ NewSection(s, c) \in INISection
           /\ NewSection(s, c).name = s /\ NewSection(s, c).comment = c
           /\ NewSection(s, c).comments_before = <<>> /\ NewSection(s, c).keys = <<>>
BY DEF INISection, NewSection

LEMMA NewKeyType ==
    ASSUME NEW k \in Key, NEW v \in Value, NEW c \in Comment, NEW b \in Seq(Comment)
    PROVE  /\ NewKey(k, v, c, b) \in KeyValue
           /\ NewKey(k, v, c, b).key = k /\ NewKey(k, v, c, b).value = v
           /\ NewKey(k, v, c, b).comment = c /\ NewKey(k, v, c, b).comments_before = b
BY DEF KeyValue, NewKey

LEMMA KeyParts ==
    ASSUME NEW kv \in KeyValue
    PROVE  /\ kv.key \in Key /\ kv.value \in Value /\ kv.comment \in Comment
           /\ kv.comments_before \in Seq(Comment)
           /\ kv = NewKey(kv.key, kv.value, kv.comment, kv.comments_before)
BY DEF KeyValue, NewKey

------------------------------------------------------------------------------
(***************************************************************************)
(* The steps of ini_load.                                                  *)
(***************************************************************************)
\* What is pending before the first section, and after it.
LEMMA PendingHeader ==
    ASSUME NEW h, NEW cs
    PROVE  /\ Pending(IniOf(h, <<>>)) = h
           /\ WithPending(IniOf(h, <<>>), cs) = IniOf(cs, <<>>)
BY DEF Pending, WithPending, IniOf

LEMMA PendingSection ==
    ASSUME NEW h, NEW ss \in Seq(INISection), ss # <<>>, NEW cs \in Seq(Comment)
    PROVE  /\ Pending(IniOf(h, ss)) = ss[1].comments_before
           /\ WithPending(IniOf(h, ss), cs) = IniOf(h, <<SecWith(ss[1], cs, ss[1].keys)>> \o Tail(ss))
<1> DEFINE t == IniOf(h, ss)
           p == [ss EXCEPT ![1].comments_before = cs]
           y == SecWith(ss[1], cs, ss[1].keys)
<1>1. t.sections = ss /\ t.header_comments = h
  BY DEF IniOf
<1>2. ss[1] \in INISection /\ 1 \in DOMAIN ss
  BY Elements
<1>3. Pending(t) = ss[1].comments_before
  BY <1>1 DEF Pending
<1>4. WithPending(t, cs) = IniOf(h, p)
  BY <1>1 DEF WithPending, IniOf
<1>5. Changed(p, ss, 1, y) /\ y \in INISection
  <2>1. [ss[1] EXCEPT !.comments_before = cs] = y
    BY <1>2 DEF INISection, SecWith
  <2>2. y \in INISection
    BY <1>2, SecParts, SecType
  <2> QED BY <2>1, <2>2 DEF Changed
<1> HIDE DEF p, y
<1>6. p = <<y>> \o Tail(ss)
  BY <1>5, FrontChanged
<1> QED BY <1>3, <1>4, <1>6 DEF y

LEMMA LineKinds ==
    ASSUME NEW t, NEW s, NEW k, NEW v, NEW c
    PROVE  /\ LoadLine(t, CommentLine(c)) = LoadComment(t, CommentLine(c))
           /\ LoadLine(t, SectionLine(s, c)) = LoadSection(t, SectionLine(s, c))
           /\ LoadLine(t, KeyLine(k, v, c)) = LoadKey(t, KeyLine(k, v, c))
<1>1. LoadLine(t, CommentLine(c)) = LoadComment(t, CommentLine(c))
  BY DEF LoadLine, CommentLine
<1>2. LoadLine(t, SectionLine(s, c)) = LoadSection(t, SectionLine(s, c))
  BY DEF LoadLine, SectionLine
<1>3. LoadLine(t, KeyLine(k, v, c)) = LoadKey(t, KeyLine(k, v, c))
  BY DEF LoadLine, KeyLine
<1> QED BY <1>1, <1>2, <1>3

LEMMA OtherKeys ==
    ASSUME NEW sec, NEW b, NEW ks, NEW kv
    PROVE  KeyInFront(SecWith(sec, b, ks), kv) = SecWith(sec, b, <<kv>> \o ks)
<1> DEFINE z == <<kv>> \o ks
           e == SecWith(sec, b, ks)
<1>1. e.keys = ks
  BY DEF SecWith
<1>2. KeyInFront(e, kv) = [e EXCEPT !.keys = z]
  <2> HIDE DEF e
  <2> QED BY <1>1 DEF KeyInFront
<1> HIDE DEF z
<1>3. [e EXCEPT !.keys = z] = SecWith(sec, b, z)
  BY DEF SecWith
<1> QED BY <1>2, <1>3 DEF z

\* Lines before the first section.
LEMMA LoadInHeader ==
    ASSUME NEW h \in Seq(Comment), NEW s, NEW k, NEW v, NEW c
    PROVE  /\ LoadLine(IniOf(h, <<>>), CommentLine(c)) = IniOf(Append(h, c), <<>>)
           /\ LoadLine(IniOf(h, <<>>), SectionLine(s, c)) = IniOf(<<>>, <<NewSection(s, c)>>)
           /\ LoadLine(IniOf(h, <<>>), KeyLine(k, v, c)) = IniOf(h, <<>>)
<1>1. LoadComment(IniOf(h, <<>>), CommentLine(c)) = IniOf(Append(h, c), <<>>)
  BY PendingHeader DEF LoadComment, CommentLine
<1>2. LoadSection(IniOf(h, <<>>), SectionLine(s, c)) = IniOf(<<>>, <<NewSection(s, c)>>)
  <2>1. LoadSection(IniOf(h, <<>>), SectionLine(s, c)) = InFront(IniOf(<<>>, <<>>), NewSection(s, c))
    BY PendingHeader DEF LoadSection, SectionLine
  <2>2. <<NewSection(s, c)>> \o <<>> = <<NewSection(s, c)>>
    OBVIOUS
  <2> QED BY <2>1, <2>2 DEF InFront, IniOf
<1>3. LoadKey(IniOf(h, <<>>), KeyLine(k, v, c)) = IniOf(h, <<>>)
  BY DEF LoadKey, IniOf
<1> QED BY <1>1, <1>2, <1>3, LineKinds

LEMMA SectionInHeader ==
    ASSUME NEW h \in Seq(Comment), NEW s, NEW c
    PROVE  LoadLine(IniOf(h, <<>>), SectionLine(s, c)) = IniOf(<<>>, <<NewSection(s, c)>>)
BY LoadInHeader

LEMMA KeyInHeader ==
    ASSUME NEW h \in Seq(Comment), NEW k, NEW v, NEW c
    PROVE  LoadLine(IniOf(h, <<>>), KeyLine(k, v, c)) = IniOf(h, <<>>)
<1>1. LoadKey(IniOf(h, <<>>), KeyLine(k, v, c)) = IniOf(h, <<>>)
  BY DEF LoadKey, IniOf
<1>2. LoadLine(IniOf(h, <<>>), KeyLine(k, v, c)) = LoadKey(IniOf(h, <<>>), KeyLine(k, v, c))
  BY DEF LoadLine, KeyLine
<1> QED BY <1>1, <1>2

\* Lines after it.
LEMMA LoadInSection ==
    ASSUME NEW h \in Seq(Comment), NEW ss \in Seq(INISection), ss # <<>>,
           NEW c \in Comment
    PROVE  /\ LoadLine(IniOf(h, ss), CommentLine(c)) =
                IniOf(h, <<SecWith(ss[1], Append(ss[1].comments_before, c), ss[1].keys)>> \o Tail(ss))
           /\ \A s \in Section : LoadLine(IniOf(h, ss), SectionLine(s, c)) =
                IniOf(h, <<NewSection(s, c)>> \o (<<SecWith(ss[1], <<>>, ss[1].keys)>> \o Tail(ss)))
           /\ \A k \in Key, v \in Value : LoadLine(IniOf(h, ss), KeyLine(k, v, c)) =
                IniOf(h, <<SecWith(ss[1], <<>>,
                            <<NewKey(k, v, c, ss[1].comments_before)>> \o ss[1].keys)>> \o Tail(ss))
<1> DEFINE t == IniOf(h, ss)
           e == SecWith(ss[1], <<>>, ss[1].keys)
           es == <<e>> \o Tail(ss)
<1>1. /\ ss[1] \in INISection /\ Tail(ss) \in Seq(INISection) /\ <<>> \in Seq(Comment)
      /\ ss[1].comments_before \in Seq(Comment) /\ ss[1].keys \in Seq(KeyValue)
  BY FrontAndRest, SecParts
<1>2. WithPending(t, <<>>) = IniOf(h, es) /\ Pending(t) = ss[1].comments_before
  BY <1>1, PendingSection
<1>3. LoadComment(t, CommentLine(c)) =
        IniOf(h, <<SecWith(ss[1], Append(ss[1].comments_before, c), ss[1].keys)>> \o Tail(ss))
  <2> DEFINE cs == Append(ss[1].comments_before, c)
  <2>1. cs \in Seq(Comment)
    BY <1>1
  <2>2. CommentLine(c).name = c
    BY DEF CommentLine
  <2>3. LoadComment(t, CommentLine(c)) = WithPending(t, cs)
    BY <1>2, <2>2 DEF LoadComment
  <2> HIDE DEF cs
  <2>4. WithPending(t, cs) = IniOf(h, <<SecWith(ss[1], cs, ss[1].keys)>> \o Tail(ss))
    BY <2>1, PendingSection
  <2> QED BY <2>3, <2>4 DEF cs
<1>4. ASSUME NEW s \in Section
      PROVE  LoadSection(t, SectionLine(s, c)) = IniOf(h, <<NewSection(s, c)>> \o es)
  <2>1. SectionLine(s, c).name = s /\ SectionLine(s, c).comment = c
    BY DEF SectionLine
  <2>2. LoadSection(t, SectionLine(s, c)) = InFront(IniOf(h, es), NewSection(s, c))
    BY <1>2, <2>1 DEF LoadSection
  <2> HIDE DEF es, t
  <2> QED BY <2>2 DEF InFront, IniOf
<1>5. ASSUME NEW k \in Key, NEW v \in Value
      PROVE  LoadKey(t, KeyLine(k, v, c)) =
        IniOf(h, <<SecWith(ss[1], <<>>, <<NewKey(k, v, c, ss[1].comments_before)>> \o ss[1].keys)>> \o Tail(ss))
  <2> DEFINE kv == NewKey(k, v, c, ss[1].comments_before)
             y == SecWith(ss[1], <<>>, <<kv>> \o ss[1].keys)
             p == [es EXCEPT ![1] = KeyInFront(@, kv)]
  <2>1. /\ KeyLine(k, v, c).name = k /\ KeyLine(k, v, c).value = v /\ KeyLine(k, v, c).comment = c
        /\ t.sections # <<>>
    BY DEF KeyLine, IniOf
  <2>2. e \in INISection /\ es \in Seq(INISection) /\ es # <<>> /\ es[1] = e
    <3>1. e \in INISection
      BY <1>1, SecType
    <3> HIDE DEF e
    <3> QED BY <1>1, <3>1, InFrontOf
  <2>3. LoadKey(t, KeyLine(k, v, c)) = [IniOf(h, es) EXCEPT !.sections[1] = KeyInFront(@, kv)]
    <3> HIDE DEF es, t
    <3> QED BY <1>2, <2>1 DEF LoadKey
  <2>4. [IniOf(h, es) EXCEPT !.sections[1] = KeyInFront(@, kv)] = IniOf(h, p)
    <3> HIDE DEF es, kv
    <3> QED BY DEF IniOf
  <2>5. KeyInFront(e, kv) = y
    BY OtherKeys
  <2>6. y \in INISection
    <3>1. kv \in KeyValue
      BY <1>1, NewKeyType
    <3> HIDE DEF kv
    <3>2. <<kv>> \o ss[1].keys \in Seq(KeyValue)
      BY <1>1, <3>1, InFrontOf
    <3> QED BY <1>1, <3>2, SecType
  <2>7. Changed(p, es, 1, y)
    <3> HIDE DEF y, e, es, kv
    <3> QED BY <2>2, <2>5 DEF Changed
  <2>8. p = <<y>> \o Tail(es)
    <3> HIDE DEF y, es, p
    <3> QED BY <2>2, <2>6, <2>7, FrontChanged
  <2>9. Tail(es) = Tail(ss)
    <3> HIDE DEF e
    <3> QED BY <1>1, <2>2, RestInFront
  <2> HIDE DEF p, es
  <2> QED BY <2>3, <2>4, <2>8, <2>9
<1> QED BY <1>3, <1>4, <1>5, LineKinds, SMTT(30)

------------------------------------------------------------------------------
(***************************************************************************)
(* The loop of ini_load.                                                   *)
(***************************************************************************)
LEMMA LoadingSteps ==
    ASSUME NEW t, NEW g, Len(g) \in Nat
    PROVE  /\ Loading(t, g)[0] = t
           /\ \A i \in 1 .. Len(g) : Loading(t, g)[i] = LoadLine(Loading(t, g)[i - 1], g[i])
<1> DEFINE n == Len(g)
           Is(m, a) == a = [i \in 0 .. m |-> IF i = 0 THEN t ELSE LoadLine(a[i - 1], g[i])]
           T == {m \in 0 .. n : \E a : Is(m, a)}
<1>1. 0 \in T
  <2> DEFINE a == [i \in 0 .. 0 |-> t]
  <2>1. Is(0, a)
    OBVIOUS
  <2> HIDE DEF a, Is
  <2> QED BY <2>1
<1>2. ASSUME NEW m \in 1 .. n, m - 1 \in T PROVE m \in T
  <2>1. PICK a : Is(m - 1, a)
    BY <1>2
  <2> DEFINE b == [i \in 0 .. m |-> IF i = m THEN LoadLine(a[m - 1], g[m]) ELSE a[i]]
  <2>2. ASSUME NEW i \in 0 .. m
        PROVE  b[i] = IF i = 0 THEN t ELSE LoadLine(b[i - 1], g[i])
    <3>1. i # 0 => i - 1 \in 0 .. m /\ i - 1 # m /\ b[i - 1] = a[i - 1]
      OBVIOUS
    <3>2. CASE i = m
      BY <3>1, <3>2
    <3>3. CASE i # m
      <4>1. i \in 0 .. m - 1 /\ b[i] = a[i]
        BY <3>3
      <4>2. a[i] = IF i = 0 THEN t ELSE LoadLine(a[i - 1], g[i])
        BY <2>1, <4>1
      <4> QED BY <3>1, <4>1, <4>2
    <3> QED BY <3>2, <3>3
  <2>3. b = [i \in 0 .. m |-> b[i]]
    OBVIOUS
  <2> HIDE DEF b
  <2>4. Is(m, b)
    <3> DEFINE body(i) == IF i = 0 THEN t ELSE LoadLine(b[i - 1], g[i])
    <3>1. \A i \in 0 .. m : b[i] = body(i)
      BY <2>2
    <3> HIDE DEF body
    <3>2. b = [i \in 0 .. m |-> body(i)]
      BY <2>3, <3>1, Zenon
    <3> QED BY <3>2, Zenon DEF body
  <2> HIDE DEF Is
  <2> QED BY <1>2, <2>4
<1>3. n \in T
  <2> HIDE DEF T
  <2>1. 0 .. n \subseteq T
    BY <1>1, <1>2, Climb
  <2> QED BY <2>1
<1>4. PICK a : Is(n, a)
  BY <1>3
<1>5. Is(n, Loading(t, g))
  BY <1>4, Zenon DEF Loading
<1> DEFINE w == Loading(t, g)
<1> HIDE DEF w
<1>6. w = [i \in 0 .. n |-> IF i = 0 THEN t ELSE LoadLine(w[i - 1], g[i])]
  BY <1>5 DEF w
<1>7. w[0] = t /\ \A i \in 1 .. n : w[i] = LoadLine(w[i - 1], g[i])
  BY <1>6
<1> QED BY <1>7 DEF w

\* Lines that are read one after the other.
Read(t, g) == Loading(t, g)[Len(g)]

Empty == IniOf(<<>>, <<>>)

LEMMA LoadedIsRead == ASSUME NEW file PROVE Loaded(file) = Read(Empty, file)
BY DEF Loaded, Read, Empty, IniOf

LEMMA ReadNothing == ASSUME NEW t PROVE Read(t, <<>>) = t
<1>1. Len(<<>>) = 0
  OBVIOUS
<1>2. Loading(t, <<>>)[0] = t
  BY <1>1, LoadingSteps
<1> QED BY <1>1, <1>2 DEF Read

\* What was read of the start of a file is what is read of a file that ends there.
LEMMA ReadStart ==
    ASSUME NEW t, NEW f, NEW g, Len(f) \in Nat, Len(g) \in Nat, Len(f) <= Len(g),
           \A i \in 1 .. Len(f) : f[i] = g[i]
    PROVE  Loading(t, g)[Len(f)] = Read(t, f)
<1> DEFINE a == Loading(t, f)
           b == Loading(t, g)
           n == Len(f)
           T == {i \in 0 .. n : a[i] = b[i]}
<1>1. /\ a[0] = t /\ \A i \in 1 .. n : a[i] = LoadLine(a[i - 1], f[i])
      /\ b[0] = t /\ \A i \in 1 .. Len(g) : b[i] = LoadLine(b[i - 1], g[i])
  BY LoadingSteps
<1> HIDE DEF a, b
<1>2. 0 \in T /\ \A i \in 1 .. n : i - 1 \in T => i \in T
  BY <1>1
<1>3. n \in T
  <2> HIDE DEF T
  <2>1. 0 .. n \subseteq T
    BY <1>2, Climb
  <2> QED BY <2>1
<1> QED BY <1>3 DEF a, b, Read

LEMMA ReadOver ==
    ASSUME NEW S, NEW t, NEW f \in Seq(S), NEW g \in Seq(S)
    PROVE  Read(t, f \o g) = Read(Read(t, f), g)
<1> DEFINE fg == f \o g
           n == Len(f)
           a == Loading(t, fg)
           b == Loading(Read(t, f), g)
           T == {i \in 0 .. Len(g) : a[n + i] = b[i]}
<1>1. /\ fg \in Seq(S) /\ Len(fg) = n + Len(g) /\ n \in Nat /\ Len(g) \in Nat
      /\ \A i \in 1 .. n : fg[i] = f[i]
      /\ \A i \in 1 .. Len(g) : fg[n + i] = g[i]
  <2>1. fg = f \o g
    OBVIOUS
  <2> HIDE DEF fg
  <2> QED BY <2>1, Concat
<1> HIDE DEF fg
<1>2. a[n] = Read(t, f)
  BY <1>1, ReadStart
<1>3. /\ \A i \in 1 .. Len(fg) : a[i] = LoadLine(a[i - 1], fg[i])
      /\ b[0] = Read(t, f) /\ \A i \in 1 .. Len(g) : b[i] = LoadLine(b[i - 1], g[i])
  <2>1. Len(fg) \in Nat
    BY <1>1
  <2>2. \A i \in 1 .. Len(fg) : a[i] = LoadLine(a[i - 1], fg[i])
    BY <2>1, LoadingSteps
  <2>3. b[0] = Read(t, f) /\ \A i \in 1 .. Len(g) : b[i] = LoadLine(b[i - 1], g[i])
    BY <1>1, LoadingSteps
  <2> QED BY <2>2, <2>3
<1> HIDE DEF a, b, n
<1>4. 0 \in T
  BY <1>1, <1>2, <1>3
<1>5. ASSUME NEW i \in 1 .. Len(g), i - 1 \in T PROVE i \in T
  <2> DEFINE j == n + i
             k == j - 1
  <2>1. j \in 1 .. Len(fg) /\ k = n + (i - 1) /\ fg[j] = g[i]
    BY <1>1
  <2>2. a[j] = LoadLine(a[k], fg[j])
    BY <1>3, <2>1
  <2> HIDE DEF k
  <2>3. a[n + i] = LoadLine(a[n + (i - 1)], g[i])
    BY <2>1, <2>2
  <2>4. a[n + (i - 1)] = b[i - 1]
    BY <1>5
  <2> QED BY <1>3, <1>5, <2>3, <2>4
<1>6. Len(g) \in T
  <2> HIDE DEF T
  <2>1. 0 .. Len(g) \subseteq T
    BY <1>1, <1>4, <1>5, Climb
  <2> QED BY <1>1, <2>1
<1> QED BY <1>1, <1>6 DEF a, b, n, fg, Read

LEMMA ReadLine ==
    ASSUME NEW S, NEW t, NEW g \in Seq(S), NEW l \in S
    PROVE  Read(t, Append(g, l)) = LoadLine(Read(t, g), l)
<1> DEFINE h == Append(g, l)
<1>1. /\ h \in Seq(S) /\ Len(h) = Len(g) + 1 /\ Len(g) \in Nat
      /\ \A i \in 1 .. Len(g) : g[i] = h[i]
      /\ h[Len(g) + 1] = l
  BY Extend, Elements
<1> HIDE DEF h
<1>2. Loading(t, h)[Len(g)] = Read(t, g)
  BY <1>1, ReadStart
<1>3. Len(h) \in 1 .. Len(h) /\ Len(h) - 1 = Len(g) /\ h[Len(h)] = l /\ Len(h) \in Nat
  BY <1>1
<1>4. Loading(t, h)[Len(h)] = LoadLine(Loading(t, h)[Len(h) - 1], h[Len(h)])
  BY <1>3, LoadingSteps
<1> QED BY <1>2, <1>3, <1>4 DEF Read, h

------------------------------------------------------------------------------
(***************************************************************************)
(* What is read of what ini_save writes.                                   *)
(***************************************************************************)
\* Within section sec: b is pending, ks are its keys so far, d the sections
\* before it.
Within(h, sec, b, ks, d) == IniOf(h, <<SecWith(sec, b, ks)>> \o d)

KeysWithin(h, sec, b, ks, d, c) ==
    \A k \in Key, v \in Value : LoadLine(Within(h, sec, b, ks, d), KeyLine(k, v, c)) =
        Within(h, sec, <<>>, <<NewKey(k, v, c, b)>> \o ks, d)

LEMMA LoadWithin ==
    ASSUME NEW h \in Seq(Comment), NEW sec \in INISection, NEW b \in Seq(Comment),
           NEW ks \in Seq(KeyValue), NEW d \in Seq(INISection),
           NEW c \in Comment
    PROVE  /\ LoadLine(Within(h, sec, b, ks, d), CommentLine(c)) = Within(h, sec, Append(b, c), ks, d)
           /\ \A s \in Section : LoadLine(Within(h, sec, b, ks, d), SectionLine(s, c)) =
                IniOf(h, <<NewSection(s, c)>> \o (<<SecWith(sec, <<>>, ks)>> \o d))
           /\ KeysWithin(h, sec, b, ks, d, c)
<1> DEFINE e == SecWith(sec, b, ks)
           ss == <<e>> \o d
<1>1. e \in INISection /\ e.name = sec.name /\ e.comment = sec.comment /\ e.comments_before = b /\ e.keys = ks
  BY SecType
<1>2. \A p, q : SecWith(e, p, q) = SecWith(sec, p, q)
  BY <1>1 DEF SecWith
<1>3. Within(h, sec, b, ks, d) = IniOf(h, ss)
  BY DEF Within
<1> HIDE DEF e
<1>4. ss \in Seq(INISection) /\ ss # <<>> /\ ss[1] = e
  BY <1>1, InFrontOf
<1>5. Tail(ss) = d
  BY <1>1, RestInFront
<1> HIDE DEF ss
<1>6. /\ LoadLine(IniOf(h, ss), CommentLine(c)) =
                IniOf(h, <<SecWith(ss[1], Append(ss[1].comments_before, c), ss[1].keys)>> \o Tail(ss))
      /\ \A s \in Section : LoadLine(IniOf(h, ss), SectionLine(s, c)) =
                IniOf(h, <<NewSection(s, c)>> \o (<<SecWith(ss[1], <<>>, ss[1].keys)>> \o Tail(ss)))
      /\ \A k \in Key, v \in Value : LoadLine(IniOf(h, ss), KeyLine(k, v, c)) =
                IniOf(h, <<SecWith(ss[1], <<>>,
                            <<NewKey(k, v, c, ss[1].comments_before)>> \o ss[1].keys)>> \o Tail(ss))
  BY <1>4, LoadInSection
<1>7. LoadLine(IniOf(h, ss), CommentLine(c)) = Within(h, sec, Append(b, c), ks, d)
  BY <1>1, <1>2, <1>4, <1>5, <1>6, Zenon DEF Within
<1>8. \A s \in Section : LoadLine(IniOf(h, ss), SectionLine(s, c)) = IniOf(h, <<NewSection(s, c)>> \o (<<SecWith(sec, <<>>, ks)>> \o d))
  BY <1>1, <1>2, <1>4, <1>5, <1>6, Zenon
<1>9. \A k \in Key, v \in Value : LoadLine(IniOf(h, ss), KeyLine(k, v, c)) = Within(h, sec, <<>>, <<NewKey(k, v, c, b)>> \o ks, d)
  BY <1>1, <1>2, <1>4, <1>5, <1>6, Zenon DEF Within
<1> QED BY <1>3, <1>7, <1>8, <1>9 DEF KeysWithin

LEMMA CommentWithin ==
    ASSUME NEW h \in Seq(Comment), NEW sec \in INISection, NEW b \in Seq(Comment),
           NEW ks \in Seq(KeyValue), NEW d \in Seq(INISection), NEW c \in Comment
    PROVE  LoadLine(Within(h, sec, b, ks, d), CommentLine(c)) = Within(h, sec, Append(b, c), ks, d)
BY LoadWithin, ZenonT(30)

LEMMA SectionWithin ==
    ASSUME NEW h \in Seq(Comment), NEW sec \in INISection, NEW b \in Seq(Comment),
           NEW ks \in Seq(KeyValue), NEW d \in Seq(INISection), NEW s \in Section, NEW c \in Comment
    PROVE  LoadLine(Within(h, sec, b, ks, d), SectionLine(s, c)) =
                IniOf(h, <<NewSection(s, c)>> \o (<<SecWith(sec, <<>>, ks)>> \o d))
BY LoadWithin

LEMMA KeyWithin ==
    ASSUME NEW h \in Seq(Comment), NEW sec \in INISection, NEW b \in Seq(Comment),
           NEW ks \in Seq(KeyValue), NEW d \in Seq(INISection),
           NEW k \in Key, NEW v \in Value, NEW c \in Comment
    PROVE  LoadLine(Within(h, sec, b, ks, d), KeyLine(k, v, c)) =
                Within(h, sec, <<>>, <<NewKey(k, v, c, b)>> \o ks, d)
<1>1. KeysWithin(h, sec, b, ks, d, c)
  BY LoadWithin
<1> QED BY <1>1 DEF KeysWithin

LEMMA CommentsAre ==
    ASSUME NEW cs \in Seq(Comment)
    PROVE  /\ Comments(cs) \in Seq(Line) /\ Len(Comments(cs)) = Len(cs) /\ Len(cs) \in Nat
           /\ \A i \in 1 .. Len(cs) : cs[i] \in Comment /\ Comments(cs)[i] = CommentLine(cs[i])
<1> DEFINE r == Comments(cs)
<1>1. Len(cs) \in Nat /\ DOMAIN cs = 1 .. Len(cs) /\ \A i \in 1 .. Len(cs) : cs[i] \in Comment
  BY Elements
<1>2. r = [i \in 1 .. Len(cs) |-> CommentLine(cs[i])]
  BY <1>1 DEF Comments
<1>3. \A i \in 1 .. Len(cs) : r[i] = CommentLine(cs[i]) /\ r[i] \in Line
  BY <1>1, <1>2 DEF Line
<1>4. r \in [1 .. Len(cs) -> Line] /\ DOMAIN r = 1 .. Len(cs)
  BY <1>2, <1>3
<1> HIDE DEF r
<1>5. r \in Seq(Line) /\ Len(r) = Len(cs)
  BY <1>1, <1>4
<1> QED BY <1>1, <1>3, <1>5 DEF r

LEMMA ReadHeader ==
    ASSUME NEW h \in Seq(Comment), NEW cs \in Seq(Comment)
    PROVE  Read(IniOf(h, <<>>), Comments(cs)) = IniOf(h \o cs, <<>>)
<1> DEFINE g == Comments(cs)
           u == IniOf(h, <<>>)
           w == Loading(u, g)
           n == Len(cs)
           hs(i) == h \o SubSeq(cs, 1, i)
           T == {i \in 0 .. n : w[i] = IniOf(hs(i), <<>>)}
<1>1. Len(g) = n /\ n \in Nat /\ \A i \in 1 .. n : cs[i] \in Comment /\ g[i] = CommentLine(cs[i])
  BY CommentsAre
<1>2. hs(n) = h \o cs /\ hs(0) = h
  BY ConcatWhole
<1>3. \A i \in 1 .. n : hs(i) = Append(hs(i - 1), cs[i]) /\ hs(i - 1) \in Seq(Comment)
  BY ConcatMore
<1> HIDE DEF g, n, hs
<1>4. w[0] = u /\ \A i \in 1 .. n : w[i] = LoadLine(w[i - 1], g[i])
  BY <1>1, LoadingSteps
<1> HIDE DEF w
<1>5. 0 \in T
  BY <1>1, <1>2, <1>4
<1>6. ASSUME NEW i \in 1 .. n, i - 1 \in T PROVE i \in T
  <2>1. LoadLine(IniOf(hs(i - 1), <<>>), CommentLine(cs[i])) = IniOf(Append(hs(i - 1), cs[i]), <<>>)
    BY <1>3, LoadInHeader
  <2>2. w[i] = IniOf(hs(i), <<>>)
    BY <1>1, <1>3, <1>4, <1>6, <2>1
  <2> QED BY <2>2
<1>7. n \in T
  <2> HIDE DEF T
  <2>1. 0 .. n \subseteq T
    BY <1>1, <1>5, <1>6, Climb
  <2> QED BY <1>1, <2>1
<1> QED BY <1>1, <1>2, <1>7 DEF w, g, Read

LEMMA ReadComments ==
    ASSUME NEW h \in Seq(Comment), NEW sec \in INISection, NEW b \in Seq(Comment),
           NEW ks \in Seq(KeyValue), NEW d \in Seq(INISection), NEW cs \in Seq(Comment)
    PROVE  Read(Within(h, sec, b, ks, d), Comments(cs)) = Within(h, sec, b \o cs, ks, d)
<1> DEFINE g == Comments(cs)
           u == Within(h, sec, b, ks, d)
           w == Loading(u, g)
           n == Len(cs)
           bs(i) == b \o SubSeq(cs, 1, i)
           T == {i \in 0 .. n : w[i] = Within(h, sec, bs(i), ks, d)}
<1>1. Len(g) = n /\ n \in Nat /\ \A i \in 1 .. n : cs[i] \in Comment /\ g[i] = CommentLine(cs[i])
  BY CommentsAre
<1>2. bs(n) = b \o cs /\ bs(0) = b
  BY ConcatWhole
<1>3. \A i \in 1 .. n : bs(i) = Append(bs(i - 1), cs[i]) /\ bs(i - 1) \in Seq(Comment)
  BY ConcatMore
<1> HIDE DEF g, n, bs, u, w
<1>4. w[0] = u /\ \A i \in 1 .. n : w[i] = LoadLine(w[i - 1], g[i])
  <2>1. Len(g) \in Nat
    BY <1>1
  <2>2. Loading(u, g)[0] = u /\ \A i \in 1 .. Len(g) : Loading(u, g)[i] = LoadLine(Loading(u, g)[i - 1], g[i])
    BY <2>1, LoadingSteps
  <2> QED BY <1>1, <2>2 DEF w
<1>5. 0 \in T
  BY <1>1, <1>2, <1>4 DEF u
<1>6. ASSUME NEW i \in 1 .. n, i - 1 \in T PROVE i \in T
  <2> DEFINE x == bs(i - 1)
             c == cs[i]
  <2>1. LoadLine(Within(h, sec, x, ks, d), CommentLine(c)) = Within(h, sec, Append(x, c), ks, d)
    <3>1. x \in Seq(Comment) /\ c \in Comment
      BY <1>1, <1>3
    <3> HIDE DEF x, c
    <3> QED BY <3>1, CommentWithin
  <2>2. w[i] = Within(h, sec, bs(i), ks, d)
    BY <1>1, <1>3, <1>4, <1>6, <2>1
  <2> QED BY <2>2
<1>7. n \in T
  <2> HIDE DEF T
  <2>1. 0 .. n \subseteq T
    BY <1>1, <1>5, <1>6, Climb
  <2> QED BY <1>1, <2>1
<1> QED BY <1>1, <1>2, <1>7 DEF w, g, u, Read


LEMMA ReadOne ==
    ASSUME NEW S, NEW t, NEW l \in S
    PROVE  Read(t, <<l>>) = LoadLine(t, l)
<1> DEFINE e == <<>>
<1>1. e \in Seq(S)
  OBVIOUS
<1>2. Append(e, l) = <<l>> /\ Read(t, e) = t
  BY ReadNothing
<1> HIDE DEF e
<1>3. Read(t, Append(e, l)) = LoadLine(Read(t, e), l)
  BY <1>1, ReadLine
<1> QED BY <1>2, <1>3

\* Pieces that are read one after the other: r says what is there after each.
ReadsInto(r, t, seqs) ==
    /\ r[0] = t
    /\ \A i \in 1 .. Len(seqs) : Read(r[i - 1], seqs[i]) = r[i]

LEMMA ReadFlat ==
    ASSUME NEW S, NEW seqs \in Seq(Seq(S)), NEW t, NEW r, ReadsInto(r, t, seqs)
    PROVE  /\ Read(t, FlattenSeq(seqs)) = r[Len(seqs)]
           /\ FlattenSeq(seqs) \in Seq(S)
<1> DEFINE n == Len(seqs)
<1>1. n \in Nat /\ \A i \in 1 .. n : seqs[i] \in Seq(S)
  BY Elements
<1>2. PICK w : Flattens(w, seqs, S)
  BY FlattenSteps
<1>3. /\ w \in [0 .. n -> Seq(S)] /\ w[0] = <<>> /\ FlattenSeq(seqs) = w[n]
      /\ \A i \in 1 .. n : w[i] = w[i - 1] \o seqs[i]
  BY <1>2 DEF Flattens
<1>4. r[0] = t /\ \A i \in 1 .. n : Read(r[i - 1], seqs[i]) = r[i]
  BY DEF ReadsInto
<1> HIDE DEF n
<1> DEFINE T == {i \in 0 .. n : Read(t, w[i]) = r[i]}
<1>5. 0 \in T
  BY <1>1, <1>3, <1>4, ReadNothing
<1>6. ASSUME NEW i \in 1 .. n, i - 1 \in T PROVE i \in T
  <2> DEFINE x == w[i - 1]
             y == seqs[i]
  <2>1. x \in Seq(S) /\ y \in Seq(S) /\ w[i] = x \o y
    <3>1. i - 1 \in 0 .. n /\ i \in 1 .. n
      BY <1>1
    <3>2. w[i] = w[i - 1] \o seqs[i]
      BY <1>3, Zenon
    <3>3. w[i - 1] \in Seq(S)
      BY <1>3, <3>1, Zenon
    <3> QED BY <1>1, <3>2, <3>3
  <2>2. Read(t, x) = r[i - 1] /\ Read(r[i - 1], y) = r[i]
    BY <1>4, <1>6
  <2> HIDE DEF x, y
  <2>3. Read(t, x \o y) = Read(Read(t, x), y)
    BY <2>1, ReadOver
  <2>4. Read(t, w[i]) = r[i]
    BY <2>1, <2>2, <2>3, Zenon
  <2> QED BY <1>1, <2>4
<1>7. n \in T
  <2> HIDE DEF T
  <2>1. 0 .. n \subseteq T
    BY <1>1, <1>5, <1>6, Climb
  <2> QED BY <1>1, <2>1
<1> QED BY <1>1, <1>3, <1>7 DEF n

LEMMA KeyLinesAre ==
    ASSUME NEW kv \in KeyValue
    PROVE  KeyLines(kv) \in Seq(Line)
<1> DEFINE g == Comments(kv.comments_before)
           l == KeyLine(kv.key, kv.value, kv.comment)
<1>1. l \in Line /\ kv.comments_before \in Seq(Comment)
  BY KeyParts DEF Line
<1>2. g \in Seq(Line)
  BY <1>1, CommentsAre
<1> HIDE DEF g, l
<1>3. Append(g, l) \in Seq(Line)
  BY <1>1, <1>2
<1> QED BY <1>3 DEF KeyLines, g, l

LEMMA ReadKey ==
    ASSUME NEW h \in Seq(Comment), NEW sec \in INISection, NEW ks \in Seq(KeyValue),
           NEW d \in Seq(INISection), NEW kv \in KeyValue
    PROVE  Read(Within(h, sec, <<>>, ks, d), KeyLines(kv)) = Within(h, sec, <<>>, <<kv>> \o ks, d)
<1> DEFINE cb == kv.comments_before
           g == Comments(cb)
           l == KeyLine(kv.key, kv.value, kv.comment)
           u == Within(h, sec, <<>>, ks, d)
<1>1. /\ cb \in Seq(Comment) /\ kv.key \in Key /\ kv.value \in Value /\ kv.comment \in Comment
      /\ NewKey(kv.key, kv.value, kv.comment, cb) = kv
  BY KeyParts
<1>2. g \in Seq(Line) /\ l \in Line /\ KeyLines(kv) = Append(g, l)
  <2>1. g \in Seq(Line)
    BY <1>1, CommentsAre
  <2>2. l \in Line
    BY <1>1 DEF Line
  <2> QED BY <2>1, <2>2 DEF KeyLines
<1>3. Read(u, g) = Within(h, sec, cb, ks, d)
  <2> DEFINE e == <<>>
  <2>1. cb \in Seq(Comment) /\ e \o cb = cb /\ e \in Seq(Comment)
    BY <1>1, ConcatEmpty
  <2> HIDE DEF cb, e
  <2>2. Read(Within(h, sec, e, ks, d), Comments(cb)) = Within(h, sec, e \o cb, ks, d)
    BY <2>1, ReadComments, ZenonT(60)
  <2> QED BY <2>1, <2>2 DEF e
<1>4. LoadLine(Within(h, sec, cb, ks, d), l) = Within(h, sec, <<>>, <<kv>> \o ks, d)
  <2> DEFINE k == kv.key
             v == kv.value
             c == kv.comment
  <2>1. cb \in Seq(Comment) /\ k \in Key /\ v \in Value /\ c \in Comment /\ NewKey(k, v, c, cb) = kv
    BY <1>1
  <2> HIDE DEF cb, k, v, c
  <2>2. LoadLine(Within(h, sec, cb, ks, d), KeyLine(k, v, c)) =
            Within(h, sec, <<>>, <<NewKey(k, v, c, cb)>> \o ks, d)
    BY <2>1, KeyWithin
  <2>3. l = KeyLine(k, v, c)
    BY DEF k, v, c
  <2> HIDE DEF l
  <2> QED BY <2>1, <2>2, <2>3
<1> HIDE DEF g, l, u
<1>5. Read(u, Append(g, l)) = LoadLine(Read(u, g), l)
  BY <1>2, ReadLine
<1> QED BY <1>2, <1>3, <1>4, <1>5 DEF u


\* The lines of a section: its head, its keys and a blank line.
SectionHead(sec) == Append(Comments(sec.comments_before), SectionLine(sec.name, sec.comment))

KeysLines(ks) == FlattenSeq([i \in DOMAIN ks |-> KeyLines(ks[i])])

LEMMA ReadKeys ==
    ASSUME NEW h \in Seq(Comment), NEW sec \in INISection, NEW d \in Seq(INISection),
           NEW ks \in Seq(KeyValue)
    PROVE  /\ Read(Within(h, sec, <<>>, <<>>, d), KeysLines(ks)) = Within(h, sec, <<>>, Reverse(ks), d)
           /\ KeysLines(ks) \in Seq(Line)
<1> DEFINE n == Len(ks)
           seqs == [i \in DOMAIN ks |-> KeyLines(ks[i])]
           rev(i) == Reverse(SubSeq(ks, 1, i))
           at(k) == Within(h, sec, <<>>, k, d)
           r == [i \in 0 .. n |-> at(rev(i))]
<1>1. /\ n \in Nat /\ DOMAIN ks = 1 .. n /\ \A i \in 1 .. n : ks[i] \in KeyValue
  BY Elements
<1>2. seqs \in Seq(Seq(Line)) /\ Len(seqs) = n /\ \A i \in 1 .. n : seqs[i] = KeyLines(ks[i])
  <2>1. seqs = [i \in 1 .. n |-> KeyLines(ks[i])]
    BY <1>1
  <2>2. \A i \in 1 .. n : KeyLines(ks[i]) \in Seq(Line)
    BY <1>1, KeyLinesAre
  <2> HIDE DEF n, seqs
  <2>3. seqs \in [1 .. n -> Seq(Line)]
    BY <2>1, <2>2
  <2>4. seqs \in Seq(Seq(Line)) /\ Len(seqs) = n
    BY <1>1, <2>3
  <2> QED BY <2>1, <2>4
<1>3. rev(0) = <<>> /\ rev(n) = Reverse(ks)
  BY CutWhole, ReverseEmpty, Zenon
<1>4. \A i \in 1 .. n : rev(i) = <<ks[i]>> \o rev(i - 1) /\ rev(i - 1) \in Seq(KeyValue)
  <2> TAKE i \in 1 .. n
  <2>1. i - 1 \in 0 .. n
    BY <1>1
  <2> DEFINE p == SubSeq(ks, 1, i - 1)
  <2>2. p \in Seq(KeyValue)
    BY <2>1, Cut
  <2> HIDE DEF p
  <2>3. Reverse(p) \in Seq(KeyValue)
    BY <2>2, ReverseIs
  <2> QED BY <2>3, ReverseMore DEF p
<1> HIDE DEF n, seqs, rev
<1>5. ASSUME NEW i \in 1 .. n PROVE Read(at(rev(i - 1)), seqs[i]) = at(rev(i))
  <2> DEFINE k == rev(i - 1)
             kv == ks[i]
  <2>1. k \in Seq(KeyValue) /\ kv \in KeyValue /\ seqs[i] = KeyLines(kv) /\ rev(i) = <<kv>> \o k
    BY <1>1, <1>2, <1>4
  <2> HIDE DEF k, kv
  <2>2. Read(Within(h, sec, <<>>, k, d), KeyLines(kv)) = Within(h, sec, <<>>, <<kv>> \o k, d)
    BY <2>1, ReadKey
  <2> QED BY <2>1, <2>2, Zenon DEF k
<1> HIDE DEF at
<1>6. r[0] = at(<<>>) /\ r[n] = at(Reverse(ks)) /\ \A i \in 1 .. n : r[i] = at(rev(i)) /\ r[i - 1] = at(rev(i - 1))
  <2>1. 0 \in 0 .. n /\ n \in 0 .. n /\ \A i \in 1 .. n : i \in 0 .. n /\ i - 1 \in 0 .. n
    BY <1>1
  <2> QED BY <1>3, <2>1
<1> HIDE DEF r
<1>7. ReadsInto(r, at(<<>>), seqs)
  <2>1. \A i \in 1 .. n : Read(r[i - 1], seqs[i]) = r[i]
    BY <1>5, <1>6
  <2> QED BY <1>2, <1>6, <2>1 DEF ReadsInto
<1>8. Read(at(<<>>), FlattenSeq(seqs)) = r[Len(seqs)] /\ FlattenSeq(seqs) \in Seq(Line)
  BY <1>2, <1>7, ReadFlat
<1>9. FlattenSeq(seqs) = KeysLines(ks)
  BY DEF KeysLines, seqs
<1> QED BY <1>2, <1>6, <1>8, <1>9 DEF at

LEMMA SectionParts ==
    ASSUME NEW sec \in INISection
    PROVE  /\ SectionHead(sec) \in Seq(Line) /\ KeysLines(sec.keys) \in Seq(Line)
           /\ <<CommentLine(Blank)>> \in Seq(Line)
           /\ SectionLines(sec) = (SectionHead(sec) \o KeysLines(sec.keys)) \o <<CommentLine(Blank)>>
           /\ SectionLines(sec) \in Seq(Line)
<1> DEFINE a == SectionHead(sec)
           k == KeysLines(sec.keys)
           z == CommentLine(Blank)
           y == SectionLine(sec.name, sec.comment)
           g == Comments(sec.comments_before)
<1>1. /\ sec.name \in Section /\ sec.comment \in Comment
      /\ sec.comments_before \in Seq(Comment) /\ sec.keys \in Seq(KeyValue)
  BY SecParts
<1>2. z \in Line /\ y \in Line
  BY <1>1, BlankComment DEF Line
<1>3. g \in Seq(Line)
  BY <1>1, CommentsAre
<1>4. k \in Seq(Line)
  <2>1. <<>> \in Seq(Comment) /\ <<>> \in Seq(INISection)
    OBVIOUS
  <2> QED BY <1>1, <2>1, ReadKeys
<1>5. SectionLines(sec) = (a \o k) \o <<z>> /\ a = Append(g, y)
  BY Zenon DEF SectionLines, SectionHead, KeysLines
<1> HIDE DEF a, k, z, y, g
<1>6. a \in Seq(Line)
  BY <1>2, <1>3, <1>5
<1>7. <<z>> \in Seq(Line) /\ (a \o k) \o <<z>> \in Seq(Line)
  BY <1>2, <1>4, <1>6
<1> QED BY <1>4, <1>5, <1>6, <1>7 DEF a, k, z

\* The keys of a section whose head was read.
LEMMA ReadBody ==
    ASSUME NEW h \in Seq(Comment), NEW sec \in INISection, NEW d \in Seq(INISection),
           NEW t, Read(t, SectionHead(sec)) = Within(h, sec, <<>>, <<>>, d)
    PROVE  Read(t, SectionLines(sec)) = Within(h, sec, <<Blank>>, Reverse(sec.keys), d)
<1> DEFINE a == SectionHead(sec)
           k == KeysLines(sec.keys)
           z == CommentLine(Blank)
           u == Within(h, sec, <<>>, <<>>, d)
           v == Within(h, sec, <<>>, Reverse(sec.keys), d)
<1>1. a \in Seq(Line) /\ k \in Seq(Line) /\ <<z>> \in Seq(Line) /\ SectionLines(sec) = (a \o k) \o <<z>>
  BY SectionParts
<1>2. sec.keys \in Seq(KeyValue)
  BY SecParts
<1>3. Read(u, k) = v
  BY <1>2, ReadKeys
<1>4. Read(v, <<z>>) = Within(h, sec, <<Blank>>, Reverse(sec.keys), d)
  <2> DEFINE ks == Reverse(sec.keys)
             e == <<>>
  <2>1. ks \in Seq(KeyValue)
    BY <1>2, ReverseIs
  <2> HIDE DEF ks
  <2>2. e \in Seq(Comment) /\ Append(e, Blank) = <<Blank>>
    BY BlankComment
  <2> HIDE DEF e
  <2>3. LoadLine(Within(h, sec, e, ks, d), CommentLine(Blank)) = Within(h, sec, Append(e, Blank), ks, d)
    BY <2>1, <2>2, BlankComment, CommentWithin
  <2>4. Read(v, <<z>>) = LoadLine(v, z)
    <3>1. z \in Line
      BY BlankComment DEF Line
    <3> HIDE DEF v, z
    <3> QED BY <3>1, ReadOne
  <2> QED BY <2>2, <2>3, <2>4, Zenon DEF e, ks
<1> HIDE DEF a, k, u, v
<1>5. Read(t, a) = u
  BY DEF a, u
<1> HIDE DEF z
<1>6. Read(t, a \o k) = Read(Read(t, a), k) /\ a \o k \in Seq(Line)
  BY <1>1, ReadOver
<1> DEFINE ak == a \o k
           zs == <<z>>
<1>7. Read(t, ak \o zs) = Read(Read(t, ak), zs)
  <2>1. ak \in Seq(Line) /\ zs \in Seq(Line)
    BY <1>1, <1>6
  <2> HIDE DEF ak, zs
  <2> QED BY <2>1, ReadOver
<1> HIDE DEF ak
<1> QED BY <1>1, <1>3, <1>4, <1>5, <1>6, <1>7, Zenon DEF ak


LEMMA NewSectionIs ==
    ASSUME NEW sec
    PROVE  NewSection(sec.name, sec.comment) = SecWith(sec, <<>>, <<>>)
BY DEF NewSection, SecWith

\* The head of a section: what was pending is lost with it.
LEMMA ReadFirstHead ==
    ASSUME NEW h \in Seq(Comment), NEW sec \in INISection
    PROVE  Read(IniOf(h, <<>>), SectionHead(sec)) = Within(<<>>, sec, <<>>, <<>>, <<>>)
<1> DEFINE cb == sec.comments_before
           g == Comments(cb)
           s == sec.name
           c == sec.comment
           l == SectionLine(s, c)
           u == IniOf(h, <<>>)
           hc == h \o cb
           e == SecWith(sec, <<>>, <<>>)
<1>1. cb \in Seq(Comment) /\ s \in Section /\ c \in Comment
  BY SecParts
<1>2. g \in Seq(Line) /\ l \in Line
  <2>1. g \in Seq(Line)
    BY <1>1, CommentsAre
  <2> QED BY <1>1, <2>1 DEF Line
<1>3. hc \in Seq(Comment) /\ Read(u, g) = IniOf(hc, <<>>)
  <2> HIDE DEF cb
  <2> QED BY <1>1, ReadHeader
<1>4. NewSection(s, c) = e
  BY NewSectionIs
<1> HIDE DEF cb, s, c, hc
<1>5. LoadLine(IniOf(hc, <<>>), SectionLine(s, c)) = IniOf(<<>>, <<NewSection(s, c)>>)
  BY <1>3, SectionInHeader
<1>6. SectionHead(sec) = Append(g, l)
  BY Zenon DEF SectionHead, g, l, cb, s, c
<1>7. Within(<<>>, sec, <<>>, <<>>, <<>>) = IniOf(<<>>, <<e>>)
  <2> HIDE DEF e
  <2>1. <<e>> \o <<>> = <<e>>
    OBVIOUS
  <2> QED BY <2>1, Zenon DEF Within, e
<1> HIDE DEF g, u
<1>8. Read(u, Append(g, l)) = LoadLine(Read(u, g), l)
  <2> HIDE DEF l
  <2> QED BY <1>2, ReadLine
<1> QED BY <1>3, <1>4, <1>5, <1>6, <1>7, <1>8, Zenon DEF u

LEMMA ReadNextHead ==
    ASSUME NEW h \in Seq(Comment), NEW p \in INISection, NEW b \in Seq(Comment),
           NEW ks \in Seq(KeyValue), NEW d \in Seq(INISection), NEW sec \in INISection
    PROVE  Read(Within(h, p, b, ks, d), SectionHead(sec)) =
                Within(h, sec, <<>>, <<>>, <<SecWith(p, <<>>, ks)>> \o d)
<1> DEFINE cb == sec.comments_before
           g == Comments(cb)
           s == sec.name
           c == sec.comment
           l == SectionLine(s, c)
           u == Within(h, p, b, ks, d)
           bc == b \o cb
           e == SecWith(sec, <<>>, <<>>)
           q == <<SecWith(p, <<>>, ks)>> \o d
<1>1. cb \in Seq(Comment) /\ s \in Section /\ c \in Comment
  BY SecParts
<1>2. g \in Seq(Line) /\ l \in Line
  <2>1. g \in Seq(Line)
    BY <1>1, CommentsAre
  <2> QED BY <1>1, <2>1 DEF Line
<1>3. bc \in Seq(Comment)
  BY <1>1
<1>4. Read(u, g) = Within(h, p, bc, ks, d)
  <2> HIDE DEF cb
  <2> QED BY <1>1, ReadComments
<1>5. NewSection(s, c) = e
  BY NewSectionIs
<1> HIDE DEF cb, s, c, bc
<1>6. LoadLine(Within(h, p, bc, ks, d), SectionLine(s, c)) = IniOf(h, <<NewSection(s, c)>> \o q)
  BY <1>1, <1>3, SectionWithin
<1>7. SectionHead(sec) = Append(g, l)
  BY Zenon DEF SectionHead, g, l, cb, s, c
<1> HIDE DEF g, u, q
<1>8. Within(h, sec, <<>>, <<>>, q) = IniOf(h, <<e>> \o q)
  BY Zenon DEF Within
<1>9. Read(u, Append(g, l)) = LoadLine(Read(u, g), l)
  <2> HIDE DEF l
  <2> QED BY <1>2, ReadLine
<1> QED BY <1>4, <1>5, <1>6, <1>7, <1>8, <1>9, Zenon DEF u, q

\* A section as it comes out of a save and a load, with b pending in it.
Turned(sec, b) == SecWith(sec, b, Reverse(sec.keys))

Plain(ss) == [i \in DOMAIN ss |-> Turned(ss[i], <<>>)]

Older(ss, i) == Reverse(SubSeq(Plain(ss), 1, i))

After(h, ss, i) ==
    IF i = 0 THEN IniOf(h, <<>>)
    ELSE Within(<<>>, ss[i], <<Blank>>, Reverse(ss[i].keys), Older(ss, i - 1))

LEMMA TurnedType ==
    ASSUME NEW sec \in INISection, NEW b \in Seq(Comment)
    PROVE  /\ Turned(sec, b) \in INISection
           /\ Turned(sec, b).name = sec.name /\ Turned(sec, b).comment = sec.comment
           /\ Turned(sec, b).comments_before = b /\ Turned(sec, b).keys = Reverse(sec.keys)
           /\ Reverse(sec.keys) \in Seq(KeyValue)
<1> DEFINE ks == Reverse(sec.keys)
<1>1. ks \in Seq(KeyValue)
  BY SecParts, ReverseIs
<1> HIDE DEF ks
<1>2. /\ SecWith(sec, b, ks) \in INISection
      /\ SecWith(sec, b, ks).name = sec.name /\ SecWith(sec, b, ks).comment = sec.comment
      /\ SecWith(sec, b, ks).comments_before = b /\ SecWith(sec, b, ks).keys = ks
  BY <1>1, SecType
<1> QED BY <1>1, <1>2 DEF Turned, ks

LEMMA PlainIs ==
    ASSUME NEW ss \in Seq(INISection)
    PROVE  /\ Plain(ss) \in Seq(INISection) /\ Len(Plain(ss)) = Len(ss) /\ Len(ss) \in Nat
           /\ \A i \in 1 .. Len(ss) : ss[i] \in INISection /\ Plain(ss)[i] = Turned(ss[i], <<>>)
<1> DEFINE r == Plain(ss)
           n == Len(ss)
           e == <<>>
<1>1. n \in Nat /\ DOMAIN ss = 1 .. n /\ \A i \in 1 .. n : ss[i] \in INISection
  BY Elements
<1>2. e \in Seq(Comment)
  OBVIOUS
<1>3. r = [i \in 1 .. n |-> Turned(ss[i], e)]
  BY <1>1 DEF Plain
<1> HIDE DEF r, n, e
<1>4. \A i \in 1 .. n : r[i] = Turned(ss[i], e) /\ r[i] \in INISection
  BY <1>1, <1>2, <1>3, TurnedType
<1>5. r \in [1 .. n -> INISection]
  BY <1>3, <1>4
<1>6. r \in Seq(INISection) /\ Len(r) = n
  BY <1>1, <1>5
<1> QED BY <1>1, <1>4, <1>6 DEF r, n, e

LEMMA OlderIs ==
    ASSUME NEW ss \in Seq(INISection)
    PROVE  /\ Older(ss, 0) = <<>>
           /\ \A i \in 0 .. Len(ss) : Older(ss, i) \in Seq(INISection)
           /\ \A i \in 1 .. Len(ss) : Older(ss, i) = <<Turned(ss[i], <<>>)>> \o Older(ss, i - 1)
<1> DEFINE f == Plain(ss)
<1>1. /\ f \in Seq(INISection) /\ Len(f) = Len(ss)
      /\ \A i \in 1 .. Len(ss) : f[i] = Turned(ss[i], <<>>)
  BY PlainIs
<1> HIDE DEF f
<1>2. \A i : Older(ss, i) = Reverse(SubSeq(f, 1, i))
  BY DEF Older, f
<1>3. Older(ss, 0) = <<>>
  BY <1>1, <1>2, CutWhole, ReverseEmpty, Zenon
<1>4. ASSUME NEW i \in 0 .. Len(ss) PROVE Older(ss, i) \in Seq(INISection)
  <2> DEFINE p == SubSeq(f, 1, i)
  <2>1. p \in Seq(INISection)
    BY <1>1, Cut
  <2> HIDE DEF p
  <2>2. Reverse(p) \in Seq(INISection)
    BY <2>1, ReverseIs
  <2> QED BY <1>2, <2>2, Zenon DEF p
<1>5. ASSUME NEW i \in 1 .. Len(ss) PROVE Older(ss, i) = <<Turned(ss[i], <<>>)>> \o Older(ss, i - 1)
  <2>1. Reverse(SubSeq(f, 1, i)) = <<f[i]>> \o Reverse(SubSeq(f, 1, i - 1))
    BY <1>1, ReverseMore
  <2> QED BY <1>1, <1>2, <2>1, Zenon
<1> QED BY <1>3, <1>4, <1>5


LEMMA ReadFirstSection ==
    ASSUME NEW h \in Seq(Comment), NEW sec \in INISection
    PROVE  Read(IniOf(h, <<>>), SectionLines(sec)) =
                Within(<<>>, sec, <<Blank>>, Reverse(sec.keys), <<>>)
<1> DEFINE t == IniOf(h, <<>>)
           e == <<>>
           d == <<>>
<1>1. e \in Seq(Comment) /\ d \in Seq(INISection)
  OBVIOUS
<1>2. Read(t, SectionHead(sec)) = Within(e, sec, <<>>, <<>>, d)
  BY ReadFirstHead
<1> HIDE DEF t, e, d
<1>3. Read(t, SectionLines(sec)) = Within(e, sec, <<Blank>>, Reverse(sec.keys), d)
  BY <1>1, <1>2, ReadBody
<1> QED BY <1>3, Zenon DEF t, e, d

LEMMA ReadNextSection ==
    ASSUME NEW h \in Seq(Comment), NEW p \in INISection, NEW b \in Seq(Comment),
           NEW ks \in Seq(KeyValue), NEW d \in Seq(INISection), NEW sec \in INISection
    PROVE  Read(Within(h, p, b, ks, d), SectionLines(sec)) =
                Within(h, sec, <<Blank>>, Reverse(sec.keys), <<SecWith(p, <<>>, ks)>> \o d)
<1> DEFINE t == Within(h, p, b, ks, d)
           x == SecWith(p, <<>>, ks)
           q == <<x>> \o d
<1>1. Read(t, SectionHead(sec)) = Within(h, sec, <<>>, <<>>, q)
  BY ReadNextHead
<1>2. x \in INISection
  <2> DEFINE e == <<>>
  <2>1. e \in Seq(Comment)
    OBVIOUS
  <2> HIDE DEF e
  <2>2. SecWith(p, e, ks) \in INISection
    BY <2>1, SecType
  <2> QED BY <2>2 DEF e
<1>3. q \in Seq(INISection)
  <2> HIDE DEF x
  <2> QED BY <1>2, InFrontOf
<1> HIDE DEF t, q
<1>4. Read(t, SectionLines(sec)) = Within(h, sec, <<Blank>>, Reverse(sec.keys), q)
  BY <1>1, <1>3, ReadBody
<1> QED BY <1>4, Zenon DEF t, q

LEMMA AfterNext ==
    ASSUME NEW h \in Seq(Comment), NEW ss \in Seq(INISection), NEW i \in 1 .. Len(ss)
    PROVE  Read(After(h, ss, i - 1), SectionLines(ss[i])) = After(h, ss, i)
<1> DEFINE sec == ss[i]
<1>1. Len(ss) \in Nat /\ sec \in INISection /\ i # 0 /\ i \in Nat
  BY Elements
<1>2. After(h, ss, i) = Within(<<>>, sec, <<Blank>>, Reverse(sec.keys), Older(ss, i - 1))
  BY <1>1, Zenon DEF After
<1>3. CASE i = 1
  <2>1. i - 1 = 0 /\ Older(ss, i - 1) = <<>>
    BY <1>3, OlderIs
  <2>2. After(h, ss, i - 1) = IniOf(h, <<>>)
    BY <2>1, Zenon DEF After
  <2> HIDE DEF sec
  <2>3. Read(IniOf(h, <<>>), SectionLines(sec)) = Within(<<>>, sec, <<Blank>>, Reverse(sec.keys), <<>>)
    BY <1>1, ReadFirstSection
  <2> QED BY <1>2, <2>1, <2>2, <2>3, Zenon DEF sec
<1>4. CASE i # 1
  <2> DEFINE j == i - 1
             p == ss[j]
             ks == Reverse(p.keys)
             d == Older(ss, j - 1)
             e == <<>>
             b == <<Blank>>
  <2>1. j \in 1 .. Len(ss) /\ j # 0 /\ j - 1 \in 0 .. Len(ss)
    BY <1>1, <1>4
  <2>2. p \in INISection /\ d \in Seq(INISection)
    BY <2>1, Elements, OlderIs
  <2>3. ks \in Seq(KeyValue)
    <3> HIDE DEF p
    <3>1. p.keys \in Seq(KeyValue)
      BY <2>2, SecParts
    <3> QED BY <3>1, ReverseIs
  <2>4. e \in Seq(Comment) /\ b \in Seq(Comment)
    BY BlankComment
  <2>5. After(h, ss, j) = Within(e, p, b, ks, d)
    BY <2>1, Zenon DEF After
  <2>6. Older(ss, j) = <<SecWith(p, <<>>, ks)>> \o d
    <3>1. Older(ss, j) = <<Turned(p, <<>>)>> \o d
      BY <2>1, OlderIs
    <3> QED BY <3>1, Zenon DEF Turned
  <2> HIDE DEF j, p, ks, d, e, b, sec
  <2>7. Read(Within(e, p, b, ks, d), SectionLines(sec)) =
            Within(e, sec, <<Blank>>, Reverse(sec.keys), <<SecWith(p, <<>>, ks)>> \o d)
    BY <1>1, <2>2, <2>3, <2>4, ReadNextSection
  <2> QED BY <1>2, <2>5, <2>6, <2>7, Zenon DEF j, e, sec
<1> QED BY <1>3, <1>4

LEMMA ReadSaved ==
    ASSUME NEW h \in Seq(Comment), NEW ss \in Seq(INISection)
    PROVE  /\ Read(Empty, Saved(IniOf(h, ss))) = After(h, ss, Len(ss))
           /\ Saved(IniOf(h, ss)) \in Seq(Line)
<1> DEFINE n == Len(ss)
           seqs == [i \in DOMAIN ss |-> SectionLines(ss[i])]
           r == [i \in 0 .. n |-> After(h, ss, i)]
           g == Comments(h)
           f == FlattenSeq(seqs)
<1>1. n \in Nat /\ DOMAIN ss = 1 .. n /\ \A i \in 1 .. n : ss[i] \in INISection
  BY Elements
<1>2. seqs \in Seq(Seq(Line)) /\ Len(seqs) = n /\ \A i \in 1 .. n : seqs[i] = SectionLines(ss[i])
  <2>1. seqs = [i \in 1 .. n |-> SectionLines(ss[i])]
    BY <1>1
  <2>2. \A i \in 1 .. n : SectionLines(ss[i]) \in Seq(Line)
    BY <1>1, SectionParts
  <2> HIDE DEF n, seqs
  <2>3. seqs \in [1 .. n -> Seq(Line)]
    BY <2>1, <2>2
  <2>4. seqs \in Seq(Seq(Line)) /\ Len(seqs) = n
    BY <1>1, <2>3
  <2> QED BY <2>1, <2>4
<1>3. /\ r[0] = IniOf(h, <<>>) /\ r[n] = After(h, ss, n)
      /\ \A i \in 1 .. n : r[i] = After(h, ss, i) /\ r[i - 1] = After(h, ss, i - 1)
  <2>1. 0 \in 0 .. n /\ n \in 0 .. n /\ \A i \in 1 .. n : i \in 0 .. n /\ i - 1 \in 0 .. n
    BY <1>1
  <2>2. After(h, ss, 0) = IniOf(h, <<>>)
    BY DEF After
  <2> QED BY <2>1, <2>2
<1> HIDE DEF r
<1>4. ReadsInto(r, IniOf(h, <<>>), seqs)
  <2>1. \A i \in 1 .. n : Read(After(h, ss, i - 1), SectionLines(ss[i])) = After(h, ss, i)
    BY AfterNext
  <2> HIDE DEF n, seqs
  <2>2. \A i \in 1 .. n : Read(r[i - 1], seqs[i]) = r[i]
    BY <1>2, <1>3, <2>1
  <2> QED BY <1>2, <1>3, <2>2 DEF ReadsInto
<1> HIDE DEF seqs
<1>5. Read(IniOf(h, <<>>), f) = After(h, ss, n) /\ f \in Seq(Line)
  BY <1>2, <1>3, <1>4, ReadFlat
<1>6. Saved(IniOf(h, ss)) = g \o f
  <2>1. IniOf(h, ss).header_comments = h /\ IniOf(h, ss).sections = ss
    BY DEF IniOf
  <2> QED BY <2>1, Zenon DEF Saved, seqs
<1>7. g \in Seq(Line)
  BY CommentsAre
<1>8. Read(Empty, g) = IniOf(h, <<>>)
  <2> DEFINE e == <<>>
  <2>1. e \in Seq(Comment) /\ e \o h = h
    BY ConcatEmpty
  <2> HIDE DEF e
  <2>2. Read(IniOf(e, <<>>), Comments(h)) = IniOf(e \o h, <<>>)
    BY <2>1, ReadHeader
  <2> QED BY <2>1, <2>2 DEF Empty, e
<1> HIDE DEF g, f
<1>9. Read(Empty, g \o f) = Read(Read(Empty, g), f) /\ g \o f \in Seq(Line)
  BY <1>5, <1>7, ReadOver
<1> QED BY <1>5, <1>6, <1>8, <1>9


\* What a save and a load make of t: the sections and the keys in reverse,
\* the comments before sections lost but for a blank line.
Behind(n) == IF n = 1 THEN <<Blank>> ELSE <<>>

Reloaded(t, u) ==
    /\ u \in INIFile
    /\ u.header_comments = IF t.sections = <<>> THEN t.header_comments ELSE <<>>
    /\ Len(u.sections) = Len(t.sections)
    /\ \A n \in 1 .. Len(t.sections) :
        u.sections[n] = Turned(t.sections[Len(t.sections) - n + 1], Behind(n))

LEMMA OlderElements ==
    ASSUME NEW ss \in Seq(INISection), NEW i \in 0 .. Len(ss)
    PROVE  /\ Older(ss, i) \in Seq(INISection) /\ Len(Older(ss, i)) = i
           /\ \A j \in 1 .. i : Older(ss, i)[j] = Turned(ss[i - j + 1], <<>>)
<1> DEFINE f == Plain(ss)
           p == SubSeq(f, 1, i)
           r == Reverse(p)
<1>1. /\ f \in Seq(INISection) /\ Len(f) = Len(ss) /\ Len(ss) \in Nat
      /\ \A j \in 1 .. Len(ss) : f[j] = Turned(ss[j], <<>>)
  BY PlainIs
<1>2. Older(ss, i) = r
  BY DEF Older
<1> HIDE DEF f
<1>3. p \in Seq(INISection) /\ Len(p) = i /\ \A j \in 1 .. i : p[j] = f[j]
  BY <1>1, Cut
<1> HIDE DEF p
<1>4. r \in Seq(INISection) /\ Len(r) = i /\ \A j \in 1 .. i : r[j] = p[i - j + 1]
  BY <1>3, ReverseIs
<1> HIDE DEF r
<1>5. \A j \in 1 .. i : r[j] = Turned(ss[i - j + 1], <<>>)
  <2> TAKE j \in 1 .. i
  <2> DEFINE k == i - j + 1
  <2>1. k \in 1 .. i /\ k \in 1 .. Len(ss) /\ r[j] = p[k]
    BY <1>1, <1>4
  <2> HIDE DEF k
  <2> QED BY <1>1, <1>3, <2>1 DEF k
<1> QED BY <1>2, <1>4, <1>5

LEMMA AfterIs ==
    ASSUME NEW h \in Seq(Comment), NEW ss \in Seq(INISection)
    PROVE  Reloaded(IniOf(h, ss), After(h, ss, Len(ss)))
<1> DEFINE m == Len(ss)
           u == After(h, ss, m)
           t == IniOf(h, ss)
<1>0. m \in Nat /\ t.sections = ss /\ t.header_comments = h /\ (ss = <<>> <=> m = 0)
  BY Elements DEF IniOf
<1>1. CASE ss = <<>>
  <2>1. u = IniOf(h, <<>>)
    BY <1>0, <1>1 DEF After
  <2> DEFINE e == <<>>
  <2>2. e \in Seq(INISection) /\ Len(e) = 0
    OBVIOUS
  <2>3. m = 0
    BY <1>0, <1>1
  <2> HIDE DEF e, t, m
  <2>4. IniOf(h, e) \in INIFile /\ IniOf(h, e).header_comments = h /\ IniOf(h, e).sections = e
    BY <2>2, IniType
  <2>5. u = IniOf(h, e)
    BY <2>1 DEF e
  <2> HIDE DEF u
  <2>6. t.sections = <<>> /\ Len(t.sections) = 0
    BY <1>0, <1>1, <2>3 DEF m
  <2>7. Reloaded(t, u)
    BY <1>0, <2>2, <2>4, <2>5, <2>6 DEF Reloaded
  <2> QED BY <2>7 DEF t, u, m
<1>2. CASE ss # <<>>
  <2> DEFINE p == ss[m]
             b == <<Blank>>
             x == Turned(p, b)
             d == Older(ss, m - 1)
             us == <<x>> \o d
             e == <<>>
  <2>1. m \in 1 .. Len(ss) /\ m # 0 /\ m - 1 \in 0 .. Len(ss)
    BY <1>0, <1>2
  <2>2. p \in INISection /\ b \in Seq(Comment) /\ e \in Seq(Comment)
    BY <2>1, Elements, BlankComment
  <2>3. x \in INISection
    <3> HIDE DEF p, b
    <3> QED BY <2>2, TurnedType
  <2>4. d \in Seq(INISection) /\ Len(d) = m - 1 /\ \A j \in 1 .. m - 1 : d[j] = Turned(ss[m - 1 - j + 1], <<>>)
    BY <2>1, OlderElements
  <2>5. u = IniOf(e, us)
    BY <2>1, Zenon DEF After, Within, Turned
  <2> HIDE DEF d, x, e
  <2>6. us \in Seq(INISection) /\ Len(us) = Len(d) + 1 /\ us[1] = x /\ \A i \in 1 .. Len(d) : us[i + 1] = d[i]
    BY <2>3, <2>4, InFrontOf
  <2> HIDE DEF us
  <2>7. IniOf(e, us) \in INIFile /\ IniOf(e, us).header_comments = e /\ IniOf(e, us).sections = us
    BY <2>2, <2>6, IniType
  <2> HIDE DEF u, t
  <2>8. ASSUME NEW n \in 1 .. m
        PROVE  us[n] = Turned(ss[m - n + 1], Behind(n))
    <3>1. CASE n = 1
      <4>1. m - n + 1 = m /\ Behind(n) = b
        BY <1>0, <3>1 DEF Behind
      <4> QED BY <2>6, <3>1, <4>1 DEF x
    <3>2. CASE n # 1
      <4> DEFINE j == n - 1
      <4>1. j \in 1 .. m - 1 /\ j + 1 = n /\ m - 1 - j + 1 = m - n + 1
        BY <1>0, <3>2
      <4>2. Behind(n) = <<>>
        BY <3>2 DEF Behind
      <4> HIDE DEF j, m
      <4>3. us[n] = d[j] /\ d[j] = Turned(ss[m - 1 - j + 1], <<>>)
        BY <2>4, <2>6, <4>1
      <4> QED BY <4>1, <4>2, <4>3
    <3> QED BY <3>1, <3>2
  <2>9. u.header_comments = <<>> /\ u.sections = us /\ u \in INIFile /\ Len(us) = m
    BY <1>0, <2>4, <2>5, <2>6, <2>7 DEF e
  <2>10. Reloaded(t, u)
    BY <1>0, <1>2, <2>8, <2>9 DEF Reloaded
  <2> QED BY <2>10 DEF t, u
<1> QED BY <1>1, <1>2

LEMMA ReloadIs ==
    ASSUME NEW t \in INIFile
    PROVE  Reloaded(t, Reload(t)) /\ Saved(t) \in Seq(Line)
<1> DEFINE h == t.header_comments
           ss == t.sections
<1>1. h \in Seq(Comment) /\ ss \in Seq(INISection) /\ t = IniOf(h, ss)
  BY IniParts
<1> HIDE DEF h, ss
<1>2. Read(Empty, Saved(IniOf(h, ss))) = After(h, ss, Len(ss)) /\ Saved(IniOf(h, ss)) \in Seq(Line)
  BY <1>1, ReadSaved
<1>3. Reloaded(IniOf(h, ss), After(h, ss, Len(ss)))
  BY <1>1, AfterIs
<1>4. Reload(t) = Read(Empty, Saved(t))
  BY LoadedIsRead DEF Reload
<1> QED BY <1>1, <1>2, <1>3, <1>4, Zenon


------------------------------------------------------------------------------
(***************************************************************************)
(* find_section and find_key.                                              *)
(***************************************************************************)
SectionFound(t, s, i) ==
    /\ i \in 0 .. Len(t.sections)
    /\ i # 0 => t.sections[i].name = s
    /\ i = 0 => \A j \in 1 .. Len(t.sections) : t.sections[j].name # s

KeyFound(sec, k, j) ==
    /\ j \in 0 .. Len(sec.keys)
    /\ j # 0 => sec.keys[j].key = k
    /\ j = 0 => \A i \in 1 .. Len(sec.keys) : sec.keys[i].key # k

LEMMA FindSectionIs ==
    ASSUME NEW t \in INIFile, NEW s
    PROVE  SectionFound(t, s, FindSection(t, s))
<1> DEFINE ss == t.sections
           I == {i \in 1 .. Len(ss) : ss[i].name = s}
<1>1. Len(ss) \in Nat /\ I \in SUBSET Nat
  BY IniParts, Elements
<1>2. FindSection(t, s) = IF I # {} THEN Min(I) ELSE 0
  BY DEF FindSection, SelectInSeq
<1>3. CASE I = {}
  <2>1. FindSection(t, s) = 0
    BY <1>2, <1>3
  <2>2. \A j \in 1 .. Len(ss) : ss[j].name # s
    BY <1>3
  <2> QED BY <1>1, <2>1, <2>2 DEF SectionFound
<1>4. CASE I # {}
  <2>1. FindSection(t, s) = Min(I)
    BY <1>2, <1>4
  <2> HIDE DEF I
  <2>2. Min(I) \in I
    BY <1>1, <1>4, Least
  <2>3. Min(I) \in 1 .. Len(ss) /\ ss[Min(I)].name = s
    BY <2>2 DEF I
  <2> QED BY <1>1, <2>1, <2>3 DEF SectionFound
<1> QED BY <1>3, <1>4

LEMMA FindKeyIs ==
    ASSUME NEW sec \in INISection, NEW k
    PROVE  KeyFound(sec, k, FindKey(sec, k))
<1> DEFINE ks == sec.keys
           I == {i \in 1 .. Len(ks) : ks[i].key = k}
<1>1. Len(ks) \in Nat /\ I \in SUBSET Nat
  BY SecParts, Elements
<1>2. FindKey(sec, k) = IF I # {} THEN Min(I) ELSE 0
  BY DEF FindKey, SelectInSeq
<1>3. CASE I = {}
  <2>1. FindKey(sec, k) = 0
    BY <1>2, <1>3
  <2>2. \A j \in 1 .. Len(ks) : ks[j].key # k
    BY <1>3
  <2> QED BY <1>1, <2>1, <2>2 DEF KeyFound
<1>4. CASE I # {}
  <2>1. FindKey(sec, k) = Min(I)
    BY <1>2, <1>4
  <2> HIDE DEF I
  <2>2. Min(I) \in I
    BY <1>1, <1>4, Least
  <2>3. Min(I) \in 1 .. Len(ks) /\ ks[Min(I)].key = k
    BY <2>2 DEF I
  <2> QED BY <1>1, <2>1, <2>3 DEF KeyFound
<1> QED BY <1>3, <1>4


------------------------------------------------------------------------------
(***************************************************************************)
(* What a list holds, wherever it is in the list.                          *)
(***************************************************************************)
SecHolds(sec, k, v) ==
    \E j \in 1 .. Len(sec.keys) : sec.keys[j].key = k /\ sec.keys[j].value = v

KeysOnce(sec) ==
    \A i, j \in 1 .. Len(sec.keys) : sec.keys[i].key = sec.keys[j].key => i = j

Holds(t, s, k, v) ==
    \E i \in 1 .. Len(t.sections) : t.sections[i].name = s /\ SecHolds(t.sections[i], k, v)

NamesOnce(t) ==
    \A i, j \in 1 .. Len(t.sections) : t.sections[i].name = t.sections[j].name => i = j

AllOnce(t) == NamesOnce(t) /\ \A n \in 1 .. Len(t.sections) : KeysOnce(t.sections[n])

LEMMA NothingTwiceIs ==
    ASSUME NEW t \in INIFile
    PROVE  NothingTwice(t) <=> AllOnce(t)
<1> DEFINE ss == t.sections
<1>1. ss \in Seq(INISection) /\ DOMAIN ss = 1 .. Len(ss) /\ \A n \in 1 .. Len(ss) : ss[n] \in INISection
  BY IniParts, Elements
<1>2. \A n \in 1 .. Len(ss) : DOMAIN ss[n].keys = 1 .. Len(ss[n].keys)
  <2> TAKE n \in 1 .. Len(ss)
  <2> DEFINE sec == ss[n]
             ks == sec.keys
  <2>1. sec \in INISection
    BY <1>1
  <2> HIDE DEF sec
  <2>2. ks \in Seq(KeyValue)
    BY <2>1, SecParts
  <2> HIDE DEF ks
  <2>3. DOMAIN ks = 1 .. Len(ks)
    BY <2>2, Elements
  <2> QED BY <2>3 DEF ks, sec
<1> HIDE DEF ss
<1>3. NothingTwice(t) <=>
        /\ \A i, j \in DOMAIN ss : ss[i].name = ss[j].name => i = j
        /\ \A n \in DOMAIN ss : \A i, j \in DOMAIN ss[n].keys :
            ss[n].keys[i].key = ss[n].keys[j].key => i = j
  BY DEF NothingTwice, ss
<1>4. AllOnce(t) <=>
        /\ \A i, j \in 1 .. Len(ss) : ss[i].name = ss[j].name => i = j
        /\ \A n \in 1 .. Len(ss) : \A i, j \in 1 .. Len(ss[n].keys) :
            ss[n].keys[i].key = ss[n].keys[j].key => i = j
  BY DEF AllOnce, NamesOnce, KeysOnce, ss
<1> QED BY <1>1, <1>2, <1>3, <1>4, SMTT(30)

LEMMA KeyInFrontIs ==
    ASSUME NEW sec \in INISection, NEW kv \in KeyValue, NEW y, y = KeyInFront(sec, kv)
    PROVE  /\ y \in INISection /\ y.name = sec.name
           /\ \A k, v : SecHolds(y, k, v) <=> (k = kv.key /\ v = kv.value) \/ SecHolds(sec, k, v)
           /\ KeysOnce(sec) /\ (\A j \in 1 .. Len(sec.keys) : sec.keys[j].key # kv.key) => KeysOnce(y)
<1> DEFINE ks == sec.keys
           b == sec.comments_before
           p == <<kv>> \o ks
           m == Len(ks)
<1>1. ks \in Seq(KeyValue) /\ b \in Seq(Comment) /\ sec = SecWith(sec, b, ks)
  BY SecParts
<1>2. y = SecWith(sec, b, p)
  <2> HIDE DEF ks, b
  <2> QED BY <1>1, OtherKeys
<1> HIDE DEF ks, b
<1>3. p \in Seq(KeyValue) /\ Len(p) = m + 1 /\ m \in Nat /\ p[1] = kv /\ \A i \in 1 .. m : p[i + 1] = ks[i]
  BY <1>1, InFrontOf
<1> HIDE DEF p
<1>4. y \in INISection /\ y.name = sec.name /\ y.keys = p
  BY <1>1, <1>2, <1>3, SecType
<1> HIDE DEF m
<1>5. \A i \in 1 .. m + 1 : i = 1 \/ (i - 1 \in 1 .. m /\ p[i] = ks[i - 1])
  <2> TAKE i \in 1 .. m + 1
  <2>1. CASE i = 1
    BY <2>1
  <2>2. CASE i # 1
    <3> DEFINE j == i - 1
    <3>1. j \in 1 .. m /\ j + 1 = i
      BY <1>3, <2>2
    <3> HIDE DEF j
    <3>2. p[i] = ks[j]
      BY <1>3, <3>1
    <3> QED BY <3>1, <3>2 DEF j
  <2> QED BY <2>1, <2>2
<1>6. ASSUME NEW k, NEW v
      PROVE  SecHolds(y, k, v) <=> (k = kv.key /\ v = kv.value) \/ SecHolds(sec, k, v)
  <2>1. ASSUME SecHolds(y, k, v) PROVE (k = kv.key /\ v = kv.value) \/ SecHolds(sec, k, v)
    <3>1. PICK i \in 1 .. m + 1 : p[i].key = k /\ p[i].value = v
      BY <1>3, <1>4, <2>1 DEF SecHolds
    <3> QED BY <1>3, <1>5, <3>1 DEF SecHolds, ks, m
  <2>2. ASSUME k = kv.key, v = kv.value PROVE SecHolds(y, k, v)
    <3>1. 1 \in 1 .. m + 1
      BY <1>3
    <3> QED BY <1>3, <1>4, <2>2, <3>1 DEF SecHolds
  <2>3. ASSUME SecHolds(sec, k, v) PROVE SecHolds(y, k, v)
    <3>1. PICK i \in 1 .. m : ks[i].key = k /\ ks[i].value = v
      BY <2>3 DEF SecHolds, ks, m
    <3>2. i + 1 \in 1 .. m + 1 /\ p[i + 1] = ks[i]
      BY <1>3
    <3> QED BY <1>3, <1>4, <3>1, <3>2 DEF SecHolds
  <2> QED BY <2>1, <2>2, <2>3
<1>7. ASSUME KeysOnce(sec), \A j \in 1 .. Len(sec.keys) : sec.keys[j].key # kv.key
      PROVE  KeysOnce(y)
  <2>1. \A i, j \in 1 .. m : ks[i].key = ks[j].key => i = j
    BY <1>7 DEF KeysOnce, ks, m
  <2>2. \A j \in 1 .. m : ks[j].key # kv.key
    BY <1>7 DEF ks, m
  <2>3. ASSUME NEW i \in 1 .. m + 1, NEW j \in 1 .. m + 1, p[i].key = p[j].key PROVE i = j
    BY <1>3, <1>5, <2>1, <2>2, <2>3
  <2> QED BY <1>3, <1>4, <2>3 DEF KeysOnce
<1> QED BY <1>4, <1>6, <1>7


LEMMA ValueChanged ==
    ASSUME NEW sec \in INISection, KeysOnce(sec), NEW j \in 1 .. Len(sec.keys), NEW v \in Value,
           NEW y, y = [sec EXCEPT !.keys[j].value = v]
    PROVE  /\ y \in INISection /\ y.name = sec.name /\ KeysOnce(y)
           /\ \A k, w : SecHolds(y, k, w) <=>
                IF k = sec.keys[j].key THEN w = v ELSE SecHolds(sec, k, w)
<1> DEFINE ks == sec.keys
           b == sec.comments_before
           kv == [ks[j] EXCEPT !.value = v]
           p == [ks EXCEPT ![j].value = v]
           m == Len(ks)
<1>1. /\ ks \in Seq(KeyValue) /\ b \in Seq(Comment) /\ sec = SecWith(sec, b, ks)
      /\ m \in Nat /\ ks[j] \in KeyValue
  <2>1. ks \in Seq(KeyValue) /\ b \in Seq(Comment) /\ sec = SecWith(sec, b, ks)
    BY SecParts
  <2> HIDE DEF ks, b
  <2>2. j \in 1 .. Len(ks)
    BY DEF ks
  <2> QED BY <2>1, <2>2, Elements
<1>2. kv \in KeyValue /\ kv.key = ks[j].key /\ kv.value = v
  BY <1>1 DEF KeyValue
<1>3. Changed(p, ks, j, kv)
  BY DEF Changed
<1>4. y = [sec EXCEPT !.keys = p]
  OBVIOUS
<1> HIDE DEF p, kv
<1>5. y = SecWith(sec, b, p)
  <2> HIDE DEF ks, b
  <2>1. [SecWith(sec, b, ks) EXCEPT !.keys = p] = SecWith(sec, b, p)
    BY DEF SecWith
  <2> QED BY <1>1, <1>4, <2>1
<1> HIDE DEF ks, b, m
<1>6. /\ p \in Seq(KeyValue) /\ Len(p) = m /\ p[j] = kv /\ j \in 1 .. m
      /\ \A i \in 1 .. m : i # j => p[i] = ks[i]
  BY <1>1, <1>2, <1>3, ElementChanged DEF m, ks
<1>7. y \in INISection /\ y.name = sec.name /\ y.keys = p
  <2>1. b \in Seq(Comment) /\ p \in Seq(KeyValue)
    BY <1>1, <1>6
  <2>2. /\ SecWith(sec, b, p) \in INISection
        /\ SecWith(sec, b, p).name = sec.name /\ SecWith(sec, b, p).keys = p
    BY <2>1, SecType
  <2> QED BY <1>5, <2>2
<1>8. \A i \in 1 .. m : p[i].key = ks[i].key
  BY <1>2, <1>6
<1>9. \A i, n \in 1 .. m : ks[i].key = ks[n].key => i = n
  BY DEF KeysOnce, ks, m
<1>10. KeysOnce(y)
  BY <1>6, <1>7, <1>8, <1>9 DEF KeysOnce
<1>11. ASSUME NEW k, NEW w
       PROVE  SecHolds(y, k, w) <=> IF k = ks[j].key THEN w = v ELSE SecHolds(sec, k, w)
  <2>1. SecHolds(y, k, w) <=> \E i \in 1 .. m : p[i].key = k /\ p[i].value = w
    BY <1>6, <1>7 DEF SecHolds
  <2>2. SecHolds(sec, k, w) <=> \E i \in 1 .. m : ks[i].key = k /\ ks[i].value = w
    BY DEF SecHolds, ks, m
  <2>3. CASE k = ks[j].key
    BY <1>2, <1>6, <1>8, <1>9, <2>1, <2>3
  <2>4. CASE k # ks[j].key
    BY <1>2, <1>6, <1>8, <2>1, <2>2, <2>4
  <2> QED BY <2>3, <2>4
<1> QED BY <1>7, <1>10, <1>11 DEF ks

LEMMA KeyRemoved ==
    ASSUME NEW sec \in INISection, KeysOnce(sec), NEW j \in 1 .. Len(sec.keys),
           NEW y, y = [sec EXCEPT !.keys = RemoveAt(@, j)]
    PROVE  /\ y \in INISection /\ y.name = sec.name /\ KeysOnce(y)
           /\ \A k, w : SecHolds(y, k, w) <=> k # sec.keys[j].key /\ SecHolds(sec, k, w)
<1> DEFINE ks == sec.keys
           b == sec.comments_before
           p == RemoveAt(ks, j)
           m == Len(ks)
<1>1. ks \in Seq(KeyValue) /\ b \in Seq(Comment) /\ sec = SecWith(sec, b, ks)
  BY SecParts
<1>2. y = [sec EXCEPT !.keys = p]
  OBVIOUS
<1>3. p = RemoveAt(ks, j)
  OBVIOUS
<1> HIDE DEF p
<1>4. y = SecWith(sec, b, p)
  <2> HIDE DEF ks, b
  <2>1. [SecWith(sec, b, ks) EXCEPT !.keys = p] = SecWith(sec, b, p)
    BY DEF SecWith
  <2> QED BY <1>1, <1>2, <2>1
<1> HIDE DEF ks, b
<1>5. j \in 1 .. Len(ks)
  BY DEF ks
<1>6. /\ p \in Seq(KeyValue) /\ Len(p) = m - 1 /\ m \in Nat
      /\ \A i \in 1 .. j - 1 : p[i] = ks[i]
      /\ \A i \in j .. m - 1 : p[i] = ks[i + 1]
  BY <1>1, <1>3, <1>5, Removed
<1> HIDE DEF m
<1>7. y \in INISection /\ y.name = sec.name /\ y.keys = p
  <2>1. b \in Seq(Comment) /\ p \in Seq(KeyValue)
    BY <1>1, <1>6
  <2>2. /\ SecWith(sec, b, p) \in INISection
        /\ SecWith(sec, b, p).name = sec.name /\ SecWith(sec, b, p).keys = p
    BY <2>1, SecType
  <2> QED BY <1>4, <2>2
<1> DEFINE old(i) == IF i < j THEN i ELSE i + 1
           new(i) == IF i < j THEN i ELSE i - 1
<1>8. \A i \in 1 .. m - 1 : old(i) \in 1 .. m /\ old(i) # j /\ p[i] = ks[old(i)]
  BY <1>5, <1>6 DEF m
<1>9. \A i \in 1 .. m : i # j => new(i) \in 1 .. m - 1 /\ old(new(i)) = i
  BY <1>5, <1>6 DEF m
<1>10. \A i, n \in 1 .. m - 1 : old(i) = old(n) => i = n
  BY <1>6
<1>11. \A i, n \in 1 .. m : ks[i].key = ks[n].key => i = n
  BY DEF KeysOnce, ks, m
<1> HIDE DEF old, new
<1>12. KeysOnce(y)
  <2>1. \A i, n \in 1 .. m - 1 : p[i].key = p[n].key => i = n
    BY <1>8, <1>10, <1>11
  <2> QED BY <1>6, <1>7, <2>1 DEF KeysOnce
<1>13. ASSUME NEW k, NEW w
       PROVE  SecHolds(y, k, w) <=> k # ks[j].key /\ SecHolds(sec, k, w)
  <2>1. SecHolds(y, k, w) <=> \E i \in 1 .. m - 1 : p[i].key = k /\ p[i].value = w
    BY <1>6, <1>7 DEF SecHolds
  <2>2. SecHolds(sec, k, w) <=> \E i \in 1 .. m : ks[i].key = k /\ ks[i].value = w
    BY DEF SecHolds, ks, m
  <2>3. j \in 1 .. m
    BY <1>5 DEF m
  <2>4. ASSUME SecHolds(y, k, w) PROVE k # ks[j].key /\ SecHolds(sec, k, w)
    BY <1>8, <1>11, <2>1, <2>2, <2>3, <2>4
  <2>5. ASSUME k # ks[j].key, SecHolds(sec, k, w) PROVE SecHolds(y, k, w)
    BY <1>8, <1>9, <2>1, <2>2, <2>5
  <2> QED BY <2>4, <2>5
<1> QED BY <1>7, <1>12, <1>13 DEF ks

LEMMA SetKeyIs ==
    ASSUME NEW sec \in INISection, KeysOnce(sec), NEW k \in Key, NEW v \in Value,
           NEW y, y = SetKey(sec, k, v)
    PROVE  /\ y \in INISection /\ y.name = sec.name /\ KeysOnce(y)
           /\ \A l, w : SecHolds(y, l, w) <=> IF l = k THEN w = v ELSE SecHolds(sec, l, w)
<1> DEFINE j == FindKey(sec, k)
           kv == NewKey(k, v, Blank, <<>>)
<1>1. KeyFound(sec, k, j)
  BY FindKeyIs
<1> HIDE DEF j
<1>2. CASE j = 0
  <2>1. y = KeyInFront(sec, kv)
    BY <1>2 DEF SetKey, j
  <2>2. kv \in KeyValue /\ kv.key = k /\ kv.value = v
    <3> DEFINE e == <<>>
    <3>1. e \in Seq(Comment)
      OBVIOUS
    <3> HIDE DEF e
    <3>2. NewKey(k, v, Blank, e) \in KeyValue /\ NewKey(k, v, Blank, e).key = k /\ NewKey(k, v, Blank, e).value = v
      BY <3>1, BlankComment, NewKeyType
    <3> QED BY <3>2 DEF e
  <2> HIDE DEF kv
  <2>3. \A i \in 1 .. Len(sec.keys) : sec.keys[i].key # kv.key
    BY <1>1, <1>2, <2>2 DEF KeyFound
  <2>4. /\ y \in INISection /\ y.name = sec.name
        /\ \A l, w : SecHolds(y, l, w) <=> (l = kv.key /\ w = kv.value) \/ SecHolds(sec, l, w)
        /\ KeysOnce(y)
    BY <2>1, <2>2, <2>3, KeyInFrontIs
  <2>5. \A w : ~SecHolds(sec, k, w)
    BY <2>2, <2>3 DEF SecHolds
  <2> QED BY <2>2, <2>4, <2>5
<1>3. CASE j # 0
  <2>1. y = [sec EXCEPT !.keys[j].value = v] /\ j \in 1 .. Len(sec.keys) /\ sec.keys[j].key = k
    <3>1. Len(sec.keys) \in Nat
      BY SecParts, Elements
    <3> QED BY <1>1, <1>3, <3>1 DEF SetKey, j, KeyFound
  <2>2. /\ y \in INISection /\ y.name = sec.name /\ KeysOnce(y)
        /\ \A l, w : SecHolds(y, l, w) <=>
                IF l = sec.keys[j].key THEN w = v ELSE SecHolds(sec, l, w)
    BY <2>1, ValueChanged
  <2> QED BY <2>1, <2>2
<1> QED BY <1>2, <1>3


\* What the other sections hold.
OthersHold(t, i, s, k, v) ==
    \E j \in 1 .. Len(t.sections) :
        j # i /\ t.sections[j].name = s /\ SecHolds(t.sections[j], k, v)

LEMMA SectionInFrontIs ==
    ASSUME NEW t \in INIFile, NEW sec \in INISection, NEW u, u = InFront(t, sec)
    PROVE  /\ u \in INIFile
           /\ \A s, k, v : Holds(u, s, k, v) <=>
                (s = sec.name /\ SecHolds(sec, k, v)) \/ Holds(t, s, k, v)
           /\ AllOnce(t) /\ KeysOnce(sec)
              /\ (\A j \in 1 .. Len(t.sections) : t.sections[j].name # sec.name) => AllOnce(u)
<1> DEFINE ss == t.sections
           h == t.header_comments
           p == <<sec>> \o ss
           m == Len(ss)
<1>1. ss \in Seq(INISection) /\ h \in Seq(Comment) /\ t = IniOf(h, ss)
  BY IniParts
<1>2. u = IniOf(h, p)
  <2>1. u = [t EXCEPT !.sections = p]
    BY DEF InFront
  <2> HIDE DEF p, h, ss
  <2>2. [IniOf(h, ss) EXCEPT !.sections = p] = IniOf(h, p)
    BY DEF IniOf
  <2> QED BY <1>1, <2>1, <2>2
<1> HIDE DEF ss, h
<1>3. p \in Seq(INISection) /\ Len(p) = m + 1 /\ m \in Nat /\ p[1] = sec /\ \A i \in 1 .. m : p[i + 1] = ss[i]
  BY <1>1, InFrontOf
<1> HIDE DEF p, m
<1>4. u \in INIFile /\ u.sections = p
  <2>1. IniOf(h, p) \in INIFile /\ IniOf(h, p).sections = p
    BY <1>1, <1>3, IniType
  <2> QED BY <1>2, <2>1
<1>5. \A i \in 1 .. m + 1 : i = 1 \/ (i - 1 \in 1 .. m /\ p[i] = ss[i - 1])
  <2> TAKE i \in 1 .. m + 1
  <2>1. CASE i = 1
    BY <2>1
  <2>2. CASE i # 1
    <3> DEFINE j == i - 1
    <3>1. j \in 1 .. m /\ j + 1 = i
      BY <1>3, <2>2
    <3> HIDE DEF j
    <3>2. p[i] = ss[j]
      BY <1>3, <3>1
    <3> QED BY <3>1, <3>2 DEF j
  <2> QED BY <2>1, <2>2
<1>6. 1 \in 1 .. m + 1 /\ \A i \in 1 .. m : i + 1 \in 1 .. m + 1
  BY <1>3
<1>7. ASSUME NEW s, NEW k, NEW v
      PROVE  Holds(u, s, k, v) <=> (s = sec.name /\ SecHolds(sec, k, v)) \/ Holds(t, s, k, v)
  <2>1. Holds(u, s, k, v) <=> \E i \in 1 .. m + 1 : p[i].name = s /\ SecHolds(p[i], k, v)
    BY <1>3, <1>4 DEF Holds
  <2>2. Holds(t, s, k, v) <=> \E i \in 1 .. m : ss[i].name = s /\ SecHolds(ss[i], k, v)
    BY DEF Holds, ss, m
  <2>3. ASSUME Holds(u, s, k, v) PROVE (s = sec.name /\ SecHolds(sec, k, v)) \/ Holds(t, s, k, v)
    BY <1>3, <1>5, <2>1, <2>2, <2>3
  <2>4. ASSUME s = sec.name, SecHolds(sec, k, v) PROVE Holds(u, s, k, v)
    BY <1>3, <1>6, <2>1, <2>4
  <2>5. ASSUME Holds(t, s, k, v) PROVE Holds(u, s, k, v)
    BY <1>3, <1>6, <2>1, <2>2, <2>5
  <2> QED BY <2>3, <2>4, <2>5
<1>8. ASSUME AllOnce(t), KeysOnce(sec), \A j \in 1 .. Len(t.sections) : t.sections[j].name # sec.name
      PROVE  AllOnce(u)
  <2>1. /\ \A i, j \in 1 .. m : ss[i].name = ss[j].name => i = j
        /\ \A i \in 1 .. m : KeysOnce(ss[i])
        /\ \A j \in 1 .. m : ss[j].name # sec.name
    BY <1>8 DEF AllOnce, NamesOnce, ss, m
  <2>2. ASSUME NEW i \in 1 .. m + 1, NEW j \in 1 .. m + 1, p[i].name = p[j].name PROVE i = j
    <3>1. \A n \in 1 .. m + 1 : n = 1 => p[n].name = sec.name
      BY <1>3
    <3>2. \A n \in 1 .. m + 1 : n # 1 =>
            n - 1 \in 1 .. m /\ p[n].name = ss[n - 1].name /\ p[n].name # sec.name
      BY <1>5, <2>1
    <3>3. CASE i = 1 \/ j = 1
      BY <2>2, <3>1, <3>2, <3>3
    <3>4. CASE i # 1 /\ j # 1
      <4>1. i - 1 \in 1 .. m /\ j - 1 \in 1 .. m /\ ss[i - 1].name = ss[j - 1].name
        BY <2>2, <3>2, <3>4
      <4>2. i - 1 = j - 1
        BY <2>1, <4>1
      <4> QED BY <1>3, <4>2
    <3> QED BY <3>3, <3>4
  <2>3. ASSUME NEW i \in 1 .. m + 1 PROVE KeysOnce(p[i])
    BY <1>3, <1>5, <1>8, <2>1
  <2> QED BY <1>3, <1>4, <2>2, <2>3 DEF AllOnce, NamesOnce
<1> QED BY <1>4, <1>7, <1>8

\* Section i of t changed to y, which has the same name.
Swapped(u, t, i, y) == u = [t EXCEPT !.sections[i] = y]

SwappedIs(u, t, i, y) ==
    /\ u \in INIFile /\ u.header_comments = t.header_comments
    /\ Len(u.sections) = Len(t.sections) /\ u.sections[i] = y
    /\ \A s, k, v : Holds(u, s, k, v) <=>
        (s = y.name /\ SecHolds(y, k, v)) \/ OthersHold(t, i, s, k, v)
    /\ AllOnce(t) /\ KeysOnce(y) => AllOnce(u)

LEMMA SectionChanged ==
    ASSUME NEW t \in INIFile, NEW i \in 1 .. Len(t.sections), NEW y \in INISection,
           y.name = t.sections[i].name, NEW u, Swapped(u, t, i, y)
    PROVE  SwappedIs(u, t, i, y)
<1> DEFINE ss == t.sections
           h == t.header_comments
           p == [ss EXCEPT ![i] = y]
           m == Len(ss)
<1>1. ss \in Seq(INISection) /\ h \in Seq(Comment) /\ t = IniOf(h, ss)
  BY IniParts
<1>2. u = IniOf(h, p) /\ Changed(p, ss, i, y)
  <2>1. u = [t EXCEPT !.sections = p] /\ Changed(p, ss, i, y)
    BY DEF Changed, Swapped
  <2> HIDE DEF p, h, ss
  <2>2. [IniOf(h, ss) EXCEPT !.sections = p] = IniOf(h, p)
    BY DEF IniOf
  <2> QED BY <1>1, <2>1, <2>2
<1> HIDE DEF p
<1>3. i \in 1 .. m /\ y.name = ss[i].name
  OBVIOUS
<1> HIDE DEF ss, h
<1>4. /\ p \in Seq(INISection) /\ Len(p) = m /\ m \in Nat /\ p[i] = y
      /\ \A j \in 1 .. m : j # i => p[j] = ss[j]
  BY <1>1, <1>2, <1>3, ElementChanged
<1> HIDE DEF m
<1>5. u \in INIFile /\ u.sections = p /\ u.header_comments = h
  <2>1. IniOf(h, p) \in INIFile /\ IniOf(h, p).sections = p /\ IniOf(h, p).header_comments = h
    BY <1>1, <1>4, IniType
  <2> QED BY <1>2, <2>1
<1>6. ASSUME NEW s, NEW k, NEW v
      PROVE  Holds(u, s, k, v) <=> (s = y.name /\ SecHolds(y, k, v)) \/ OthersHold(t, i, s, k, v)
  <2>1. Holds(u, s, k, v) <=> \E j \in 1 .. m : p[j].name = s /\ SecHolds(p[j], k, v)
    BY <1>4, <1>5 DEF Holds
  <2>2. OthersHold(t, i, s, k, v) <=> \E j \in 1 .. m : j # i /\ ss[j].name = s /\ SecHolds(ss[j], k, v)
    BY DEF OthersHold, ss, m
  <2> QED BY <1>3, <1>4, <2>1, <2>2
<1>7. ASSUME AllOnce(t), KeysOnce(y) PROVE AllOnce(u)
  <2>1. /\ \A n, j \in 1 .. m : ss[n].name = ss[j].name => n = j
        /\ \A n \in 1 .. m : KeysOnce(ss[n])
    BY <1>7 DEF AllOnce, NamesOnce, ss, m
  <2>2. \A n \in 1 .. m : p[n].name = ss[n].name
    BY <1>3, <1>4
  <2>3. \A n \in 1 .. m : KeysOnce(p[n])
    BY <1>4, <1>7, <2>1
  <2> QED BY <1>4, <1>5, <2>1, <2>2, <2>3 DEF AllOnce, NamesOnce
<1> QED BY <1>4, <1>5, <1>6, <1>7 DEF SwappedIs, m, ss, h

\* With every name once, the other sections are those of other names.
LEMMA OthersAre ==
    ASSUME NEW t, AllOnce(t), NEW i \in 1 .. Len(t.sections), NEW s, NEW k, NEW v
    PROVE  OthersHold(t, i, s, k, v) <=> s # t.sections[i].name /\ Holds(t, s, k, v)
BY DEF OthersHold, Holds, AllOnce, NamesOnce

LEMMA SectionRemoved ==
    ASSUME NEW t \in INIFile, AllOnce(t), NEW i \in 1 .. Len(t.sections),
           NEW u, u = [t EXCEPT !.sections = RemoveAt(@, i)]
    PROVE  /\ u \in INIFile /\ AllOnce(u)
           /\ \A s, k, v : Holds(u, s, k, v) <=> s # t.sections[i].name /\ Holds(t, s, k, v)
<1> DEFINE ss == t.sections
           h == t.header_comments
           p == RemoveAt(ss, i)
           m == Len(ss)
<1>1. ss \in Seq(INISection) /\ h \in Seq(Comment) /\ t = IniOf(h, ss)
  BY IniParts
<1>2. u = [t EXCEPT !.sections = p] /\ p = RemoveAt(ss, i) /\ i \in 1 .. Len(ss)
  OBVIOUS
<1> HIDE DEF p, ss, h
<1>3. u = IniOf(h, p)
  <2>1. [IniOf(h, ss) EXCEPT !.sections = p] = IniOf(h, p)
    BY DEF IniOf
  <2> QED BY <1>1, <1>2, <2>1
<1>4. /\ p \in Seq(INISection) /\ Len(p) = m - 1 /\ m \in Nat
      /\ \A j \in 1 .. i - 1 : p[j] = ss[j]
      /\ \A j \in i .. m - 1 : p[j] = ss[j + 1]
  BY <1>1, <1>2, Removed
<1>5. u \in INIFile /\ u.sections = p
  <2>1. IniOf(h, p) \in INIFile /\ IniOf(h, p).sections = p
    BY <1>1, <1>4, IniType
  <2> QED BY <1>3, <2>1
<1>6. i \in 1 .. m
  BY <1>2
<1> HIDE DEF m
<1> DEFINE old(j) == IF j < i THEN j ELSE j + 1
           new(j) == IF j < i THEN j ELSE j - 1
<1>7. \A j \in 1 .. m - 1 : old(j) \in 1 .. m /\ old(j) # i /\ p[j] = ss[old(j)]
  BY <1>4, <1>6
<1>8. \A j \in 1 .. m : j # i => new(j) \in 1 .. m - 1 /\ old(new(j)) = j
  BY <1>4, <1>6
<1>9. \A j, n \in 1 .. m - 1 : old(j) = old(n) => j = n
  BY <1>4
<1>10. /\ \A j, n \in 1 .. m : ss[j].name = ss[n].name => j = n
       /\ \A j \in 1 .. m : KeysOnce(ss[j])
  BY DEF AllOnce, NamesOnce, ss, m
<1> HIDE DEF old, new
<1>11. AllOnce(u)
  <2>1. \A j, n \in 1 .. m - 1 : p[j].name = p[n].name => j = n
    BY <1>7, <1>9, <1>10
  <2>2. \A j \in 1 .. m - 1 : KeysOnce(p[j])
    BY <1>7, <1>10
  <2> QED BY <1>4, <1>5, <2>1, <2>2 DEF AllOnce, NamesOnce
<1>12. ASSUME NEW s, NEW k, NEW v
       PROVE  Holds(u, s, k, v) <=> s # ss[i].name /\ Holds(t, s, k, v)
  <2>1. Holds(u, s, k, v) <=> \E j \in 1 .. m - 1 : p[j].name = s /\ SecHolds(p[j], k, v)
    BY <1>4, <1>5 DEF Holds
  <2>2. Holds(t, s, k, v) <=> \E j \in 1 .. m : ss[j].name = s /\ SecHolds(ss[j], k, v)
    BY DEF Holds, ss, m
  <2>3. ASSUME Holds(u, s, k, v) PROVE s # ss[i].name /\ Holds(t, s, k, v)
    BY <1>6, <1>7, <1>10, <2>1, <2>2, <2>3
  <2>4. ASSUME s # ss[i].name, Holds(t, s, k, v) PROVE Holds(u, s, k, v)
    BY <1>7, <1>8, <2>1, <2>2, <2>4
  <2> QED BY <2>3, <2>4
<1> QED BY <1>5, <1>11, <1>12 DEF ss


------------------------------------------------------------------------------
(***************************************************************************)
(* The functions of ini.h, by what the lists hold.                         *)
(***************************************************************************)
LEMMA NewSectionHoldsNothing ==
    ASSUME NEW s \in Section
    PROVE  /\ NewSection(s, Blank) \in INISection /\ NewSection(s, Blank).name = s
           /\ KeysOnce(NewSection(s, Blank))
           /\ \A k, v : ~SecHolds(NewSection(s, Blank), k, v)
<1> DEFINE y == NewSection(s, Blank)
<1>1. y \in INISection /\ y.name = s /\ y.keys = <<>>
  BY BlankComment, NewSectionType
<1> HIDE DEF y
<1>2. Len(y.keys) = 0
  BY <1>1
<1> QED BY <1>1, <1>2 DEF KeysOnce, SecHolds, y

LEMMA SetValueIs ==
    ASSUME NEW t \in INIFile, AllOnce(t), NEW s \in Section, NEW k \in Key, NEW v \in Value,
           NEW u, u = SetValue(t, s, k, v)
    PROVE  /\ u \in INIFile /\ AllOnce(u)
           /\ \A r, l, w : Holds(u, r, l, w) <=>
                IF r = s /\ l = k THEN w = v ELSE Holds(t, r, l, w)
<1> DEFINE i == FindSection(t, s)
<1>1. SectionFound(t, s, i)
  BY FindSectionIs
<1> HIDE DEF i
<1>2. CASE i = 0
  <2> DEFINE z == NewSection(s, Blank)
             y == SetKey(z, k, v)
  <2>1. u = InFront(t, y)
    BY <1>2 DEF SetValue, i
  <2>2. z \in INISection /\ z.name = s /\ KeysOnce(z) /\ \A l, w : ~SecHolds(z, l, w)
    BY NewSectionHoldsNothing
  <2> HIDE DEF z
  <2>3. /\ y \in INISection /\ y.name = z.name /\ KeysOnce(y)
        /\ \A l, w : SecHolds(y, l, w) <=> IF l = k THEN w = v ELSE SecHolds(z, l, w)
    BY <2>2, SetKeyIs
  <2> HIDE DEF y
  <2>4. \A j \in 1 .. Len(t.sections) : t.sections[j].name # y.name
    BY <1>1, <1>2, <2>2, <2>3 DEF SectionFound
  <2>5. /\ u \in INIFile /\ AllOnce(u)
        /\ \A r, l, w : Holds(u, r, l, w) <=>
                (r = y.name /\ SecHolds(y, l, w)) \/ Holds(t, r, l, w)
    BY <2>1, <2>3, <2>4, SectionInFrontIs
  <2>6. \A l, w : ~Holds(t, s, l, w)
    BY <2>2, <2>3, <2>4 DEF Holds
  <2> QED BY <2>2, <2>3, <2>5, <2>6
<1>3. CASE i # 0
  <2> DEFINE z == t.sections[i]
             y == SetKey(z, k, v)
  <2>1. i \in 1 .. Len(t.sections) /\ z.name = s
    <3>1. Len(t.sections) \in Nat
      BY IniParts, Elements
    <3> QED BY <1>1, <1>3, <3>1 DEF SectionFound
  <2>2. u = [t EXCEPT !.sections[i] = y]
    BY <1>3 DEF SetValue, i
  <2>3. z \in INISection /\ KeysOnce(z)
    BY <2>1, IniParts, Elements DEF AllOnce
  <2>4. \A l, w : Holds(t, s, l, w) <=> SecHolds(z, l, w)
    BY <2>1 DEF Holds, AllOnce, NamesOnce
  <2> HIDE DEF z
  <2>5. /\ y \in INISection /\ y.name = z.name /\ KeysOnce(y)
        /\ \A l, w : SecHolds(y, l, w) <=> IF l = k THEN w = v ELSE SecHolds(z, l, w)
    BY <2>3, SetKeyIs
  <2> HIDE DEF y
  <2>6. y.name = t.sections[i].name
    BY <2>5 DEF z
  <2>7. /\ u \in INIFile
        /\ \A r, l, w : Holds(u, r, l, w) <=>
                (r = y.name /\ SecHolds(y, l, w)) \/ OthersHold(t, i, r, l, w)
        /\ AllOnce(t) /\ KeysOnce(y) => AllOnce(u)
    <3>1. Swapped(u, t, i, y)
      BY <2>2 DEF Swapped
    <3>2. SwappedIs(u, t, i, y)
      BY <2>1, <2>5, <2>6, <3>1, SectionChanged
    <3> QED BY <3>2 DEF SwappedIs
  <2>8. \A r, l, w : OthersHold(t, i, r, l, w) <=> r # s /\ Holds(t, r, l, w)
    BY <2>1, OthersAre DEF z
  <2> QED BY <2>1, <2>4, <2>5, <2>7, <2>8
<1> QED BY <1>2, <1>3

LEMMA DeleteKeyIs ==
    ASSUME NEW t \in INIFile, AllOnce(t), NEW i \in 1 .. Len(t.sections),
           NEW j \in 1 .. Len(t.sections[i].keys),
           NEW u, u = [t EXCEPT !.sections[i].keys = RemoveAt(@, j)]
    PROVE  /\ u \in INIFile /\ AllOnce(u)
           /\ \A r, l, w : Holds(u, r, l, w) <=>
                /\ ~(r = t.sections[i].name /\ l = t.sections[i].keys[j].key)
                /\ Holds(t, r, l, w)
<1> DEFINE z == t.sections[i]
           y == [z EXCEPT !.keys = RemoveAt(@, j)]
           k == z.keys[j].key
<1>1. u = [t EXCEPT !.sections[i] = y]
  OBVIOUS
<1>2. z \in INISection /\ KeysOnce(z) /\ j \in 1 .. Len(z.keys)
  BY IniParts, Elements DEF AllOnce
<1>3. \A l, w : Holds(t, z.name, l, w) <=> SecHolds(z, l, w)
  BY DEF Holds, AllOnce, NamesOnce
<1> HIDE DEF z
<1>4. /\ y \in INISection /\ y.name = z.name /\ KeysOnce(y)
      /\ \A l, w : SecHolds(y, l, w) <=> l # k /\ SecHolds(z, l, w)
  BY <1>2, KeyRemoved
<1> HIDE DEF y
<1>5. y.name = t.sections[i].name
  BY <1>4 DEF z
<1>6. /\ u \in INIFile
      /\ \A r, l, w : Holds(u, r, l, w) <=>
            (r = y.name /\ SecHolds(y, l, w)) \/ OthersHold(t, i, r, l, w)
      /\ AllOnce(t) /\ KeysOnce(y) => AllOnce(u)
  <2>1. Swapped(u, t, i, y)
    BY <1>1 DEF Swapped
  <2>2. SwappedIs(u, t, i, y)
    BY <1>4, <1>5, <2>1, SectionChanged
  <2> QED BY <2>2 DEF SwappedIs
<1>7. \A r, l, w : OthersHold(t, i, r, l, w) <=> r # z.name /\ Holds(t, r, l, w)
  BY OthersAre DEF z
<1>8. \A r, l, w : Holds(u, r, l, w) <=> ~(r = z.name /\ l = k) /\ Holds(t, r, l, w)
  <2> HIDE DEF k
  <2> TAKE r, l, w
  <2>1. Holds(u, r, l, w) <=> (r = z.name /\ SecHolds(y, l, w)) \/ (r # z.name /\ Holds(t, r, l, w))
    BY <1>4, <1>6, <1>7
  <2>2. SecHolds(y, l, w) <=> l # k /\ Holds(t, z.name, l, w)
    BY <1>3, <1>4
  <2>3. CASE r = z.name
    BY <2>1, <2>2, <2>3
  <2>4. CASE r # z.name
    BY <2>1, <2>4
  <2> QED BY <2>3, <2>4
<1> QED BY <1>4, <1>6, <1>8 DEF z, k

\* Comments before a section and on its line are nothing it holds.
LEMMA CommentsHoldNothing ==
    ASSUME NEW t \in INIFile, AllOnce(t), NEW i \in 1 .. Len(t.sections), NEW y \in INISection,
           y.name = t.sections[i].name, y.keys = t.sections[i].keys,
           NEW u, u = [t EXCEPT !.sections[i] = y]
    PROVE  /\ u \in INIFile /\ AllOnce(u)
           /\ \A r, l, w : Holds(u, r, l, w) <=> Holds(t, r, l, w)
<1> DEFINE z == t.sections[i]
<1>1. KeysOnce(z) /\ (KeysOnce(y) <=> KeysOnce(z)) /\ \A l, w : SecHolds(y, l, w) <=> SecHolds(z, l, w)
  BY DEF AllOnce, KeysOnce, SecHolds
<1>2. \A l, w : Holds(t, z.name, l, w) <=> SecHolds(z, l, w)
  BY DEF Holds, AllOnce, NamesOnce
<1>3. /\ u \in INIFile
      /\ \A r, l, w : Holds(u, r, l, w) <=>
            (r = y.name /\ SecHolds(y, l, w)) \/ OthersHold(t, i, r, l, w)
      /\ AllOnce(t) /\ KeysOnce(y) => AllOnce(u)
  <2>1. Swapped(u, t, i, y)
    BY DEF Swapped
  <2>2. SwappedIs(u, t, i, y)
    BY <2>1, SectionChanged
  <2> QED BY <2>2 DEF SwappedIs
<1>4. \A r, l, w : OthersHold(t, i, r, l, w) <=> r # z.name /\ Holds(t, r, l, w)
  BY OthersAre
<1>5. y.name = z.name
  OBVIOUS
<1> HIDE DEF z
<1> QED BY <1>1, <1>2, <1>3, <1>4, <1>5

LEMMA HeaderHoldsNothing ==
    ASSUME NEW t \in INIFile, AllOnce(t), NEW h \in Seq(Comment),
           NEW u, u = [t EXCEPT !.header_comments = h]
    PROVE  /\ u \in INIFile /\ AllOnce(u)
           /\ \A r, l, w : Holds(u, r, l, w) <=> Holds(t, r, l, w)
<1>1. u \in INIFile /\ u.sections = t.sections
  BY DEF INIFile
<1> QED BY <1>1 DEF AllOnce, NamesOnce, Holds

\* What ini_get answers.
Told(t, s, k, g) ==
    \/ g \in Value /\ Holds(t, s, k, g) /\ \A v : Holds(t, s, k, v) => v = g
    \/ g = Missing /\ \A v : ~Holds(t, s, k, v)

LEMMA GetIs ==
    ASSUME NEW t \in INIFile, AllOnce(t), NEW s, NEW k
    PROVE  Told(t, s, k, Get(t, s, k))
<1> DEFINE i == FindSection(t, s)
           z == t.sections[i]
           j == FindKey(z, k)
<1>1. SectionFound(t, s, i) /\ Len(t.sections) \in Nat
  BY FindSectionIs, IniParts, Elements
<1> HIDE DEF i
<1>2. CASE i = 0
  <2>1. Get(t, s, k) = Missing
    BY <1>2 DEF Get, i
  <2>2. \A v : ~Holds(t, s, k, v)
    BY <1>1, <1>2 DEF SectionFound, Holds
  <2> QED BY <2>1, <2>2 DEF Told
<1>3. CASE i # 0
  <2>1. i \in 1 .. Len(t.sections) /\ z.name = s
    BY <1>1, <1>3 DEF SectionFound
  <2>2. z \in INISection /\ KeysOnce(z)
    BY <2>1, IniParts, Elements DEF AllOnce
  <2>3. \A v : Holds(t, s, k, v) <=> SecHolds(z, k, v)
    BY <2>1 DEF Holds, AllOnce, NamesOnce
  <2>4. Get(t, s, k) = IF j = 0 THEN Missing ELSE z.keys[j].value
    BY <1>3 DEF Get, i
  <2> HIDE DEF z
  <2>5. KeyFound(z, k, j) /\ Len(z.keys) \in Nat
    BY <2>2, FindKeyIs, SecParts, Elements
  <2> HIDE DEF j
  <2>6. CASE j = 0
    <3>1. \A v : ~SecHolds(z, k, v)
      BY <2>5, <2>6 DEF KeyFound, SecHolds
    <3> QED BY <2>3, <2>4, <2>6, <3>1 DEF Told
  <2>7. CASE j # 0
    <3> DEFINE g == z.keys[j].value
    <3>1. j \in 1 .. Len(z.keys) /\ z.keys[j].key = k
      BY <2>5, <2>7 DEF KeyFound
    <3>2. g \in Value
      <4>1. z.keys \in Seq(KeyValue)
        BY <2>2, SecParts
      <4> DEFINE ks == z.keys
      <4>2. ks[j] \in KeyValue
        BY <3>1, <4>1, Elements
      <4> QED BY <4>2, KeyParts
    <3>3. SecHolds(z, k, g) /\ \A v : SecHolds(z, k, v) => v = g
      BY <2>2, <3>1 DEF SecHolds, KeysOnce
    <3> HIDE DEF g
    <3>4. Get(t, s, k) = g
      BY <2>4, <2>7 DEF g
    <3> QED BY <2>3, <3>2, <3>3, <3>4 DEF Told
  <2> QED BY <2>6, <2>7
<1> QED BY <1>2, <1>3

LEMMA OneAnswer ==
    ASSUME NEW t, NEW u, NEW s, NEW k, NEW g, NEW h, Told(t, s, k, g), Told(u, s, k, h),
           \A v : Holds(t, s, k, v) <=> Holds(u, s, k, v)
    PROVE  g = h
BY DEF Told


------------------------------------------------------------------------------
(***************************************************************************)
(* What ini_load makes of a file, by what the lists hold.                  *)
(***************************************************************************)
\* Section s was read last.
Reading(t, s) == t.sections # <<>> /\ t.sections[1].name = s

LoadEffect(u, t, l) ==
    /\ u \in INIFile
    /\ \A s : Reading(u, s) <=> IF l.kind = "section" THEN s = l.name ELSE Reading(t, s)
    /\ \A s, k, v : Holds(u, s, k, v) <=>
        \/ Holds(t, s, k, v)
        \/ l.kind = "key" /\ Reading(t, s) /\ k = l.name /\ v = l.value

LEMMA HoldsSplit ==
    ASSUME NEW t, NEW i \in 1 .. Len(t.sections)
    PROVE  \A s, k, v : Holds(t, s, k, v) <=>
                \/ s = t.sections[i].name /\ SecHolds(t.sections[i], k, v)
                \/ OthersHold(t, i, s, k, v)
BY DEF Holds, OthersHold

LEMMA FrontSwapped ==
    ASSUME NEW h, NEW ss \in Seq(INISection), ss # <<>>, NEW y \in INISection
    PROVE  Swapped(IniOf(h, <<y>> \o Tail(ss)), IniOf(h, ss), 1, y)
<1> DEFINE p == [ss EXCEPT ![1] = y]
           t == IniOf(h, ss)
<1>1. Changed(p, ss, 1, y)
  BY DEF Changed
<1>2. [t EXCEPT !.sections[1] = y] = IniOf(h, p)
  BY DEF IniOf
<1> HIDE DEF p, t
<1>3. p = <<y>> \o Tail(ss)
  BY <1>1, FrontChanged
<1> QED BY <1>2, <1>3 DEF Swapped, t

\* The first section changed: what else there is stays.
LEMMA FrontSwappedIs ==
    ASSUME NEW h \in Seq(Comment), NEW ss \in Seq(INISection), ss # <<>>, NEW y \in INISection,
           y.name = ss[1].name, NEW u, u = IniOf(h, <<y>> \o Tail(ss))
    PROVE  /\ u \in INIFile
           /\ \A s : Reading(u, s) <=> Reading(IniOf(h, ss), s)
           /\ \A s : Reading(IniOf(h, ss), s) <=> s = ss[1].name
           /\ \A s, k, v : Holds(u, s, k, v) <=>
                (s = y.name /\ SecHolds(y, k, v)) \/ OthersHold(IniOf(h, ss), 1, s, k, v)
           /\ \A s, k, v : Holds(IniOf(h, ss), s, k, v) <=>
                (s = y.name /\ SecHolds(ss[1], k, v)) \/ OthersHold(IniOf(h, ss), 1, s, k, v)
<1> DEFINE t == IniOf(h, ss)
<1>1. t \in INIFile /\ t.sections = ss
  BY IniType
<1>2. 1 \in 1 .. Len(ss) /\ Len(ss) \in Nat
  BY Elements
<1>3. Swapped(u, t, 1, y)
  BY FrontSwapped
<1> HIDE DEF t
<1>4. SwappedIs(u, t, 1, y)
  <2>1. 1 \in 1 .. Len(t.sections) /\ y.name = t.sections[1].name
    BY <1>1, <1>2
  <2> QED BY <1>1, <1>3, <2>1, SectionChanged
<1>5. u \in INIFile /\ Len(u.sections) = Len(ss) /\ u.sections[1] = y
  BY <1>1, <1>4 DEF SwappedIs
<1>6. u.sections # <<>>
  <2>1. Len(u.sections) # 0 /\ Len(<<>>) = 0
    BY <1>2, <1>5
  <2> QED BY <2>1
<1>7. \A s : (Reading(u, s) <=> s = y.name) /\ (Reading(t, s) <=> s = ss[1].name)
  BY <1>1, <1>5, <1>6 DEF Reading
<1>8. \A s, k, v : Holds(u, s, k, v) <=> (s = y.name /\ SecHolds(y, k, v)) \/ OthersHold(t, 1, s, k, v)
  BY <1>4 DEF SwappedIs
<1>9. \A s, k, v : Holds(t, s, k, v) <=>
        (s = t.sections[1].name /\ SecHolds(t.sections[1], k, v)) \/ OthersHold(t, 1, s, k, v)
  <2>1. 1 \in 1 .. Len(t.sections)
    BY <1>1, <1>2
  <2> QED BY <2>1, HoldsSplit
<1> QED BY <1>1, <1>5, <1>7, <1>8, <1>9 DEF t

LEMMA SameKeys ==
    ASSUME NEW y, NEW sec, y.keys = sec.keys
    PROVE  \A k, v : SecHolds(y, k, v) <=> SecHolds(sec, k, v)
BY DEF SecHolds

LEMMA LoadCommentIs ==
    ASSUME NEW h \in Seq(Comment), NEW ss \in Seq(INISection), NEW c \in Comment
    PROVE  LoadEffect(LoadLine(IniOf(h, ss), CommentLine(c)), IniOf(h, ss), CommentLine(c))
<1> DEFINE t == IniOf(h, ss)
           l == CommentLine(c)
           u == LoadLine(t, l)
<1>1. l.kind = "comment"
  BY DEF CommentLine
<1>2. CASE ss = <<>>
  <2> DEFINE hc == Append(h, c)
             e == <<>>
  <2>1. hc \in Seq(Comment) /\ e \in Seq(INISection)
    OBVIOUS
  <2>2. u = IniOf(hc, e)
    BY <1>2, LoadInHeader
  <2> HIDE DEF hc, u
  <2>3. u \in INIFile /\ u.sections = e
    BY <2>1, <2>2, IniType
  <2>4. t.sections = e
    BY <1>2 DEF IniOf
  <2> HIDE DEF t, e, l
  <2>5. LoadEffect(u, t, l)
    BY <1>1, <2>3, <2>4 DEF LoadEffect, Reading, Holds
  <2> QED BY <2>5 DEF u, t, l
<1>3. CASE ss # <<>>
  <2> DEFINE cs == Append(ss[1].comments_before, c)
             y == SecWith(ss[1], cs, ss[1].keys)
  <2>1. u = IniOf(h, <<y>> \o Tail(ss))
    BY <1>3, LoadInSection
  <2>2. ss[1] \in INISection /\ ss[1].keys \in Seq(KeyValue) /\ ss[1].comments_before \in Seq(Comment)
    BY <1>3, Elements, SecParts
  <2>3. cs \in Seq(Comment)
    BY <2>2
  <2> HIDE DEF cs
  <2>4. y \in INISection /\ y.name = ss[1].name /\ y.keys = ss[1].keys
    BY <2>2, <2>3, SecType
  <2> HIDE DEF y, u
  <2>5. /\ u \in INIFile
        /\ \A s : Reading(u, s) <=> Reading(t, s)
        /\ \A s, k, v : Holds(u, s, k, v) <=> (s = y.name /\ SecHolds(y, k, v)) \/ OthersHold(t, 1, s, k, v)
        /\ \A s, k, v : Holds(t, s, k, v) <=> (s = y.name /\ SecHolds(ss[1], k, v)) \/ OthersHold(t, 1, s, k, v)
    BY <1>3, <2>1, <2>4, FrontSwappedIs
  <2>6. \A k, v : SecHolds(y, k, v) <=> SecHolds(ss[1], k, v)
    BY <2>4, SameKeys
  <2> HIDE DEF t, l
  <2>7. \A s, k, v : Holds(u, s, k, v) <=> Holds(t, s, k, v)
    BY <2>5, <2>6
  <2>8. LoadEffect(u, t, l)
    BY <1>1, <2>5, <2>7 DEF LoadEffect
  <2> QED BY <2>8 DEF u, t, l
<1> QED BY <1>2, <1>3


LEMMA LoadKeyIs ==
    ASSUME NEW h \in Seq(Comment), NEW ss \in Seq(INISection),
           NEW k0 \in Key, NEW v0 \in Value, NEW c \in Comment
    PROVE  LoadEffect(LoadLine(IniOf(h, ss), KeyLine(k0, v0, c)), IniOf(h, ss), KeyLine(k0, v0, c))
<1> DEFINE t == IniOf(h, ss)
           l == KeyLine(k0, v0, c)
           u == LoadLine(t, l)
<1>1. l.kind = "key" /\ l.name = k0 /\ l.value = v0
  BY DEF KeyLine
<1>2. CASE ss = <<>>
  <2>1. u = t
    BY <1>2, KeyInHeader
  <2>2. t \in INIFile /\ t.sections = ss
    BY IniType
  <2> HIDE DEF t, u, l
  <2>3. \A s : ~Reading(t, s)
    BY <1>2, <2>2 DEF Reading
  <2>4. LoadEffect(u, t, l)
    BY <1>1, <2>1, <2>2, <2>3 DEF LoadEffect
  <2> QED BY <2>4 DEF u, t, l
<1>3. CASE ss # <<>>
  <2> DEFINE sec == ss[1]
             kv == NewKey(k0, v0, c, sec.comments_before)
             e == <<>>
             z == SecWith(sec, e, sec.keys)
             y == SecWith(sec, e, <<kv>> \o sec.keys)
  <2>1. sec \in INISection /\ sec.keys \in Seq(KeyValue) /\ sec.comments_before \in Seq(Comment) /\ e \in Seq(Comment)
    BY <1>3, Elements, SecParts
  <2>2. u = IniOf(h, <<y>> \o Tail(ss))
    <3> DEFINE KeyRead(k, v) == LoadLine(IniOf(h, ss), KeyLine(k, v, c)) =
                IniOf(h, <<SecWith(ss[1], <<>>,
                            <<NewKey(k, v, c, ss[1].comments_before)>> \o ss[1].keys)>> \o Tail(ss))
    <3>1. \A k \in Key, v \in Value : KeyRead(k, v)
      BY <1>3, LoadInSection
    <3> HIDE DEF KeyRead
    <3>2. KeyRead(k0, v0)
      BY <3>1
    <3> QED BY <3>2, Zenon DEF KeyRead
  <2>3. kv \in KeyValue /\ kv.key = k0 /\ kv.value = v0
    <3> DEFINE b == sec.comments_before
    <3>1. b \in Seq(Comment)
      BY <2>1
    <3> HIDE DEF b
    <3>2. NewKey(k0, v0, c, b) \in KeyValue /\ NewKey(k0, v0, c, b).key = k0 /\ NewKey(k0, v0, c, b).value = v0
      BY <3>1, NewKeyType
    <3> QED BY <3>2 DEF b
  <2> HIDE DEF kv, sec, e
  <2>4. z \in INISection /\ z.keys = sec.keys /\ z.name = sec.name
    BY <2>1, SecType
  <2>5. y = KeyInFront(z, kv)
    BY OtherKeys
  <2> HIDE DEF z, y
  <2>6. /\ y \in INISection /\ y.name = z.name
        /\ \A k, v : SecHolds(y, k, v) <=> (k = kv.key /\ v = kv.value) \/ SecHolds(z, k, v)
    BY <2>3, <2>4, <2>5, KeyInFrontIs
  <2>7. \A k, v : SecHolds(z, k, v) <=> SecHolds(sec, k, v)
    BY <2>4, SameKeys
  <2>8. y.name = ss[1].name
    BY <2>4, <2>6 DEF sec
  <2> HIDE DEF u
  <2>9. /\ u \in INIFile
        /\ \A s : Reading(u, s) <=> Reading(t, s)
        /\ \A s : Reading(t, s) <=> s = ss[1].name
        /\ \A s, k, v : Holds(u, s, k, v) <=> (s = y.name /\ SecHolds(y, k, v)) \/ OthersHold(t, 1, s, k, v)
        /\ \A s, k, v : Holds(t, s, k, v) <=> (s = y.name /\ SecHolds(ss[1], k, v)) \/ OthersHold(t, 1, s, k, v)
    BY <1>3, <2>2, <2>6, <2>8, FrontSwappedIs
  <2> HIDE DEF t, l
  <2>10. \A s, k, v : Holds(u, s, k, v) <=>
            Holds(t, s, k, v) \/ (Reading(t, s) /\ k = k0 /\ v = v0)
    <3> TAKE s, k, v
    <3>1. SecHolds(y, k, v) <=> (k = k0 /\ v = v0) \/ SecHolds(ss[1], k, v)
      BY <2>3, <2>6, <2>7 DEF sec
    <3>2. Reading(t, s) <=> s = y.name
      BY <2>8, <2>9
    <3>3. Holds(u, s, k, v) <=> (s = y.name /\ SecHolds(y, k, v)) \/ OthersHold(t, 1, s, k, v)
      BY <2>9
    <3>4. Holds(t, s, k, v) <=> (s = y.name /\ SecHolds(ss[1], k, v)) \/ OthersHold(t, 1, s, k, v)
      BY <2>9
    <3> QED BY <3>1, <3>2, <3>3, <3>4, Zenon
  <2>11. LoadEffect(u, t, l)
    BY <1>1, <2>9, <2>10 DEF LoadEffect
  <2> QED BY <2>11 DEF u, t, l
<1> QED BY <1>2, <1>3

EmptyInFront(u, t, s, c) == u = IniOf(t.header_comments, <<NewSection(s, c)>> \o t.sections)

EmptyInFrontIs(u, t, s) ==
    /\ u \in INIFile
    /\ \A r : Reading(u, r) <=> r = s
    /\ \A r, k, v : Holds(u, r, k, v) <=> Holds(t, r, k, v)

LEMMA EmptySectionInFront ==
    ASSUME NEW t \in INIFile, NEW s0 \in Section, NEW c \in Comment,
           NEW u, EmptyInFront(u, t, s0, c)
    PROVE  EmptyInFrontIs(u, t, s0)
<1> DEFINE y == NewSection(s0, c)
           ss == t.sections
           h == t.header_comments
           p == <<y>> \o ss
<1>1. y \in INISection /\ y.name = s0 /\ y.keys = <<>>
  BY NewSectionType
<1> HIDE DEF y
<1>2. \A k, v : ~SecHolds(y, k, v)
  <2>1. Len(y.keys) = 0
    BY <1>1
  <2> QED BY <2>1 DEF SecHolds
<1>3. u = InFront(t, y)
  <2>1. InFront(t, y) = [t EXCEPT !.sections = p]
    BY DEF InFront
  <2>2. t = IniOf(h, ss)
    BY IniParts
  <2> HIDE DEF h, ss, p
  <2>3. [IniOf(h, ss) EXCEPT !.sections = p] = IniOf(h, p)
    BY DEF IniOf
  <2>4. u = IniOf(h, p)
    BY Zenon DEF h, ss, p, y, EmptyInFront
  <2> QED BY <2>1, <2>2, <2>3, <2>4
<1>4. /\ u \in INIFile
      /\ \A s, k, v : Holds(u, s, k, v) <=> (s = y.name /\ SecHolds(y, k, v)) \/ Holds(t, s, k, v)
  BY <1>1, <1>3, SectionInFrontIs
<1>5. u.sections # <<>> /\ u.sections[1] = y
  <2>1. ss \in Seq(INISection) /\ h \in Seq(Comment)
    BY IniParts
  <2>2. u = IniOf(h, p)
    BY DEF y, EmptyInFront
  <2> HIDE DEF ss, h
  <2>3. p # <<>> /\ p[1] = y
    BY <1>1, <2>1, InFrontOf
  <2> HIDE DEF p
  <2> QED BY <2>2, <2>3 DEF IniOf
<1> QED BY <1>1, <1>2, <1>4, <1>5 DEF Reading, EmptyInFrontIs

LEMMA LoadSectionIs ==
    ASSUME NEW h \in Seq(Comment), NEW ss \in Seq(INISection),
           NEW s0 \in Section, NEW c \in Comment
    PROVE  LoadEffect(LoadLine(IniOf(h, ss), SectionLine(s0, c)), IniOf(h, ss), SectionLine(s0, c))
<1> DEFINE t == IniOf(h, ss)
           l == SectionLine(s0, c)
           u == LoadLine(t, l)
<1>1. l.kind = "section" /\ l.name = s0
  BY DEF SectionLine
<1>2. ASSUME NEW r \in INIFile, u = IniOf(r.header_comments, <<NewSection(s0, c)>> \o r.sections),
             \A s, k, v : Holds(r, s, k, v) <=> Holds(t, s, k, v)
      PROVE  LoadEffect(u, t, l)
  <2> HIDE DEF u, t, l
  <2>1. /\ u \in INIFile
        /\ \A s : Reading(u, s) <=> s = s0
        /\ \A s, k, v : Holds(u, s, k, v) <=> Holds(r, s, k, v)
    <3>1. EmptyInFront(u, r, s0, c)
      BY <1>2 DEF EmptyInFront
    <3>2. EmptyInFrontIs(u, r, s0)
      BY <3>1, EmptySectionInFront
    <3> QED BY <3>2 DEF EmptyInFrontIs
  <2> QED BY <1>1, <1>2, <2>1 DEF LoadEffect
<1>3. CASE ss = <<>>
  <2> DEFINE e == <<>>
             d == <<>>
             r == IniOf(e, d)
             y == NewSection(s0, c)
  <2>1. e \in Seq(Comment) /\ d \in Seq(INISection)
    OBVIOUS
  <2>2. u = IniOf(e, <<y>>)
    BY <1>3, SectionInHeader
  <2>3. <<y>> = <<y>> \o d
    OBVIOUS
  <2>4. \A s, k, v : Holds(r, s, k, v) <=> Holds(t, s, k, v)
    BY <1>3 DEF Holds, IniOf
  <2> HIDE DEF e, d, u
  <2>5. r \in INIFile /\ r.header_comments = e /\ r.sections = d
    BY <2>1, IniType
  <2> HIDE DEF r, y
  <2>6. u = IniOf(r.header_comments, <<y>> \o r.sections)
    BY <2>2, <2>3, <2>5, Zenon
  <2> QED BY <1>2, <2>4, <2>5, <2>6 DEF u, y
<1>4. CASE ss # <<>>
  <2> DEFINE sec == ss[1]
             e == <<>>
             z == SecWith(sec, e, sec.keys)
             r == IniOf(h, <<z>> \o Tail(ss))
             y == NewSection(s0, c)
  <2>1. sec \in INISection /\ sec.keys \in Seq(KeyValue) /\ e \in Seq(Comment)
    BY <1>4, Elements, SecParts
  <2>2. u = IniOf(h, <<y>> \o (<<z>> \o Tail(ss)))
    <3> DEFINE SectionRead(s) == LoadLine(IniOf(h, ss), SectionLine(s, c)) =
                IniOf(h, <<NewSection(s, c)>> \o (<<SecWith(ss[1], <<>>, ss[1].keys)>> \o Tail(ss)))
    <3>1. \A s \in Section : SectionRead(s)
      BY <1>4, LoadInSection
    <3> HIDE DEF SectionRead
    <3>2. SectionRead(s0)
      BY <3>1
    <3> QED BY <3>2, Zenon DEF SectionRead
  <2>3. r.header_comments = h /\ r.sections = <<z>> \o Tail(ss)
    BY DEF IniOf
  <2> HIDE DEF sec, e
  <2>4. z \in INISection /\ z.keys = sec.keys /\ z.name = sec.name
    BY <2>1, SecType
  <2> HIDE DEF z, u
  <2>5. z.name = ss[1].name
    BY <2>4 DEF sec
  <2>6. /\ r \in INIFile
        /\ \A s, k, v : Holds(r, s, k, v) <=> (s = z.name /\ SecHolds(z, k, v)) \/ OthersHold(t, 1, s, k, v)
        /\ \A s, k, v : Holds(t, s, k, v) <=> (s = z.name /\ SecHolds(ss[1], k, v)) \/ OthersHold(t, 1, s, k, v)
    BY <1>4, <2>4, <2>5, FrontSwappedIs
  <2>7. \A k, v : SecHolds(z, k, v) <=> SecHolds(ss[1], k, v)
    BY <2>4, SameKeys DEF sec
  <2> HIDE DEF r, y, t
  <2>8. \A s, k, v : Holds(r, s, k, v) <=> Holds(t, s, k, v)
    BY <2>6, <2>7
  <2>9. u = IniOf(r.header_comments, <<y>> \o r.sections)
    BY <2>2, <2>3, Zenon
  <2> QED BY <1>2, <2>6, <2>8, <2>9 DEF u, y, t
<1> QED BY <1>3, <1>4

LEMMA LoadLineIs ==
    ASSUME NEW t \in INIFile, NEW l \in Line
    PROVE  LoadEffect(LoadLine(t, l), t, l)
<1> DEFINE h == t.header_comments
           ss == t.sections
<1>1. h \in Seq(Comment) /\ ss \in Seq(INISection) /\ t = IniOf(h, ss)
  BY IniParts
<1> HIDE DEF h, ss
<1>2. CASE \E c \in Comment : l = CommentLine(c)
  BY <1>1, <1>2, LoadCommentIs
<1>3. CASE \E s \in Section, c \in Comment : l = SectionLine(s, c)
  BY <1>1, <1>3, LoadSectionIs
<1>4. CASE \E k \in Key, v \in Value, c \in Comment : l = KeyLine(k, v, c)
  BY <1>1, <1>4, LoadKeyIs
<1> QED BY <1>2, <1>3, <1>4 DEF Line


\* The last section line of the first i lines is one of section s.
LastIs(file, i, s) ==
    \E m \in 1 .. i :
        /\ file[m].kind = "section" /\ file[m].name = s
        /\ \A j \in m + 1 .. i : file[j].kind # "section"

\* The first i lines give k in section s the value v.
Gives(file, i, s, k, v) ==
    \E n \in 1 .. i :
        /\ file[n].kind = "key" /\ file[n].name = k /\ file[n].value = v
        /\ LastIs(file, n - 1, s)

LEMMA LastStep ==
    ASSUME NEW file, NEW i \in Nat \ {0}, NEW s
    PROVE  LastIs(file, i, s) <=>
                IF file[i].kind = "section" THEN file[i].name = s ELSE LastIs(file, i - 1, s)
<1>1. CASE file[i].kind = "section"
  <2>1. ASSUME file[i].name = s PROVE LastIs(file, i, s)
    <3>1. i \in 1 .. i /\ i + 1 .. i = {}
      OBVIOUS
    <3> QED BY <1>1, <2>1, <3>1 DEF LastIs
  <2>2. ASSUME LastIs(file, i, s) PROVE file[i].name = s
    <3>1. PICK m \in 1 .. i : /\ file[m].kind = "section" /\ file[m].name = s
                              /\ \A j \in m + 1 .. i : file[j].kind # "section"
      BY <2>2 DEF LastIs
    <3>2. m # i => i \in m + 1 .. i
      OBVIOUS
    <3> QED BY <1>1, <3>1, <3>2
  <2> QED BY <1>1, <2>1, <2>2
<1>2. CASE file[i].kind # "section"
  <2>1. ASSUME LastIs(file, i, s) PROVE LastIs(file, i - 1, s)
    <3>1. PICK m \in 1 .. i : /\ file[m].kind = "section" /\ file[m].name = s
                              /\ \A j \in m + 1 .. i : file[j].kind # "section"
      BY <2>1 DEF LastIs
    <3>2. m # i
      BY <1>2, <3>1
    <3>3. m \in 1 .. i - 1 /\ \A j \in m + 1 .. i - 1 : j \in m + 1 .. i
      BY <3>2
    <3> QED BY <3>1, <3>3 DEF LastIs
  <2>2. ASSUME LastIs(file, i - 1, s) PROVE LastIs(file, i, s)
    <3>1. PICK m \in 1 .. i - 1 : /\ file[m].kind = "section" /\ file[m].name = s
                                  /\ \A j \in m + 1 .. i - 1 : file[j].kind # "section"
      BY <2>2 DEF LastIs
    <3>2. m \in 1 .. i /\ \A j \in m + 1 .. i : j = i \/ j \in m + 1 .. i - 1
      OBVIOUS
    <3> QED BY <1>2, <3>1, <3>2 DEF LastIs
  <2> QED BY <1>2, <2>1, <2>2
<1> QED BY <1>1, <1>2

LEMMA GivesStep ==
    ASSUME NEW file, NEW i \in Nat \ {0}, NEW s, NEW k, NEW v
    PROVE  Gives(file, i, s, k, v) <=>
                \/ Gives(file, i - 1, s, k, v)
                \/ /\ file[i].kind = "key" /\ LastIs(file, i - 1, s)
                   /\ k = file[i].name /\ v = file[i].value
<1> DEFINE G(n) == /\ file[n].kind = "key" /\ file[n].name = k /\ file[n].value = v
                   /\ LastIs(file, n - 1, s)
<1>1. Gives(file, i, s, k, v) <=> \E n \in 1 .. i : G(n)
  BY DEF Gives
<1>2. Gives(file, i - 1, s, k, v) <=> \E n \in 1 .. i - 1 : G(n)
  BY DEF Gives
<1>3. G(i) <=> /\ file[i].kind = "key" /\ LastIs(file, i - 1, s)
               /\ k = file[i].name /\ v = file[i].value
  BY Zenon
<1> HIDE DEF G
<1>4. \A n \in 1 .. i : n = i \/ n \in 1 .. i - 1
  OBVIOUS
<1>5. i \in 1 .. i /\ \A n \in 1 .. i - 1 : n \in 1 .. i
  OBVIOUS
<1> QED BY <1>1, <1>2, <1>3, <1>4, <1>5, Zenon

ReadSoFar(t, file, i) ==
    /\ t \in INIFile
    /\ \A s : Reading(t, s) <=> LastIs(file, i, s)
    /\ \A s, k, v : Holds(t, s, k, v) <=> Gives(file, i, s, k, v)

LEMMA LoadedSays ==
    ASSUME NEW file \in Seq(Line)
    PROVE  ReadSoFar(Loaded(file), file, Len(file))
<1> DEFINE n == Len(file)
           a == Loading(Empty, file)
           T == {i \in 0 .. n : ReadSoFar(a[i], file, i)}
<1>1. n \in Nat /\ \A i \in 1 .. n : file[i] \in Line
  BY Elements
<1>2. a[0] = Empty /\ \A i \in 1 .. n : a[i] = LoadLine(a[i - 1], file[i])
  BY <1>1, LoadingSteps
<1> HIDE DEF a
<1>3. ReadSoFar(Empty, file, 0)
  <2> DEFINE e == <<>>
             d == <<>>
  <2>1. e \in Seq(Comment) /\ d \in Seq(INISection) /\ Len(d) = 0
    OBVIOUS
  <2>2. Empty = IniOf(e, d)
    BY DEF Empty
  <2> HIDE DEF e
  <2>3. Empty \in INIFile /\ Empty.sections = d
    <3> HIDE DEF d
    <3> QED BY <2>1, <2>2, IniType
  <2>4. \A s : ~Reading(Empty, s) /\ ~LastIs(file, 0, s)
    BY <2>3 DEF Reading, LastIs
  <2>5. \A s, k, v : ~Holds(Empty, s, k, v) /\ ~Gives(file, 0, s, k, v)
    BY <2>1, <2>3 DEF Holds, Gives
  <2> QED BY <2>3, <2>4, <2>5 DEF ReadSoFar
<1>4. 0 \in T
  BY <1>1, <1>2, <1>3
<1>5. ASSUME NEW i \in 1 .. n, i - 1 \in T PROVE i \in T
  <2> DEFINE t == a[i - 1]
             l == file[i]
             u == a[i]
  <2>1. l \in Line /\ u = LoadLine(t, l) /\ i \in Nat \ {0}
    BY <1>1, <1>2
  <2>2. ReadSoFar(t, file, i - 1)
    BY <1>5
  <2> HIDE DEF t, l, u
  <2>3. LoadEffect(u, t, l)
    BY <2>1, <2>2, LoadLineIs DEF ReadSoFar
  <2>4. u \in INIFile
    BY <2>3 DEF LoadEffect
  <2>5. ASSUME NEW s PROVE Reading(u, s) <=> LastIs(file, i, s)
    <3>1. LastIs(file, i, s) <=> IF l.kind = "section" THEN l.name = s ELSE LastIs(file, i - 1, s)
      BY <2>1, LastStep DEF l
    <3>2. Reading(u, s) <=> IF l.kind = "section" THEN s = l.name ELSE Reading(t, s)
      BY <2>3 DEF LoadEffect
    <3>3. Reading(t, s) <=> LastIs(file, i - 1, s)
      BY <2>2 DEF ReadSoFar
    <3> QED BY <3>1, <3>2, <3>3, Zenon
  <2>6. ASSUME NEW s, NEW k, NEW v PROVE Holds(u, s, k, v) <=> Gives(file, i, s, k, v)
    <3>1. Gives(file, i, s, k, v) <=>
                \/ Gives(file, i - 1, s, k, v)
                \/ /\ l.kind = "key" /\ LastIs(file, i - 1, s)
                   /\ k = l.name /\ v = l.value
      BY <2>1, GivesStep DEF l
    <3>2. Holds(u, s, k, v) <=>
            \/ Holds(t, s, k, v)
            \/ l.kind = "key" /\ Reading(t, s) /\ k = l.name /\ v = l.value
      BY <2>3 DEF LoadEffect
    <3>3. (Reading(t, s) <=> LastIs(file, i - 1, s)) /\ (Holds(t, s, k, v) <=> Gives(file, i - 1, s, k, v))
      BY <2>2 DEF ReadSoFar
    <3> QED BY <3>1, <3>2, <3>3, Zenon
  <2>7. ReadSoFar(u, file, i)
    BY <2>4, <2>5, <2>6 DEF ReadSoFar
  <2> QED BY <2>7 DEF u
<1>6. n \in T
  <2> HIDE DEF T
  <2>1. 0 .. n \subseteq T
    BY <1>1, <1>4, <1>5, Climb
  <2> QED BY <1>1, <2>1
<1>7. Loaded(file) = a[n]
  BY LoadedIsRead DEF Read, a
<1> QED BY <1>6, <1>7

\* What a file says to its reader is what ini_load finds.
LEMMA FileViewIs ==
    ASSUME NEW file \in Seq(Line), AllOnce(Loaded(file))
    PROVE  FileView(file) = View(Loaded(file))
<1> DEFINE t == Loaded(file)
           pick(N) == CHOOSE i \in N : TRUE
<1>1. t \in INIFile /\ \A s, k, v : Holds(t, s, k, v) <=> Gives(file, Len(file), s, k, v)
  BY LoadedSays DEF ReadSoFar
<1> HIDE DEF t
<1>2. ASSUME NEW s \in Section, NEW k \in Key
      PROVE  Get(t, s, k) = IF Says(file, s, k) = {} THEN Missing
                            ELSE file[pick(Says(file, s, k))].value
  <2> DEFINE N == Says(file, s, k)
             g == Get(t, s, k)
  <2>1. \A n : n \in N <=> /\ n \in 1 .. Len(file) /\ file[n].kind = "key" /\ file[n].name = k
                           /\ LastIs(file, n - 1, s)
    <3>1. DOMAIN file = 1 .. Len(file)
      BY Elements
    <3> QED BY <3>1 DEF Says, LastIs
  <2>2. Told(t, s, k, g)
    BY <1>1, GetIs DEF t
  <2> HIDE DEF N, g
  <2>3. \A v : Holds(t, s, k, v) <=> \E n \in N : file[n].value = v
    BY <1>1, <2>1 DEF Gives
  <2>4. CASE N = {}
    <3>1. \A v : ~Holds(t, s, k, v)
      BY <2>3, <2>4
    <3>2. g = Missing
      BY <2>2, <3>1 DEF Told
    <3> QED BY <2>4, <3>2 DEF N, g
  <2>5. CASE N # {}
    <3> DEFINE i == pick(N)
    <3>1. i \in N
      BY <2>5
    <3> HIDE DEF i
    <3>2. Holds(t, s, k, file[i].value)
      BY <2>3, <3>1
    <3>3. g = file[i].value
      BY <2>2, <3>2 DEF Told
    <3> QED BY <2>5, <3>3 DEF N, g, i
  <2> QED BY <2>4, <2>5
<1> HIDE DEF pick
<1>3. \A at \in Section \X Key : Get(t, at[1], at[2]) =
        IF Says(file, at[1], at[2]) = {} THEN Missing ELSE file[pick(Says(file, at[1], at[2]))].value
  BY <1>2
<1>4. FileView(file) = [at \in Section \X Key |->
        IF Says(file, at[1], at[2]) = {} THEN Missing ELSE file[pick(Says(file, at[1], at[2]))].value]
  BY Zenon DEF FileView, pick
<1>5. View(t) = [at \in Section \X Key |-> Get(t, at[1], at[2])]
  BY DEF View
<1>6. View(t) = FileView(file)
  BY <1>3, <1>4, <1>5
<1> QED BY <1>6 DEF t


------------------------------------------------------------------------------
(***************************************************************************)
(* A save and a load lose nothing that is set.                             *)
(***************************************************************************)
LEMMA TurnedHolds ==
    ASSUME NEW sec \in INISection, NEW b \in Seq(Comment)
    PROVE  /\ \A k, v : SecHolds(Turned(sec, b), k, v) <=> SecHolds(sec, k, v)
           /\ KeysOnce(sec) => KeysOnce(Turned(sec, b))
<1> DEFINE y == Turned(sec, b)
           ks == sec.keys
           r == Reverse(ks)
           m == Len(ks)
<1>1. y.keys = r /\ ks \in Seq(KeyValue)
  BY TurnedType, SecParts
<1> HIDE DEF y, ks
<1>2. /\ Len(r) = m /\ m \in Nat
      /\ \A j \in 1 .. m : r[j] = ks[m - j + 1] /\ ks[j] = r[m - j + 1]
  BY <1>1, ReverseIs
<1> HIDE DEF r, m
<1>3. \A j \in 1 .. m : m - j + 1 \in 1 .. m
  BY <1>2
<1>4. ASSUME NEW k, NEW v PROVE SecHolds(y, k, v) <=> SecHolds(sec, k, v)
  <2>1. SecHolds(y, k, v) <=> \E j \in 1 .. m : r[j].key = k /\ r[j].value = v
    BY <1>1, <1>2 DEF SecHolds
  <2>2. SecHolds(sec, k, v) <=> \E j \in 1 .. m : ks[j].key = k /\ ks[j].value = v
    BY DEF SecHolds, ks, m
  <2> QED BY <1>2, <1>3, <2>1, <2>2
<1>5. ASSUME KeysOnce(sec) PROVE KeysOnce(y)
  <2>1. \A i, j \in 1 .. m : ks[i].key = ks[j].key => i = j
    BY <1>5 DEF KeysOnce, ks, m
  <2>2. ASSUME NEW i \in 1 .. m, NEW j \in 1 .. m, r[i].key = r[j].key PROVE i = j
    <3>1. m - i + 1 = m - j + 1
      BY <1>2, <1>3, <2>1, <2>2
    <3> QED BY <1>2, <3>1
  <2> QED BY <1>1, <1>2, <2>2 DEF KeysOnce
<1> QED BY <1>4, <1>5 DEF y

LEMMA BehindType == ASSUME NEW n PROVE Behind(n) \in Seq(Comment)
BY BlankComment DEF Behind

LEMMA ReloadedHolds ==
    ASSUME NEW t \in INIFile, NEW u, Reloaded(t, u)
    PROVE  /\ u \in INIFile
           /\ AllOnce(t) => AllOnce(u)
           /\ \A s, k, v : Holds(u, s, k, v) <=> Holds(t, s, k, v)
<1> DEFINE ss == t.sections
           us == u.sections
           m == Len(ss)
           z(n) == ss[m - n + 1]
<1>1. u \in INIFile /\ Len(us) = m /\ \A n \in 1 .. m : us[n] = Turned(z(n), Behind(n))
  BY DEF Reloaded
<1>2. m \in Nat /\ \A n \in 1 .. m : ss[n] \in INISection
  BY IniParts, Elements
<1> HIDE DEF us
<1>3. \A n \in 1 .. m : m - n + 1 \in 1 .. m /\ z(n) \in INISection /\ m - (m - n + 1) + 1 = n
  <2> HIDE DEF ss, m
  <2> QED BY <1>2
<1> HIDE DEF ss, m
<1>4. ASSUME NEW n \in 1 .. m
      PROVE  /\ us[n].name = z(n).name
             /\ \A k, v : SecHolds(us[n], k, v) <=> SecHolds(z(n), k, v)
             /\ KeysOnce(z(n)) => KeysOnce(us[n])
  <2> DEFINE y == z(n)
             b == Behind(n)
  <2>1. y \in INISection /\ b \in Seq(Comment) /\ us[n] = Turned(y, b)
    BY <1>1, <1>3, BehindType
  <2> HIDE DEF y, b
  <2>2. Turned(y, b).name = y.name
    BY <2>1, TurnedType
  <2>3. /\ \A k, v : SecHolds(Turned(y, b), k, v) <=> SecHolds(y, k, v)
        /\ KeysOnce(y) => KeysOnce(Turned(y, b))
    BY <2>1, TurnedHolds
  <2> QED BY <2>1, <2>2, <2>3 DEF y
<1>5. ASSUME NEW s, NEW k, NEW v PROVE Holds(u, s, k, v) <=> Holds(t, s, k, v)
  <2>1. Holds(u, s, k, v) <=> \E n \in 1 .. m : us[n].name = s /\ SecHolds(us[n], k, v)
    BY <1>1 DEF Holds, us
  <2>2. Holds(t, s, k, v) <=> \E n \in 1 .. m : ss[n].name = s /\ SecHolds(ss[n], k, v)
    BY DEF Holds, ss, m
  <2>3. \A n \in 1 .. m : us[n].name = s /\ SecHolds(us[n], k, v) <=> z(n).name = s /\ SecHolds(z(n), k, v)
    BY <1>4
  <2>4. \A n \in 1 .. m : z(m - n + 1) = ss[n]
    BY <1>3
  <2> DEFINE P(x) == x.name = s /\ SecHolds(x, k, v)
  <2>5. ASSUME NEW n \in 1 .. m, P(us[n]) PROVE \E i \in 1 .. m : P(ss[i])
    BY <1>3, <2>3, <2>5
  <2>6. ASSUME NEW n \in 1 .. m, P(ss[n]) PROVE \E i \in 1 .. m : P(us[i])
    <3> DEFINE i == m - n + 1
    <3>1. i \in 1 .. m /\ z(i) = ss[n]
      BY <1>3, <2>4
    <3> HIDE DEF i, z
    <3> QED BY <2>3, <2>6, <3>1
  <2> QED BY <2>1, <2>2, <2>5, <2>6
<1>6. ASSUME AllOnce(t) PROVE AllOnce(u)
  <2>1. /\ \A i, j \in 1 .. m : ss[i].name = ss[j].name => i = j
        /\ \A i \in 1 .. m : KeysOnce(ss[i])
    BY <1>6 DEF AllOnce, NamesOnce, ss, m
  <2>2. ASSUME NEW i \in 1 .. m, NEW j \in 1 .. m, us[i].name = us[j].name PROVE i = j
    <3>1. z(i).name = z(j).name
      BY <1>4, <2>2
    <3>2. m - i + 1 = m - j + 1
      BY <1>3, <2>1, <3>1
    <3> QED BY <1>2, <3>2 DEF m
  <2>3. \A i \in 1 .. m : KeysOnce(us[i])
    BY <1>3, <1>4, <2>1
  <2> QED BY <1>1, <2>2, <2>3 DEF AllOnce, NamesOnce, us
<1> QED BY <1>1, <1>5, <1>6

LEMMA ViewIs ==
    ASSUME NEW t \in INIFile, NEW u \in INIFile, AllOnce(t), AllOnce(u),
           \A s, k, v : Holds(u, s, k, v) <=> Holds(t, s, k, v)
    PROVE  View(u) = View(t)
<1>1. ASSUME NEW s \in Section, NEW k \in Key PROVE Get(u, s, k) = Get(t, s, k)
  <2> DEFINE g == Get(t, s, k)
             h == Get(u, s, k)
  <2>1. Told(t, s, k, g) /\ Told(u, s, k, h)
    BY GetIs
  <2> HIDE DEF g, h
  <2>2. h = g
    BY <2>1, OneAnswer
  <2> QED BY <2>2 DEF g, h
<1> QED BY <1>1 DEF View

LEMMA ViewType ==
    ASSUME NEW t \in INIFile, AllOnce(t)
    PROVE  View(t) \in [Section \X Key -> Value \cup {Missing}]
<1>1. \A s \in Section, k \in Key : Get(t, s, k) \in Value \cup {Missing}
  BY GetIs DEF Told
<1> QED BY <1>1 DEF View

LEMMA SavedView ==
    ASSUME NEW t \in INIFile, AllOnce(t)
    PROVE  /\ Saved(t) \in Seq(Line) /\ AllOnce(Loaded(Saved(t)))
           /\ FileView(Saved(t)) = View(t)
<1> DEFINE u == Reload(t)
           f == Saved(t)
<1>1. Reloaded(t, u) /\ f \in Seq(Line)
  BY ReloadIs
<1>2. u = Loaded(f)
  BY DEF Reload
<1> HIDE DEF u, f
<1>3. u \in INIFile /\ AllOnce(u) /\ \A s, k, v : Holds(u, s, k, v) <=> Holds(t, s, k, v)
  BY <1>1, ReloadedHolds
<1>4. View(u) = View(t)
  BY <1>3, ViewIs
<1>5. FileView(f) = View(Loaded(f))
  BY <1>1, <1>2, <1>3, FileViewIs
<1> QED BY <1>1, <1>2, <1>3, <1>4, <1>5 DEF f


------------------------------------------------------------------------------
(***************************************************************************)
(* The inductive invariant, and the steps of the table.                    *)
(***************************************************************************)
\* ini.c looks for the first match only, so what it says of a section or a
\* key is true as long as nothing is there twice.
IniInv ==
    /\ IniTypeOK
    /\ NothingTwice(Loaded(lines))
    /\ IsLoaded => NothingTwice(ini)

Stored == FileView(lines)

Mem == IF IsLoaded THEN View(ini) ELSE NoCopy

\* Two lists that differ in what they say of key k in section s only.
SameElsewhere(u, t, s, k) ==
    \A r, l, w : ~(r = s /\ l = k) => (Holds(u, r, l, w) <=> Holds(t, r, l, w))

LEMMA ViewExcept ==
    ASSUME NEW t \in INIFile, AllOnce(t), NEW u \in INIFile, AllOnce(u),
           NEW s, NEW k, NEW g, Told(u, s, k, g), SameElsewhere(u, t, s, k)
    PROVE  View(u) = [View(t) EXCEPT ![<<s, k>>] = g]
<1>1. ASSUME NEW r \in Section, NEW l \in Key
      PROVE  Get(u, r, l) = IF <<r, l>> = <<s, k>> THEN g ELSE Get(t, r, l)
  <2> DEFINE x == Get(t, r, l)
             y == Get(u, r, l)
  <2>1. Told(t, r, l, x) /\ Told(u, r, l, y)
    BY GetIs
  <2> HIDE DEF x, y
  <2>2. CASE r = s /\ l = k
    <3>1. Told(u, r, l, g)
      BY <2>2
    <3>2. y = g
      BY <2>1, <3>1 DEF Told
    <3> QED BY <2>2, <3>2 DEF y
  <2>3. CASE ~(r = s /\ l = k)
    <3>1. \A w : Holds(u, r, l, w) <=> Holds(t, r, l, w)
      BY <2>3 DEF SameElsewhere
    <3>2. y = x
      BY <2>1, <3>1, OneAnswer
    <3> QED BY <2>3, <3>2 DEF x, y
  <2> QED BY <2>2, <2>3
<1>2. \A at \in Section \X Key : at = <<at[1], at[2]>> /\ at[1] \in Section /\ at[2] \in Key
  OBVIOUS
<1> DEFINE D == Section \X Key
           x == <<s, k>>
           f == View(t)
<1>3. \A at \in D : Get(u, at[1], at[2]) = IF at = x THEN g ELSE Get(t, at[1], at[2])
  BY <1>1, <1>2
<1>4. \A at \in D : f[at] = Get(t, at[1], at[2])
  BY DEF View
<1>5. View(u) = [at \in D |-> Get(u, at[1], at[2])] /\ DOMAIN f = D
  BY DEF View
<1> HIDE DEF D, x, f
<1>6. View(u) = [at \in D |-> IF at = x THEN g ELSE f[at]]
  BY <1>3, <1>4, <1>5
<1>7. [f EXCEPT ![x] = g] = [at \in DOMAIN f |-> IF at = x THEN g ELSE f[at]]
  OBVIOUS
<1> QED BY <1>5, <1>6, <1>7, Zenon DEF f, x

LEMMA ViewSet ==
    ASSUME NEW t \in INIFile, AllOnce(t), NEW s \in Section, NEW k \in Key, NEW v \in Value,
           NEW u, u = SetValue(t, s, k, v)
    PROVE  u \in INIFile /\ AllOnce(u) /\ View(u) = [View(t) EXCEPT ![<<s, k>>] = v]
<1>1. /\ u \in INIFile /\ AllOnce(u)
      /\ \A r, l, w : Holds(u, r, l, w) <=>
            IF r = s /\ l = k THEN w = v ELSE Holds(t, r, l, w)
  BY SetValueIs
<1>2. Told(u, s, k, v) /\ SameElsewhere(u, t, s, k)
  BY <1>1 DEF Told, SameElsewhere
<1>3. View(u) = [View(t) EXCEPT ![<<s, k>>] = v]
  BY <1>1, <1>2, ViewExcept
<1> QED BY <1>1, <1>3

LEMMA MemIs ==
    ASSUME IniInv
    PROVE  /\ IsLoaded => ini \in INIFile /\ AllOnce(ini) /\ Mem = View(ini) /\ Mem # NoCopy
                          /\ DOMAIN Mem = Section \X Key
           /\ ~IsLoaded => Mem = NoCopy
<1>1. ASSUME IsLoaded
      PROVE  ini \in INIFile /\ AllOnce(ini) /\ Mem = View(ini) /\ Mem # NoCopy /\ DOMAIN Mem = Section \X Key
  <2>1. ini \in INIFile /\ AllOnce(ini)
    BY <1>1, NothingTwiceIs DEF IniInv, IniTypeOK
  <2>2. View(ini) \in [Section \X Key -> Value \cup {Missing}]
    BY <2>1, ViewType
  <2>3. Mem = View(ini)
    BY <1>1 DEF Mem
  <2> QED BY <2>1, <2>2, <2>3, NoCopyAssumption
<1> QED BY <1>1 DEF Mem

LEMMA ChangeIs ==
    ASSUME IniInv, IsLoaded, NEW u \in INIFile, AllOnce(u), Change(u)
    PROVE  IniInv' /\ Mem' = View(u) /\ Stored' = Stored
<1>1. ini' = u /\ lines' = lines /\ ops < MaxOps /\ ops' = ops + 1
  BY DEF Change
<1>2. IsLoaded'
  BY <1>1, NoCopyAssumption DEF IsLoaded
<1>3. NothingTwice(u)
  BY NothingTwiceIs
<1>4. IniTypeOK'
  <2>1. ops \in 0 .. MaxOps /\ MaxOps \in Nat /\ lines \in Seq(Line)
    BY IniAssumption DEF IniInv, IniTypeOK
  <2>2. ops' \in 0 .. MaxOps
    BY <1>1, <2>1
  <2> QED BY <1>1, <2>1, <2>2 DEF IniTypeOK
<1>5. IniInv'
  BY <1>1, <1>3, <1>4 DEF IniInv
<1>6. Mem' = View(u) /\ Stored' = Stored
  BY <1>1, <1>2 DEF Mem, Stored
<1> QED BY <1>5, <1>6


LEMMA LoadStep ==
    ASSUME IniInv, Load
    PROVE  IniInv' /\ Mem' = Stored /\ Stored' = Stored /\ Mem = NoCopy
<1> DEFINE u == Loaded(lines)
<1>1. ini' = u /\ lines' = lines /\ ops' = ops /\ ~IsLoaded
  BY DEF Load
<1>2. lines \in Seq(Line) /\ ops \in 0 .. MaxOps /\ NothingTwice(u)
  BY DEF IniInv, IniTypeOK
<1>3. u \in INIFile
  BY <1>2, LoadedSays DEF ReadSoFar
<1>4. FileView(lines) = View(u)
  <2>1. AllOnce(Loaded(lines))
    BY <1>2, <1>3, NothingTwiceIs
  <2> QED BY <1>2, <2>1, FileViewIs
<1>5. lines' = lines /\ Loaded(lines') = u
  BY <1>1
<1> HIDE DEF u
<1>6. IsLoaded'
  BY <1>1, <1>3, NoCopyAssumption DEF IsLoaded
<1>7. IniInv'
  BY <1>1, <1>2, <1>3, <1>5 DEF IniInv, IniTypeOK
<1> QED BY <1>1, <1>4, <1>6, <1>7 DEF Mem, Stored

LEMMA SaveStep ==
    ASSUME IniInv, Save
    PROVE  IniInv' /\ Mem' = Mem /\ Stored' = Mem /\ Mem # NoCopy
<1> DEFINE f == Saved(ini)
<1>1. lines' = f /\ ini' = ini /\ ops' = ops /\ IsLoaded
  BY DEF Save
<1>2. ini \in INIFile /\ AllOnce(ini) /\ Mem = View(ini) /\ Mem # NoCopy
  BY <1>1, MemIs
<1>3. f \in Seq(Line) /\ AllOnce(Loaded(f)) /\ FileView(f) = View(ini)
  BY <1>2, SavedView
<1> HIDE DEF f
<1>4. NothingTwice(Loaded(f))
  <2>1. Loaded(f) \in INIFile
    BY <1>3, LoadedSays DEF ReadSoFar
  <2> QED BY <1>3, <2>1, NothingTwiceIs
<1>5. IsLoaded' /\ NothingTwice(ini) /\ ops \in 0 .. MaxOps
  BY <1>1 DEF IsLoaded, IniInv, IniTypeOK
<1>6. IniInv'
  BY <1>1, <1>2, <1>3, <1>4, <1>5 DEF IniInv, IniTypeOK
<1>7. Mem' = Mem /\ Stored' = Mem
  BY <1>1, <1>2, <1>3, <1>5 DEF Mem, Stored
<1> QED BY <1>2, <1>6, <1>7

LEMMA FreeStep ==
    ASSUME IniInv, Free
    PROVE  IniInv' /\ Mem' = NoCopy /\ Stored' = Stored /\ Mem # NoCopy
<1>1. ini' = NoCopy /\ lines' = lines /\ ops' = ops /\ IsLoaded
  BY DEF Free
<1>2. Mem # NoCopy
  BY <1>1, MemIs
<1>3. ~IsLoaded'
  BY <1>1 DEF IsLoaded
<1>4. IniInv'
  BY <1>1, <1>3 DEF IniInv, IniTypeOK
<1> QED BY <1>1, <1>2, <1>3, <1>4 DEF Mem, Stored

LEMMA SetStep ==
    ASSUME IniInv, Set
    PROVE  /\ IniInv' /\ Stored' = Stored /\ Mem # NoCopy
           /\ \E at \in Section \X Key, v \in Value : Mem' = [Mem EXCEPT ![at] = v]
<1>1. IsLoaded
  BY DEF Set
<1>2. PICK s \in Section, k \in Key, v \in Value : Change(SetValue(ini, s, k, v))
  BY DEF Set
<1>3. ini \in INIFile /\ AllOnce(ini) /\ Mem = View(ini) /\ Mem # NoCopy
  BY <1>1, MemIs
<1> DEFINE u == SetValue(ini, s, k, v)
<1>4. u \in INIFile /\ AllOnce(u) /\ View(u) = [View(ini) EXCEPT ![<<s, k>>] = v]
  BY <1>3, ViewSet
<1>5. Change(u)
  BY <1>2
<1> HIDE DEF u
<1>6. IniInv' /\ Mem' = View(u) /\ Stored' = Stored
  BY <1>1, <1>4, <1>5, ChangeIs
<1>7. <<s, k>> \in Section \X Key /\ Mem' = [Mem EXCEPT ![<<s, k>>] = v]
  BY <1>3, <1>4, <1>6
<1> QED BY <1>3, <1>6, <1>7

LEMMA DeleteKeyStep ==
    ASSUME IniInv, DeleteKey
    PROVE  /\ IniInv' /\ Stored' = Stored /\ Mem # NoCopy
           /\ \E at \in Section \X Key : Mem' = [Mem EXCEPT ![at] = Missing]
<1>1. IsLoaded
  BY DEF DeleteKey
<1>2. PICK s \in Section, k \in Key :
        LET i == FindSection(ini, s)
            j == FindKey(ini.sections[i], k)
        IN  i # 0 /\ j # 0 /\ Change([ini EXCEPT !.sections[i].keys = RemoveAt(@, j)])
  BY DEF DeleteKey
<1>3. ini \in INIFile /\ AllOnce(ini) /\ Mem = View(ini) /\ Mem # NoCopy /\ DOMAIN Mem = Section \X Key
  BY <1>1, MemIs
<1> DEFINE i == FindSection(ini, s)
           sec == ini.sections[i]
           j == FindKey(sec, k)
           u == [ini EXCEPT !.sections[i].keys = RemoveAt(@, j)]
<1>4. i # 0 /\ j # 0 /\ Change(u)
  BY <1>2
<1>5. i \in 1 .. Len(ini.sections) /\ ini.sections[i].name = s
  <2>1. SectionFound(ini, s, i) /\ Len(ini.sections) \in Nat
    BY <1>3, FindSectionIs, IniParts, Elements
  <2> QED BY <1>4, <2>1 DEF SectionFound
<1> HIDE DEF i
<1>6. j \in 1 .. Len(ini.sections[i].keys) /\ ini.sections[i].keys[j].key = k
  <2>1. sec \in INISection
    BY <1>3, <1>5, IniParts, Elements
  <2> HIDE DEF sec
  <2>2. KeyFound(sec, k, j) /\ Len(sec.keys) \in Nat
    BY <2>1, FindKeyIs, SecParts, Elements
  <2>3. j \in 1 .. Len(sec.keys) /\ sec.keys[j].key = k
    BY <1>4, <2>2 DEF KeyFound
  <2> QED BY <2>3 DEF sec
<1> HIDE DEF j
<1>7. u = [ini EXCEPT !.sections[i].keys = RemoveAt(@, j)]
  OBVIOUS
<1> HIDE DEF u
<1>8. /\ u \in INIFile /\ AllOnce(u)
      /\ \A r, l, w : Holds(u, r, l, w) <=>
            /\ ~(r = ini.sections[i].name /\ l = ini.sections[i].keys[j].key)
            /\ Holds(ini, r, l, w)
  BY <1>3, <1>5, <1>6, <1>7, DeleteKeyIs
<1>9. Told(u, s, k, Missing) /\ SameElsewhere(u, ini, s, k)
  BY <1>5, <1>6, <1>8 DEF Told, SameElsewhere
<1>10. View(u) = [View(ini) EXCEPT ![<<s, k>>] = Missing]
  BY <1>3, <1>8, <1>9, ViewExcept
<1>11. IniInv' /\ Mem' = View(u) /\ Stored' = Stored
  BY <1>1, <1>4, <1>8, ChangeIs
<1>12. <<s, k>> \in Section \X Key /\ Mem' = [Mem EXCEPT ![<<s, k>>] = Missing]
  BY <1>3, <1>10, <1>11
<1> QED BY <1>3, <1>11, <1>12

LEMMA DeleteSectionStep ==
    ASSUME IniInv, DeleteSection
    PROVE  /\ IniInv' /\ Stored' = Stored /\ Mem # NoCopy
           /\ \E s \in Section :
                Mem' = [at \in Section \X Key |-> IF at[1] = s THEN Missing ELSE Mem[at]]
<1>1. IsLoaded
  BY DEF DeleteSection
<1>2. PICK s \in Section :
        LET i == FindSection(ini, s) IN
        i # 0 /\ Change([ini EXCEPT !.sections = RemoveAt(@, i)])
  BY DEF DeleteSection
<1>3. ini \in INIFile /\ AllOnce(ini) /\ Mem = View(ini) /\ Mem # NoCopy
  BY <1>1, MemIs
<1> DEFINE i == FindSection(ini, s)
           u == [ini EXCEPT !.sections = RemoveAt(@, i)]
<1>4. i # 0 /\ Change(u)
  BY <1>2
<1>5. i \in 1 .. Len(ini.sections) /\ ini.sections[i].name = s
  <2>1. SectionFound(ini, s, i) /\ Len(ini.sections) \in Nat
    BY <1>3, FindSectionIs, IniParts, Elements
  <2> QED BY <1>4, <2>1 DEF SectionFound
<1> HIDE DEF i
<1>6. u = [ini EXCEPT !.sections = RemoveAt(@, i)]
  OBVIOUS
<1> HIDE DEF u
<1>7. /\ u \in INIFile /\ AllOnce(u)
      /\ \A r, l, w : Holds(u, r, l, w) <=> r # ini.sections[i].name /\ Holds(ini, r, l, w)
  BY <1>3, <1>5, <1>6, SectionRemoved
<1>8. View(u) = [at \in Section \X Key |-> IF at[1] = s THEN Missing ELSE View(ini)[at]]
  <2>1. ASSUME NEW r \in Section, NEW l \in Key
        PROVE  Get(u, r, l) = IF r = s THEN Missing ELSE Get(ini, r, l)
    <3> DEFINE g == Get(ini, r, l)
               h == Get(u, r, l)
    <3>1. Told(ini, r, l, g) /\ Told(u, r, l, h)
      BY <1>3, <1>7, GetIs
    <3> HIDE DEF g, h
    <3>2. CASE r = s
      <4>1. \A w : ~Holds(u, r, l, w)
        BY <1>5, <1>7, <3>2
      <4>2. h = Missing
        BY <3>1, <4>1 DEF Told
      <4> QED BY <3>2, <4>2 DEF h
    <3>3. CASE r # s
      <4>1. \A w : Holds(u, r, l, w) <=> Holds(ini, r, l, w)
        BY <1>5, <1>7, <3>3
      <4>2. h = g
        BY <3>1, <4>1, OneAnswer
      <4> QED BY <3>3, <4>2 DEF g, h
    <3> QED BY <3>2, <3>3
  <2>2. \A at \in Section \X Key : Get(u, at[1], at[2]) = IF at[1] = s THEN Missing ELSE View(ini)[at]
    BY <2>1 DEF View
  <2> QED BY <2>2 DEF View
<1>9. IniInv' /\ Mem' = View(u) /\ Stored' = Stored
  BY <1>1, <1>4, <1>7, ChangeIs
<1>10. Mem' = [at \in Section \X Key |-> IF at[1] = s THEN Missing ELSE Mem[at]]
  BY <1>3, <1>8, <1>9
<1> QED BY <1>3, <1>9, <1>10


\* Comments are nothing the table tells.
LEMMA QuietStep ==
    ASSUME IniInv, IsLoaded, NEW u \in INIFile, AllOnce(u), Change(u),
           \A r, l, w : Holds(u, r, l, w) <=> Holds(ini, r, l, w)
    PROVE  IniInv' /\ Mem' = Mem /\ Stored' = Stored
<1>1. ini \in INIFile /\ AllOnce(ini) /\ Mem = View(ini)
  BY MemIs
<1>2. View(u) = View(ini)
  BY <1>1, ViewIs
<1>3. IniInv' /\ Mem' = View(u) /\ Stored' = Stored
  BY ChangeIs
<1> QED BY <1>1, <1>2, <1>3

LEMMA AddCommentStep ==
    ASSUME IniInv, AddComment
    PROVE  IniInv' /\ Mem' = Mem /\ Stored' = Stored
<1>1. IsLoaded
  BY DEF AddComment
<1>2. ini \in INIFile /\ AllOnce(ini)
  BY <1>1, MemIs
<1>3. ASSUME NEW c \in Text, Change([ini EXCEPT !.header_comments = Append(@, c)])
      PROVE  IniInv' /\ Mem' = Mem /\ Stored' = Stored
  <2> DEFINE h == Append(ini.header_comments, c)
             u == [ini EXCEPT !.header_comments = h]
  <2>1. h \in Seq(Comment)
    BY <1>2, IniParts DEF Comment
  <2>2. Change(u)
    BY <1>3
  <2>3. u = [ini EXCEPT !.header_comments = h]
    OBVIOUS
  <2> HIDE DEF h, u
  <2>4. u \in INIFile /\ AllOnce(u) /\ \A r, l, w : Holds(u, r, l, w) <=> Holds(ini, r, l, w)
    BY <1>2, <2>1, <2>3, HeaderHoldsNothing
  <2> QED BY <1>1, <2>2, <2>4, QuietStep
<1>4. ASSUME NEW c \in Text, NEW s \in Section, FindSection(ini, s) # 0,
             Change([ini EXCEPT !.sections[FindSection(ini, s)].comments_before = Append(@, c)])
      PROVE  IniInv' /\ Mem' = Mem /\ Stored' = Stored
  <2> DEFINE i == FindSection(ini, s)
             z == ini.sections[i]
             b == Append(z.comments_before, c)
             y == [z EXCEPT !.comments_before = b]
             u == [ini EXCEPT !.sections[i] = y]
  <2>1. Change(u)
    BY <1>4
  <2>2. i \in 1 .. Len(ini.sections)
    <3>1. SectionFound(ini, s, i) /\ Len(ini.sections) \in Nat
      BY <1>2, FindSectionIs, IniParts, Elements
    <3> QED BY <1>4, <3>1 DEF SectionFound
  <2> HIDE DEF i
  <2>3. z \in INISection
    BY <1>2, <2>2, IniParts, Elements
  <2>4. b \in Seq(Comment)
    <3> HIDE DEF z
    <3>1. z.comments_before \in Seq(Comment) /\ c \in Comment
      BY <2>3, SecParts DEF Comment
    <3> QED BY <3>1
  <2> HIDE DEF b
  <2>5. y \in INISection /\ y.name = ini.sections[i].name /\ y.keys = ini.sections[i].keys
    BY <2>3, <2>4 DEF INISection
  <2>6. u = [ini EXCEPT !.sections[i] = y]
    OBVIOUS
  <2> HIDE DEF y, u
  <2>7. u \in INIFile /\ AllOnce(u) /\ \A r, l, w : Holds(u, r, l, w) <=> Holds(ini, r, l, w)
    BY <1>2, <2>2, <2>5, <2>6, CommentsHoldNothing
  <2> QED BY <1>1, <2>1, <2>7, QuietStep
<1> QED BY <1>3, <1>4 DEF AddComment

LEMMA AddSectionCommentStep ==
    ASSUME IniInv, AddSectionComment
    PROVE  IniInv' /\ Mem' = Mem /\ Stored' = Stored
<1>1. IsLoaded
  BY DEF AddSectionComment
<1>2. ini \in INIFile /\ AllOnce(ini)
  BY <1>1, MemIs
<1>3. PICK c \in Text, s \in Section :
        LET i == FindSection(ini, s) IN
        i # 0 /\ Change([ini EXCEPT !.sections[i].comment = c])
  BY DEF AddSectionComment
<1> DEFINE i == FindSection(ini, s)
           z == ini.sections[i]
           y == [z EXCEPT !.comment = c]
           u == [ini EXCEPT !.sections[i] = y]
<1>4. i # 0 /\ Change(u)
  BY <1>3
<1>5. i \in 1 .. Len(ini.sections)
  <2>1. SectionFound(ini, s, i) /\ Len(ini.sections) \in Nat
    BY <1>2, FindSectionIs, IniParts, Elements
  <2> QED BY <1>4, <2>1 DEF SectionFound
<1> HIDE DEF i
<1>6. z \in INISection /\ c \in Comment
  BY <1>2, <1>5, IniParts, Elements DEF Comment
<1>7. y \in INISection /\ y.name = ini.sections[i].name /\ y.keys = ini.sections[i].keys
  BY <1>6 DEF INISection
<1>8. u = [ini EXCEPT !.sections[i] = y]
  OBVIOUS
<1> HIDE DEF y, u
<1>9. u \in INIFile /\ AllOnce(u) /\ \A r, l, w : Holds(u, r, l, w) <=> Holds(ini, r, l, w)
  BY <1>2, <1>5, <1>7, <1>8, CommentsHoldNothing
<1> QED BY <1>1, <1>4, <1>9, QuietStep

LEMMA InvInit == ASSUME IniInit PROVE IniInv /\ Stored \in [Section \X Key -> Value \cup {Missing}] /\ Mem = NoCopy
<1>1. lines \in Files /\ ini = NoCopy /\ ops = 0 /\ ~IsLoaded
  BY DEF IniInit, IsLoaded
<1>2. lines \in Seq(Line) /\ NothingTwice(Loaded(lines))
  BY <1>1, FilesAssumption
<1> DEFINE t == Loaded(lines)
<1>3. t \in INIFile
  BY <1>2, LoadedSays DEF ReadSoFar
<1>4. AllOnce(t)
  BY <1>2, <1>3, NothingTwiceIs
<1>5. FileView(lines) = View(t)
  BY <1>2, <1>4, FileViewIs
<1> HIDE DEF t
<1>6. View(t) \in [Section \X Key -> Value \cup {Missing}]
  BY <1>3, <1>4, ViewType
<1>7. 0 \in 0 .. MaxOps
  <2>1. MaxOps \in Nat
    BY IniAssumption
  <2> QED BY <2>1
<1>8. IniInv
  BY <1>1, <1>2, <1>7 DEF IniInv, IniTypeOK
<1>9. Stored \in [Section \X Key -> Value \cup {Missing}]
  BY <1>5, <1>6 DEF Stored
<1>10. Mem = NoCopy
  BY <1>1 DEF Mem
<1> QED BY <1>8, <1>9, <1>10

\* Every step keeps the invariant and is a step of the table or none.
LEMMA IniStep ==
    ASSUME IniInv, [IniNext]_iniVars
    PROVE  IniInv' /\ [Store!StoreNext]_<<Stored, Mem>>
<1> USE DEF Store!StoreNext
<1>1. CASE Load
  <2>1. IniInv' /\ Mem' = Stored /\ Stored' = Stored /\ Mem = NoCopy
    BY <1>1, LoadStep
  <2>2. Store!StoreLoad
    BY <2>1, Zenon DEF Store!StoreLoad, Mem, Stored
  <2> QED BY <2>1, <2>2
<1>2. CASE Save
  <2>1. IniInv' /\ Mem' = Mem /\ Stored' = Mem /\ Mem # NoCopy
    BY <1>2, SaveStep
  <2>2. Store!StoreSave
    BY <2>1, Zenon DEF Store!StoreSave, Mem, Stored
  <2> QED BY <2>1, <2>2
<1>3. CASE Free
  <2>1. IniInv' /\ Mem' = NoCopy /\ Stored' = Stored /\ Mem # NoCopy
    BY <1>3, FreeStep
  <2>2. Store!StoreFree
    BY <2>1, Zenon DEF Store!StoreFree, Mem, Stored
  <2> QED BY <2>1, <2>2
<1>4. CASE Set
  <2>1. /\ IniInv' /\ Stored' = Stored /\ Mem # NoCopy
        /\ \E at \in Section \X Key, v \in Value : Mem' = [Mem EXCEPT ![at] = v]
    BY <1>4, SetStep
  <2>2. Store!StoreSet
    BY <2>1, Zenon DEF Store!StoreSet, Mem, Stored
  <2> QED BY <2>1, <2>2
<1>5. CASE DeleteKey
  <2>1. /\ IniInv' /\ Stored' = Stored /\ Mem # NoCopy
        /\ \E at \in Section \X Key : Mem' = [Mem EXCEPT ![at] = Missing]
    BY <1>5, DeleteKeyStep
  <2>2. Store!StoreDelete
    BY <2>1, Zenon DEF Store!StoreDelete, Mem, Stored
  <2> QED BY <2>1, <2>2
<1>6. CASE DeleteSection
  <2>1. /\ IniInv' /\ Stored' = Stored /\ Mem # NoCopy
        /\ \E s \in Section :
            Mem' = [at \in Section \X Key |-> IF at[1] = s THEN Missing ELSE Mem[at]]
    BY <1>6, DeleteSectionStep
  <2>2. Store!StoreDeleteSection
    BY <2>1, Zenon DEF Store!StoreDeleteSection, Mem, Stored
  <2> QED BY <2>1, <2>2
<1>7. CASE AddComment
  BY <1>7, AddCommentStep
<1>8. CASE AddSectionComment
  BY <1>8, AddSectionCommentStep
<1>9. CASE UNCHANGED iniVars
  <2>1. ini' = ini /\ lines' = lines /\ ops' = ops
    BY <1>9 DEF iniVars
  <2>2. IniInv'
    BY <2>1 DEF IniInv, IniTypeOK, IsLoaded
  <2>3. Mem' = Mem /\ Stored' = Stored
    BY <2>1 DEF Mem, Stored, IsLoaded
  <2> QED BY <2>2, <2>3
<1> QED BY <1>1, <1>2, <1>3, <1>4, <1>5, <1>6, <1>7, <1>8, <1>9 DEF IniNext

\* The file and the lists keep their types, and neither ever has a section
\* twice, or a key twice in a section.
THEOREM IniFileCorrect == IniSpec => []IniInv
<1>1. IniInit => IniInv
  BY InvInit
<1>2. IniInv /\ [IniNext]_iniVars => IniInv'
  BY IniStep
<1> QED BY <1>1, <1>2, PTL DEF IniSpec

\* IniTypeOK: the file and the lists of ini_load keep their types.
THEOREM IniTypeCorrect == IniSpec => []IniTypeOK
<1>1. IniInv => IniTypeOK
  BY DEF IniInv
<1> QED BY <1>1, IniFileCorrect, PTL

\* StoreSpec: ini.c is the table its callers take it for.
THEOREM IniIsStore == IniSpec => StoreSpec
<1>1. IniInit => Store!StoreInit
  BY InvInit, Zenon DEF Store!StoreInit, Store!Table, Mem, Stored
<1>2. IniInv /\ [IniNext]_iniVars => [Store!StoreNext]_<<Stored, Mem>>
  BY IniStep
<1> QED BY <1>1, <1>2, IniFileCorrect, PTL DEF IniSpec, StoreSpec, Store!StoreSpec, Stored, Mem


------------------------------------------------------------------------------
(***************************************************************************)
(* What a reader sees of the lists, and the length of the file.            *)
(***************************************************************************)
Note(sec) ==
    [name |-> sec.name, comment |-> sec.comment,
     keys |-> {sec.keys[j] : j \in DOMAIN sec.keys}]

LEMMA NoteTurned ==
    ASSUME NEW sec \in INISection, NEW b \in Seq(Comment)
    PROVE  Note(Turned(sec, b)) = Note(sec)
<1> DEFINE y == Turned(sec, b)
<1>1. y.name = sec.name /\ y.comment = sec.comment /\ y.keys = Reverse(sec.keys)
  BY TurnedType
<1>2. sec.keys \in Seq(KeyValue)
  BY SecParts
<1> HIDE DEF y
<1>3. {y.keys[j] : j \in DOMAIN y.keys} = {sec.keys[j] : j \in DOMAIN sec.keys}
  <2> DEFINE k == sec.keys
             r == y.keys
  <2>1. k \in Seq(KeyValue) /\ r = Reverse(k)
    BY <1>1, <1>2
  <2> HIDE DEF k, r
  <2>2. Among(r) = Among(k)
    BY <2>1, ReverseSet
  <2> QED BY <2>2, Zenon DEF Among, k, r
<1>4. Note(y) = Note(sec)
  BY <1>1, <1>3, Zenon DEF Note
<1> QED BY <1>4 DEF y

Notes == {Note(x) : x \in INISection}

LEMMA AnnotatedIs ==
    ASSUME NEW t \in INIFile
    PROVE  /\ Annotated(t) \in Seq(Notes) /\ Len(Annotated(t)) = Len(t.sections)
           /\ \A i \in 1 .. Len(t.sections) : Annotated(t)[i] = Note(t.sections[i])
<1> DEFINE r == Annotated(t)
           n == Len(t.sections)
<1>1. n \in Nat /\ DOMAIN t.sections = 1 .. n /\ \A i \in 1 .. n : t.sections[i] \in INISection
  <2>1. t.sections \in Seq(INISection)
    BY IniParts
  <2> QED BY <2>1, Elements
<1>2. r = [i \in 1 .. n |-> Note(t.sections[i])]
  <2>1. r = [i \in DOMAIN t.sections |-> Note(t.sections[i])]
    BY Zenon DEF Annotated, Note
  <2> HIDE DEF r, n
  <2> QED BY <1>1, <2>1
<1> HIDE DEF r
<1>3. \A i \in 1 .. n : r[i] = Note(t.sections[i]) /\ r[i] \in Notes
  BY <1>1, <1>2 DEF Notes
<1>4. r \in [1 .. n -> Notes]
  BY <1>2, <1>3
<1>5. r \in Seq(Notes) /\ Len(r) = n
  <2> HIDE DEF n
  <2> QED BY <1>1, <1>4
<1> QED BY <1>3, <1>5 DEF r

LEMMA AnnotatedTurns ==
    ASSUME NEW t \in INIFile, NEW u, Reloaded(t, u)
    PROVE  Annotated(u) = Reverse(Annotated(t)) /\ u \in INIFile
<1> DEFINE a == Annotated(t)
           z == Annotated(u)
           r == Reverse(a)
           n == Len(t.sections)
<1>1. /\ u \in INIFile /\ Len(u.sections) = n
      /\ \A i \in 1 .. n : u.sections[i] = Turned(t.sections[n - i + 1], Behind(i))
  BY DEF Reloaded
<1>2. n \in Nat /\ \A i \in 1 .. n : t.sections[i] \in INISection
  <2>1. t.sections \in Seq(INISection)
    BY IniParts
  <2> QED BY <2>1, Elements
<1>3. a \in Seq(Notes) /\ Len(a) = n /\ \A i \in 1 .. n : a[i] = Note(t.sections[i])
  BY AnnotatedIs
<1>4. z \in Seq(Notes) /\ Len(z) = n /\ \A i \in 1 .. n : z[i] = Note(u.sections[i])
  BY <1>1, AnnotatedIs
<1> HIDE DEF a, z
<1>5. r \in Seq(Notes) /\ Len(r) = n /\ \A i \in 1 .. n : r[i] = a[n - i + 1]
  BY <1>3, ReverseIs
<1> HIDE DEF r, n
<1>6. \A i \in 1 .. n : z[i] = r[i]
  <2> TAKE i \in 1 .. n
  <2> DEFINE m == n - i + 1
  <2>1. m \in 1 .. n
    BY <1>2
  <2>2. u.sections[i] = Turned(t.sections[m], Behind(i)) /\ r[i] = a[m]
    BY <1>1, <1>5
  <2> HIDE DEF m
  <2>3. Note(Turned(t.sections[m], Behind(i))) = Note(t.sections[m])
    BY <1>2, <2>1, BehindType, NoteTurned
  <2> QED BY <1>3, <1>4, <2>1, <2>2, <2>3
<1>7. r = z
  BY <1>4, <1>5, <1>6, SameElements
<1> QED BY <1>1, <1>7 DEF a, z, r

LEMMA KeysLength ==
    ASSUME NEW ks \in Seq(KeyValue)
    PROVE  Len(KeysLines(Reverse(ks))) = Len(KeysLines(ks))
<1> DEFINE r == Reverse(ks)
           n == Len(ks)
           p == [i \in DOMAIN ks |-> KeyLines(ks[i])]
           q == [i \in DOMAIN r |-> KeyLines(r[i])]
           b == [i \in 1 .. n |-> 0]
           c == [i \in 0 .. n |-> 0]
<1>1. /\ r \in Seq(KeyValue) /\ Len(r) = n /\ n \in Nat
      /\ \A i \in 1 .. n : r[i] = ks[n - i + 1]
  BY ReverseIs
<1>2. DOMAIN ks = 1 .. n /\ \A i \in 1 .. n : ks[i] \in KeyValue
  BY Elements
<1> HIDE DEF r
<1>3. DOMAIN r = 1 .. n /\ \A i \in 1 .. n : r[i] \in KeyValue
  BY <1>1, Elements
<1>4. p = [i \in 1 .. n |-> KeyLines(ks[i])] /\ q = [i \in 1 .. n |-> KeyLines(r[i])]
  BY <1>2, <1>3
<1> HIDE DEF p, q, n
<1>5. \A i \in 1 .. n : KeyLines(ks[i]) \in Seq(Line) /\ KeyLines(r[i]) \in Seq(Line)
  BY <1>2, <1>3, KeyLinesAre
<1>6. p \in Seq(Seq(Line)) /\ q \in Seq(Seq(Line)) /\ Len(p) = n /\ Len(q) = n
  <2>1. p \in [1 .. n -> Seq(Line)] /\ q \in [1 .. n -> Seq(Line)]
    BY <1>4, <1>5
  <2> QED BY <1>1, <2>1, Tuples
<1>7. \A i \in 1 .. n : p[i] = KeyLines(ks[i]) /\ q[i] = KeyLines(r[i])
  BY <1>4
<1>8. \A i \in 1 .. n : Len(q[i]) - b[i] = Len(p[n - i + 1]) - b[n - i + 1]
  <2> TAKE i \in 1 .. n
  <2>1. n - i + 1 \in 1 .. n
    BY <1>1
  <2>2. q[i] = p[n - i + 1]
    BY <1>1, <1>7, <2>1
  <2>3. b[i] = 0 /\ b[n - i + 1] = 0
    BY <2>1
  <2> QED BY <2>2, <2>3
<1>9. /\ c[0] = 0 /\ \A i \in 0 .. n : c[i] \in Int
      /\ \A i \in 1 .. n : b[i] \in Int /\ c[i] = c[i - 1] + b[i]
  BY <1>1
<1> HIDE DEF b, c
<1>10. Len(FlattenSeq(q)) = Len(FlattenSeq(p))
  <2>1. SameTurned(p, q, b, c)
    BY <1>6, <1>8, <1>9 DEF SameTurned
  <2> QED BY <1>6, <2>1, TurnedLength
<1> QED BY <1>10, Zenon DEF KeysLines, p, q, r

\* The lines of a section that are not comments before it.
Body(sec) == Len(KeysLines(sec.keys)) + 2

LEMMA SectionLength ==
    ASSUME NEW sec \in INISection
    PROVE  /\ Len(SectionLines(sec)) = Len(sec.comments_before) + Body(sec)
           /\ Len(sec.comments_before) \in Nat /\ Body(sec) \in Nat
<1> DEFINE a == SectionHead(sec)
           k == KeysLines(sec.keys)
           z == <<CommentLine(Blank)>>
           ak == a \o k
           l == SectionLine(sec.name, sec.comment)
           g == Comments(sec.comments_before)
           m == Len(sec.comments_before)
<1>1. a \in Seq(Line) /\ k \in Seq(Line) /\ z \in Seq(Line) /\ SectionLines(sec) = ak \o z
  BY SectionParts
<1>2. /\ sec.name \in Section /\ sec.comment \in Comment
      /\ sec.comments_before \in Seq(Comment)
  BY SecParts
<1>3. g \in Seq(Line) /\ Len(g) = m /\ m \in Nat
  BY <1>2, CommentsAre
<1>4. l \in Line
  BY <1>2 DEF Line
<1>5. a = Append(g, l)
  BY Zenon DEF SectionHead
<1>6. Len(z) = 1 /\ Len(k) \in Nat
  BY <1>1
<1> HIDE DEF a, k, z, g, l, m
<1>7. Len(a) = m + 1
  BY <1>3, <1>4, <1>5, Extend
<1>8. ak \in Seq(Line) /\ Len(ak) = Len(a) + Len(k)
  BY <1>1, Concat
<1> HIDE DEF ak
<1> DEFINE r == SectionLines(sec)
<1>9. Len(r) = Len(ak) + Len(z)
  <2>1. r = ak \o z
    BY <1>1
  <2> HIDE DEF r
  <2>2. ak \in Seq(Line) /\ z \in Seq(Line)
    BY <1>1, <1>8
  <2> QED BY <2>1, <2>2, Concat
<1>10. Len(r) = m + (Len(k) + 2) /\ Len(k) + 2 \in Nat
  BY <1>3, <1>6, <1>7, <1>8, <1>9
<1> QED BY <1>3, <1>10 DEF Body, k, m, r

\* A file whose sections have nothing before them but the blank line of
\* the round before is as long after the next round.
LEMMA RoundLength ==
    ASSUME NEW t \in INIFile, NEW u, Reloaded(t, u),
           t.sections # <<>> => t.header_comments = <<>>,
           \A n \in 1 .. Len(t.sections) : t.sections[n].comments_before = Behind(n)
    PROVE  Len(Saved(u)) = Len(Saved(t))
<1> DEFINE n == Len(t.sections)
           ts == t.sections
           us == u.sections
           p == [i \in DOMAIN ts |-> SectionLines(ts[i])]
           q == [i \in DOMAIN us |-> SectionLines(us[i])]
           b == [i \in 1 .. n |-> IF i = 1 THEN 1 ELSE 0]
           c == [i \in 0 .. n |-> IF i = 0 THEN 0 ELSE 1]
<1>1. ts \in Seq(INISection) /\ t.header_comments \in Seq(Comment)
  BY IniParts
<1>2. /\ u \in INIFile /\ Len(us) = n
      /\ u.header_comments = t.header_comments
      /\ \A i \in 1 .. n : us[i] = Turned(ts[n - i + 1], Behind(i))
  BY DEF Reloaded
<1>3. us \in Seq(INISection)
  BY <1>2, IniParts
<1>4. n \in Nat /\ DOMAIN ts = 1 .. n /\ \A i \in 1 .. n : ts[i] \in INISection
  BY <1>1, Elements
<1>5. DOMAIN us = 1 .. n /\ \A i \in 1 .. n : us[i] \in INISection
  BY <1>2, <1>3, Elements
<1>6. \A i \in 1 .. n : ts[i].comments_before = Behind(i)
  OBVIOUS
<1>7. p = [i \in 1 .. n |-> SectionLines(ts[i])] /\ q = [i \in 1 .. n |-> SectionLines(us[i])]
  BY <1>4, <1>5
<1> HIDE DEF n, ts, us, p, q
<1>8. \A i \in 1 .. n : SectionLines(ts[i]) \in Seq(Line) /\ SectionLines(us[i]) \in Seq(Line)
  BY <1>4, <1>5, SectionParts
<1>9. p \in Seq(Seq(Line)) /\ q \in Seq(Seq(Line)) /\ Len(p) = n /\ Len(q) = n
  <2>1. p \in [1 .. n -> Seq(Line)] /\ q \in [1 .. n -> Seq(Line)]
    BY <1>7, <1>8
  <2> QED BY <1>4, <2>1, Tuples
<1>10. \A i \in 1 .. n : p[i] = SectionLines(ts[i]) /\ q[i] = SectionLines(us[i])
  BY <1>7
<1>11. \A i \in 1 .. n : Len(Behind(i)) = b[i] /\ b[i] \in Int
  BY DEF Behind
<1>12. /\ c[0] = 0 /\ \A i \in 0 .. n : c[i] \in Int
       /\ \A i \in 1 .. n : b[i] \in Int /\ c[i] = c[i - 1] + b[i]
  BY <1>4
<1> HIDE DEF b, c
<1>13. \A i \in 1 .. n : Len(q[i]) - b[i] = Len(p[n - i + 1]) - b[n - i + 1]
  <2> TAKE i \in 1 .. n
  <2> DEFINE m == n - i + 1
             y == Turned(ts[m], Behind(i))
  <2>1. m \in 1 .. n
    BY <1>4
  <2>2. us[i] = y
    BY <1>2
  <2> HIDE DEF m
  <2>3. ts[m] \in INISection /\ ts[m].keys \in Seq(KeyValue) /\ ts[m].comments_before = Behind(m)
    BY <1>4, <1>6, <2>1, SecParts
  <2>4. /\ y \in INISection /\ y.comments_before = Behind(i) /\ y.keys = Reverse(ts[m].keys)
    BY <2>3, BehindType, TurnedType
  <2> HIDE DEF y
  <2>5. Body(y) = Body(ts[m])
    BY <2>3, <2>4, KeysLength DEF Body
  <2>6. Len(SectionLines(y)) = Len(Behind(i)) + Body(y) /\ Body(y) \in Nat
    BY <2>4, SectionLength
  <2>7. Len(SectionLines(ts[m])) = Len(Behind(m)) + Body(ts[m])
    BY <2>3, SectionLength
  <2>8. /\ Len(q[i]) = b[i] + Body(y) /\ Len(p[m]) = b[m] + Body(y)
        /\ b[i] \in Int /\ b[m] \in Int
    BY <1>10, <1>11, <2>1, <2>2, <2>5, <2>6, <2>7
  <2>9. Len(q[i]) - b[i] = Body(y) /\ Len(p[m]) - b[m] = Body(y)
    BY <2>6, <2>8, SMTT(30)
  <2> QED BY <2>9 DEF m
<1>14. Len(FlattenSeq(q)) = Len(FlattenSeq(p))
  <2>1. SameTurned(p, q, b, c)
    BY <1>9, <1>12, <1>13 DEF SameTurned
  <2> QED BY <1>9, <2>1, TurnedLength
<1> DEFINE g == Comments(t.header_comments)
           x == FlattenSeq(p)
           y == FlattenSeq(q)
<1>15. g \in Seq(Line)
  BY <1>1, CommentsAre
<1>16. x \in Seq(Line) /\ y \in Seq(Line)
  <2>1. PICK w : Flattens(w, p, Line)
    BY <1>9, FlattenSteps
  <2>2. PICK v : Flattens(v, q, Line)
    BY <1>9, FlattenSteps
  <2>3. n \in 0 .. n
    BY <1>4
  <2> QED BY <1>9, <2>1, <2>2, <2>3 DEF Flattens
<1>17. Saved(t) = g \o x /\ Saved(u) = g \o y
  BY <1>2, Zenon DEF Saved, p, q, ts, us
<1> HIDE DEF g, x, y
<1>18. Len(x) = Len(y)
  BY <1>14 DEF x, y
<1> DEFINE d == Saved(t)
           e == Saved(u)
<1>19. d = g \o x /\ e = g \o y
  BY <1>17
<1> HIDE DEF d, e
<1>20. Len(d) = Len(g) + Len(x) /\ Len(e) = Len(g) + Len(y)
  BY <1>15, <1>16, <1>19, Concat
<1> QED BY <1>18, <1>20 DEF d, e

LEMMA ReloadSettles ==
    ASSUME NEW t \in INIFile
    PROVE  LET once == Reload(Reload(t)) IN
           /\ Annotated(once) = Annotated(t)
           /\ Len(Saved(Reload(once))) = Len(Saved(once))
<1> DEFINE u == Reload(t)
           v == Reload(u)
           w == Reload(v)
<1>1. Reloaded(t, u)
  BY ReloadIs
<1>2. u \in INIFile /\ Annotated(u) = Reverse(Annotated(t))
  BY <1>1, AnnotatedTurns
<1> HIDE DEF u
<1>3. Reloaded(u, v)
  BY <1>2, ReloadIs
<1>4. v \in INIFile /\ Annotated(v) = Reverse(Annotated(u))
  BY <1>2, <1>3, AnnotatedTurns
<1> HIDE DEF v
<1>5. Reloaded(v, w)
  BY <1>4, ReloadIs
<1> HIDE DEF w
<1>6. Annotated(v) = Annotated(t)
  BY <1>2, <1>4, AnnotatedIs, ReverseTwice
<1>7. Len(u.sections) \in Nat /\ u.sections \in Seq(INISection) /\ v.sections \in Seq(INISection)
  BY <1>2, <1>4, IniParts, Elements
<1>8. v.sections # <<>> => v.header_comments = <<>>
  BY <1>3, <1>7 DEF Reloaded
<1>9. \A n \in 1 .. Len(v.sections) : v.sections[n].comments_before = Behind(n)
  <2>1. Len(v.sections) = Len(u.sections)
    BY <1>3 DEF Reloaded
  <2> TAKE n \in 1 .. Len(v.sections)
  <2> DEFINE m == Len(u.sections) - n + 1
  <2>2. m \in 1 .. Len(u.sections)
    BY <1>7, <2>1
  <2>3. v.sections[n] = Turned(u.sections[m], Behind(n))
    BY <1>3, <2>1 DEF Reloaded
  <2> HIDE DEF m
  <2>4. u.sections[m] \in INISection
    BY <1>7, <2>2, Elements
  <2> QED BY <2>3, <2>4, BehindType, TurnedType
<1>10. Len(Saved(w)) = Len(Saved(v))
  BY <1>4, <1>5, <1>8, <1>9, RoundLength
<1> QED BY <1>6, <1>10 DEF u, v, w

\* KeyCommentsSurvive: the comments that belong to keys, and those on the
\* lines of sections, are found again after the file was saved and loaded.
THEOREM IniKeepsComments == IniSpec => []KeyCommentsSurvive
<1>1. ASSUME IniInv PROVE KeyCommentsSurvive
  <2> SUFFICES ASSUME IsLoaded PROVE Annotated(Reload(ini)) = Reverse(Annotated(ini))
    BY DEF KeyCommentsSurvive
  <2>1. ini \in INIFile
    BY <1>1 DEF IniInv, IniTypeOK
  <2>2. Reloaded(ini, Reload(ini))
    BY <2>1, ReloadIs
  <2> QED BY <2>1, <2>2, AnnotatedTurns
<1> QED BY <1>1, IniFileCorrect, PTL

\* FileSettles: two rounds of saving and loading restore the order, and
\* from the second round on the file keeps its length.
THEOREM IniFileSettles == IniSpec => []FileSettles
<1>1. ASSUME IniInv PROVE FileSettles
  <2> SUFFICES ASSUME IsLoaded
               PROVE  LET once == Reload(Reload(ini)) IN
                      /\ Annotated(once) = Annotated(ini)
                      /\ Len(Saved(Reload(once))) = Len(Saved(once))
    BY Zenon DEF FileSettles
  <2>1. ini \in INIFile
    BY <1>1 DEF IniInv, IniTypeOK
  <2> QED BY <2>1, ReloadSettles
<1> QED BY <1>1, IniFileCorrect, PTL
=============================================================================

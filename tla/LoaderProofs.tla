---------------------------- MODULE LoaderProofs ----------------------------
(***************************************************************************)
(* Proofs about Settings and Loader: what is enabled, kept and loaded, for *)
(* every number of games, plugins and options, and every first contents of *)
(* the files without a section twice.                                      *)
(***************************************************************************)
EXTENDS Loader, TLAPS

------------------------------------------------------------------------------
(***************************************************************************)
(* Files, by their entries.                                                *)
(***************************************************************************)
\* t gives id the value v in the section called name.
Entry(t, name, id, v) ==
    \E i \in DOMAIN t : t[i].name = name /\ id \in DOMAIN t[i].keys /\ t[i].keys[id] = v

LEMMA FileSections ==
    ASSUME NEW S, NEW t, IsFile(t, S)
    PROVE  /\ t \in Seq(Section(S)) /\ Len(t) \in Nat /\ DOMAIN t = 1 .. Len(t)
           /\ \A i \in 1 .. Len(t) : /\ t[i] \in Section(S) /\ t[i] = Named(t[i].name, t[i].keys)
                                     /\ t[i].name \in Text
                                     /\ t[i].keys \in [DOMAIN t[i].keys -> Text]
                                     /\ DOMAIN t[i].keys \subseteq S
<1>1. t \in Seq(Range(t)) /\ Len(t) \in Nat /\ DOMAIN t = 1 .. Len(t)
  <2>1. t \in Seq(Range(t))
    BY DEF IsFile
  <2> QED BY <2>1
<1>2. ASSUME NEW i \in 1 .. Len(t)
      PROVE  /\ t[i] \in Section(S) /\ t[i] = Named(t[i].name, t[i].keys)
             /\ t[i].name \in Text
             /\ t[i].keys \in [DOMAIN t[i].keys -> Text] /\ DOMAIN t[i].keys \subseteq S
  <2>1. t[i] \in [name : Text, keys : [DOMAIN t[i].keys -> Text]] /\ DOMAIN t[i].keys \subseteq S
    BY <1>1 DEF IsFile
  <2>2. t[i].name \in Text /\ t[i].keys \in [DOMAIN t[i].keys -> Text]
        /\ t[i] = [name |-> t[i].name, keys |-> t[i].keys]
    BY <2>1
  <2>3. t[i].keys \in UNION {[D -> Text] : D \in SUBSET S}
    BY <2>1, <2>2
  <2> QED BY <2>1, <2>2, <2>3 DEF Section, Named
<1>3. t \in Seq(Section(S))
  <2>1. Range(t) \subseteq Section(S)
    BY <1>1, <1>2 DEF Range
  <2> QED BY <1>1, <1>2
<1> QED BY <1>1, <1>2, <1>3

\* What makes a file of a sequence of sections.
LEMMA MadeFile ==
    ASSUME NEW S, NEW t \in Seq(Section(S)),
           \A i, j \in 1 .. Len(t) : t[i].name = t[j].name => i = j
    PROVE  IsFile(t, S)
<1>1. Len(t) \in Nat /\ DOMAIN t = 1 .. Len(t) /\ \A i \in 1 .. Len(t) : t[i] \in Section(S)
  OBVIOUS
<1>2. t \in Seq(Range(t))
  BY <1>1 DEF Range
<1>3. ASSUME NEW i \in DOMAIN t
      PROVE  /\ t[i] \in [name : Text, keys : [DOMAIN t[i].keys -> Text]]
             /\ DOMAIN t[i].keys \subseteq S
  <2>1. /\ t[i].name \in Text /\ t[i] = [name |-> t[i].name, keys |-> t[i].keys]
        /\ t[i].keys \in UNION {[D -> Text] : D \in SUBSET S}
    BY <1>1 DEF Section
  <2>2. PICK D \in SUBSET S : t[i].keys \in [D -> Text]
    BY <2>1
  <2>3. t[i].keys \in [DOMAIN t[i].keys -> Text] /\ DOMAIN t[i].keys \subseteq S
    BY <2>2
  <2> QED BY <2>1, <2>3
<1> QED BY <1>1, <1>2, <1>3 DEF IsFile

LEMMA Alone ==
    ASSUME NEW S, NEW t, IsFile(t, S)
    PROVE  \A i, j \in 1 .. Len(t) : t[i].name = t[j].name => i = j
BY FileSections DEF IsFile

\* ini_get finds the entry there is, and there is one at most.
LEMMA ValueIs ==
    ASSUME NEW S, NEW t, IsFile(t, S), NEW name, NEW id
    PROVE  /\ Value(t, name, id) \in Text
           /\ \A v : Entry(t, name, id, v) => Value(t, name, id) = v /\ id \in S
           /\ Value(t, name, id) # "" => Entry(t, name, id, Value(t, name, id))
<1> DEFINE at == {i \in InSection(t, name) : id \in DOMAIN t[i].keys}
<1>1. DOMAIN t = 1 .. Len(t)
      /\ \A i \in 1 .. Len(t) : t[i].keys \in [DOMAIN t[i].keys -> Text] /\ DOMAIN t[i].keys \subseteq S
  BY FileSections
<1>2. at = {i \in 1 .. Len(t) : t[i].name = name /\ id \in DOMAIN t[i].keys}
  BY <1>1 DEF InSection
<1>3. Value(t, name, id) = IF at = {} THEN "" ELSE t[CHOOSE i \in at : TRUE].keys[id]
  BY DEF Value
<1> HIDE DEF at
<1>4. CASE at = {}
  <2>1. Value(t, name, id) = ""
    BY <1>3, <1>4
  <2>2. \A v : ~Entry(t, name, id, v)
    BY <1>1, <1>2, <1>4 DEF Entry
  <2>3. "" \in Text
    BY SettingsAssumption
  <2> QED BY <2>1, <2>2, <2>3, Zenon
<1>5. CASE at # {}
  <2> DEFINE k == CHOOSE i \in at : TRUE
  <2>1. k \in at
    BY <1>5
  <2> HIDE DEF k
  <2>2. Value(t, name, id) = t[k].keys[id]
    BY <1>3, <1>5 DEF k
  <2>3. k \in 1 .. Len(t) /\ t[k].name = name /\ id \in DOMAIN t[k].keys
    BY <1>2, <2>1
  <2>4. \A i \in 1 .. Len(t) : t[i].name = name => i = k
    BY <2>3, Alone
  <2>5. \A v : Entry(t, name, id, v) => Value(t, name, id) = v /\ id \in S
    BY <1>1, <2>2, <2>3, <2>4 DEF Entry
  <2>6. t[k].keys[id] \in Text
    BY <1>1, <2>3
  <2>7. Entry(t, name, id, t[k].keys[id])
    BY <1>1, <2>3 DEF Entry
  <2> QED BY <2>2, <2>5, <2>6, <2>7
<1> QED BY <1>4, <1>5

\* A file with some of the entries of another says the same or nothing.
LEMMA ValueFewer ==
    ASSUME NEW S, NEW t, IsFile(t, S), NEW u, IsFile(u, S), NEW name, NEW id,
           \A v : Entry(u, name, id, v) => Entry(t, name, id, v)
    PROVE  Value(u, name, id) # "" => Value(u, name, id) = Value(t, name, id)
BY ValueIs

LEMMA ValueSame ==
    ASSUME NEW S, NEW t, IsFile(t, S), NEW u, IsFile(u, S), NEW name, NEW id,
           \A v : Entry(u, name, id, v) <=> Entry(t, name, id, v)
    PROVE  Value(u, name, id) = Value(t, name, id)
<1>1. Value(u, name, id) # "" => Entry(t, name, id, Value(u, name, id))
  BY ValueIs, Zenon
<1>2. Value(t, name, id) # "" => Entry(u, name, id, Value(t, name, id))
  BY ValueIs, Zenon
<1> QED BY <1>1, <1>2, ValueIs, Zenon

LEMMA NoEntries ==
    /\ \A S : IsFile(<<>>, S)
    /\ \A name, id, v : ~Entry(<<>>, name, id, v)
    /\ \A name, id : Value(<<>>, name, id) = ""
<1>1. DOMAIN <<>> = {} /\ <<>> \in Seq(Range(<<>>))
  OBVIOUS
<1> QED BY <1>1 DEF IsFile, Entry, Value, InSection

LEMMA Reversed ==
    ASSUME NEW S, NEW t, IsFile(t, S)
    PROVE  /\ IsFile(Reverse(t), S) /\ Len(Reverse(t)) = Len(t)
           /\ \A i \in 1 .. Len(t) : Reverse(t)[i] = t[Len(t) - i + 1]
           /\ \A name, id, v : Entry(Reverse(t), name, id, v) <=> Entry(t, name, id, v)
<1> DEFINE u == Reverse(t)
           n == Len(t)
<1>1. n \in Nat /\ DOMAIN t = 1 .. n /\ \A i \in 1 .. n : t[i] \in Section(S)
  BY FileSections
<1>2. u = [i \in 1 .. n |-> t[n - i + 1]]
  BY DEF Reverse
<1> HIDE DEF u, n
<1>3. \A i \in 1 .. n : n - i + 1 \in 1 .. n /\ n - (n - i + 1) + 1 = i
  BY <1>1
<1>4. \A i \in 1 .. n : u[i] = t[n - i + 1]
  BY <1>2
<1>5. u \in Seq(Section(S)) /\ Len(u) = n /\ DOMAIN u = 1 .. n
  BY <1>1, <1>2, <1>3
<1>6. IsFile(u, S)
  <2>1. \A i, j \in 1 .. n : t[i].name = t[j].name => i = j
    BY Alone DEF n
  <2>2. ASSUME NEW i \in 1 .. n, NEW j \in 1 .. n, u[i].name = u[j].name PROVE i = j
    <3>1. n - i + 1 = n - j + 1
      BY <1>3, <1>4, <2>1, <2>2
    <3> QED BY <1>1, <3>1
  <2> QED BY <1>5, <2>2, MadeFile
<1>7. ASSUME NEW name, NEW id, NEW v PROVE Entry(u, name, id, v) <=> Entry(t, name, id, v)
  <2>1. ASSUME Entry(u, name, id, v) PROVE Entry(t, name, id, v)
    BY <1>1, <1>3, <1>4, <1>5, <2>1 DEF Entry
  <2>2. ASSUME Entry(t, name, id, v) PROVE Entry(u, name, id, v)
    <3>1. PICK i \in 1 .. n : t[i].name = name /\ id \in DOMAIN t[i].keys /\ t[i].keys[id] = v
      BY <1>1, <2>2 DEF Entry
    <3>2. n - i + 1 \in DOMAIN u /\ u[n - i + 1] = t[i]
      BY <1>3, <1>4, <1>5
    <3> QED BY <3>1, <3>2 DEF Entry
  <2> QED BY <2>1, <2>2
<1> QED BY <1>4, <1>5, <1>6, <1>7 DEF u, n

LEMMA NamedSection ==
    ASSUME NEW S, NEW name \in Text, NEW D \in SUBSET S, NEW keys \in [D -> Text]
    PROVE  /\ Named(name, keys) \in Section(S)
           /\ Named(name, keys).name = name /\ Named(name, keys).keys = keys
BY DEF Named, Section

\* ini_set changes one entry and leaves the others.
LEMMA SetEntries ==
    ASSUME NEW S, NEW t, IsFile(t, S), NEW name \in Text, NEW id \in S, NEW v \in Text
    PROVE  /\ IsFile(SetIn(t, name, id, v), S)
           /\ \A n, k, w : Entry(SetIn(t, name, id, v), n, k, w) <=>
                IF n = name /\ k = id THEN w = v ELSE Entry(t, n, k, w)
<1> DEFINE u == SetIn(t, name, id, v)
<1>1. /\ t \in Seq(Section(S)) /\ Len(t) \in Nat /\ DOMAIN t = 1 .. Len(t)
      /\ \A i \in 1 .. Len(t) : /\ t[i] \in Section(S) /\ t[i].name \in Text
                                /\ t[i].keys \in [DOMAIN t[i].keys -> Text]
                                /\ DOMAIN t[i].keys \subseteq S
  BY FileSections
<1>2. CASE InSection(t, name) = {}
  <2> DEFINE new == Named(name, [k \in {id} |-> v])
  <2>1. /\ new \in Section(S) /\ new.name = name /\ new.keys = [k \in {id} |-> v]
    <3>1. [k \in {id} |-> v] \in [{id} -> Text] /\ {id} \in SUBSET S
      OBVIOUS
    <3> QED BY <3>1, NamedSection
  <2>2. u = <<new>> \o t
    BY <1>2 DEF SetIn
  <2> HIDE DEF new, u
  <2>3. /\ u \in Seq(Section(S)) /\ Len(u) = Len(t) + 1 /\ DOMAIN u = 1 .. Len(t) + 1
        /\ u[1] = new /\ \A i \in 1 .. Len(t) : u[i + 1] = t[i]
    BY <1>1, <2>1, <2>2
  <2>4. \A i \in 1 .. Len(t) : t[i].name # name
    BY <1>1, <1>2 DEF InSection
  <2>5. \A i \in 1 .. Len(t) + 1 : i = 1 \/ \E j \in 1 .. Len(t) : i = j + 1
    <3> TAKE i \in 1 .. Len(t) + 1
    <3>1. i = 1 \/ (i - 1 \in 1 .. Len(t) /\ i = (i - 1) + 1)
      BY <1>1
    <3> QED BY <3>1
  <2>6. IsFile(u, S)
    <3>1. ASSUME NEW i \in 1 .. Len(u), NEW j \in 1 .. Len(u), u[i].name = u[j].name PROVE i = j
      <4>1. \A a, b \in 1 .. Len(t) : t[a].name = t[b].name => a = b
        BY Alone
      <4>2. /\ i = 1 \/ \E a \in 1 .. Len(t) : i = a + 1 /\ u[i] = t[a] /\ t[a].name # name
            /\ j = 1 \/ \E b \in 1 .. Len(t) : j = b + 1 /\ u[j] = t[b] /\ t[b].name # name
        BY <2>3, <2>4, <2>5
      <4>3. u[1].name = name
        BY <2>1, <2>3
      <4> QED BY <3>1, <4>1, <4>2, <4>3
    <3> QED BY <2>3, <3>1, MadeFile
  <2>7. ASSUME NEW n, NEW k, NEW w
        PROVE  Entry(u, n, k, w) <=> IF n = name /\ k = id THEN w = v ELSE Entry(t, n, k, w)
    <3> DEFINE Has(s) == s.name = n /\ k \in DOMAIN s.keys /\ s.keys[k] = w
    <3>1. Entry(u, n, k, w) <=> \E i \in 1 .. Len(t) + 1 : Has(u[i])
      BY <2>3 DEF Entry
    <3>2. Entry(t, n, k, w) <=> \E i \in 1 .. Len(t) : Has(t[i])
      BY <1>1 DEF Entry
    <3>3. Has(new) <=> n = name /\ k = id /\ w = v
      BY <2>1
    <3>4. n = name => ~Entry(t, n, k, w)
      BY <2>4, <3>2
    <3> HIDE DEF Has
    <3>5. Entry(u, n, k, w) <=> Has(new) \/ Entry(t, n, k, w)
      <4>1. 1 \in 1 .. Len(t) + 1 /\ \A i \in 1 .. Len(t) : i + 1 \in 1 .. Len(t) + 1
        BY <1>1
      <4> QED BY <2>3, <2>5, <3>1, <3>2, <4>1
    <3> QED BY <3>3, <3>4, <3>5
  <2> QED BY <2>6, <2>7 DEF u
<1>3. CASE InSection(t, name) # {}
  <2> DEFINE To(s) == IF s.name = name THEN Named(name, With(s.keys, id, v)) ELSE s
  <2>1. u = [i \in 1 .. Len(t) |-> To(t[i])]
    BY <1>1, <1>3 DEF SetIn
  <2>2. ASSUME NEW i \in 1 .. Len(t)
        PROVE  /\ To(t[i]) \in Section(S) /\ To(t[i]).name = t[i].name
               /\ t[i].name # name => To(t[i]) = t[i]
               /\ t[i].name = name =>
                    /\ DOMAIN To(t[i]).keys = DOMAIN t[i].keys \cup {id}
                    /\ To(t[i]).keys[id] = v
                    /\ \A k \in DOMAIN t[i].keys : k # id => To(t[i]).keys[k] = t[i].keys[k]
    <3>1. CASE t[i].name # name
      BY <1>1, <3>1
    <3>2. CASE t[i].name = name
      <4> DEFINE K == DOMAIN t[i].keys
                 w == With(t[i].keys, id, v)
      <4>1. /\ w \in [K \cup {id} -> Text] /\ w[id] = v
            /\ \A k \in K : k # id => w[k] = t[i].keys[k]
        <5> DEFINE keys == t[i].keys
        <5>1. keys \in [K -> Text] /\ K \subseteq S
          BY <1>1
        <5> HIDE DEF K, keys
        <5>2. /\ With(keys, id, v) \in [K \cup {id} -> Text] /\ With(keys, id, v)[id] = v
              /\ \A k \in K : k # id => With(keys, id, v)[k] = keys[k]
          BY <5>1 DEF With
        <5> QED BY <5>2 DEF keys
      <4>2. K \cup {id} \in SUBSET S
        BY <1>1
      <4>3. To(t[i]) = Named(name, w)
        BY <3>2
      <4> DEFINE D == K \cup {id}
      <4>4. D \in SUBSET S /\ w \in [D -> Text]
        BY <4>1, <4>2
      <4> HIDE DEF w, To, D
      <4>5. To(t[i]) \in Section(S) /\ To(t[i]).name = name /\ To(t[i]).keys = w
        BY <4>3, <4>4, <1>1 DEF Named, Section
      <4> QED BY <3>2, <4>1, <4>5
    <3> QED BY <3>1, <3>2
  <2> HIDE DEF To, u
  <2>3. u \in Seq(Section(S)) /\ Len(u) = Len(t) /\ DOMAIN u = 1 .. Len(t)
        /\ \A i \in 1 .. Len(t) : u[i] = To(t[i])
    BY <1>1, <2>1, <2>2
  <2>4. IsFile(u, S)
    <3>1. \A a, b \in 1 .. Len(t) : t[a].name = t[b].name => a = b
      BY Alone
    <3> QED BY <2>2, <2>3, <3>1, MadeFile
  <2>5. PICK j \in 1 .. Len(t) : t[j].name = name
    BY <1>1, <1>3 DEF InSection
  <2>6. ASSUME NEW n, NEW k, NEW w
        PROVE  Entry(u, n, k, w) <=> IF n = name /\ k = id THEN w = v ELSE Entry(t, n, k, w)
    <3>1. Entry(u, n, k, w) <=> \E i \in 1 .. Len(t) :
            To(t[i]).name = n /\ k \in DOMAIN To(t[i]).keys /\ To(t[i]).keys[k] = w
      BY <2>3 DEF Entry
    <3>2. Entry(t, n, k, w) <=> \E i \in 1 .. Len(t) :
            t[i].name = n /\ k \in DOMAIN t[i].keys /\ t[i].keys[k] = w
      BY <1>1 DEF Entry
    <3>3. CASE n = name /\ k = id
      BY <2>2, <2>5, <3>1, <3>3
    <3>4. CASE ~(n = name /\ k = id)
      BY <2>2, <3>1, <3>2, <3>4
    <3> QED BY <3>3, <3>4
  <2> QED BY <2>4, <2>6 DEF u
<1> QED BY <1>2, <1>3

\* What is read, changed and written back.
LEMMA ChangedEntries ==
    ASSUME NEW S, NEW t, IsFile(t, S), NEW name \in Text, NEW id \in S, NEW v \in Text
    PROVE  /\ IsFile(Changed(t, name, id, v), S)
           /\ \A n, k, w : Entry(Changed(t, name, id, v), n, k, w) <=>
                IF n = name /\ k = id THEN w = v ELSE Entry(t, n, k, w)
<1> DEFINE r == Reverse(t)
<1>1. IsFile(r, S) /\ \A n, k, w : Entry(r, n, k, w) <=> Entry(t, n, k, w)
  BY Reversed
<1> HIDE DEF r
<1>2. /\ IsFile(SetIn(r, name, id, v), S)
      /\ \A n, k, w : Entry(SetIn(r, name, id, v), n, k, w) <=>
            IF n = name /\ k = id THEN w = v ELSE Entry(r, n, k, w)
  BY <1>1, SetEntries
<1>3. Changed(t, name, id, v) = SetIn(r, name, id, v)
  BY DEF Changed, r
<1> QED BY <1>1, <1>2, <1>3

LEMMA ChangedValues ==
    ASSUME NEW S, NEW t, IsFile(t, S), NEW name \in Text, NEW id \in S, NEW v \in Text, NEW k
    PROVE  Value(Changed(t, name, id, v), name, k) = IF k = id THEN v ELSE Value(t, name, k)
<1> DEFINE u == Changed(t, name, id, v)
<1>1. /\ IsFile(u, S)
      /\ \A n, j, w : Entry(u, n, j, w) <=> IF n = name /\ j = id THEN w = v ELSE Entry(t, n, j, w)
  BY ChangedEntries
<1> HIDE DEF u
<1>2. CASE k = id
  <2>1. Entry(u, name, k, v)
    BY <1>1, <1>2
  <2>2. Value(u, name, k) = v
    BY <1>1, <2>1, ValueIs
  <2> QED BY <1>2, <2>2 DEF u
<1>3. CASE k # id
  <2>1. \A w : Entry(u, name, k, w) <=> Entry(t, name, k, w)
    BY <1>1, <1>3
  <2>2. Value(u, name, k) = Value(t, name, k)
    BY <1>1, <2>1, ValueSame
  <2> QED BY <1>3, <2>2 DEF u
<1> QED BY <1>2, <1>3

\* A file that is half written.
LEMMA CutEntries ==
    ASSUME NEW S, NEW t, IsFile(t, S), NEW u \in Cuts(t)
    PROVE  IsFile(u, S) /\ \A n, k, w : Entry(u, n, k, w) => Entry(t, n, k, w)
<1>1. /\ t \in Seq(Section(S)) /\ Len(t) \in Nat /\ DOMAIN t = 1 .. Len(t)
      /\ \A i \in 1 .. Len(t) : /\ t[i] \in Section(S) /\ t[i].name \in Text
                                /\ t[i].keys \in [DOMAIN t[i].keys -> Text]
                                /\ DOMAIN t[i].keys \subseteq S
  BY FileSections
<1>2. CASE u = <<>>
  BY <1>2, NoEntries
<1>3. CASE u # <<>>
  <2>0. PICK i \in 1 .. Len(t) : \E K \in SUBSET DOMAIN t[i].keys :
            u = Append(SubSeq(t, 1, i - 1), Named(t[i].name, Restrict(t[i].keys, K)))
    BY <1>1, <1>3 DEF Cuts
  <2>1. PICK K \in SUBSET DOMAIN t[i].keys :
            u = Append(SubSeq(t, 1, i - 1), Named(t[i].name, Restrict(t[i].keys, K)))
    BY <2>0
  <2> DEFINE part == Named(t[i].name, Restrict(t[i].keys, K))
             before == SubSeq(t, 1, i - 1)
  <2>2. /\ part \in Section(S) /\ part.name = t[i].name /\ DOMAIN part.keys = K
        /\ \A k \in K : part.keys[k] = t[i].keys[k]
    <3> DEFINE keys == Restrict(t[i].keys, K)
    <3>1. keys \in [K -> Text] /\ K \in SUBSET S /\ t[i].name \in Text
          /\ \A k \in K : keys[k] = t[i].keys[k]
      BY <1>1 DEF Restrict
    <3> HIDE DEF keys
    <3>2. Named(t[i].name, keys) \in Section(S) /\ Named(t[i].name, keys).name = t[i].name
          /\ Named(t[i].name, keys).keys = keys
      BY <3>1 DEF Named, Section
    <3>3. part = Named(t[i].name, keys)
      BY DEF keys
    <3> QED BY <3>1, <3>2, <3>3
  <2>3. u = Append(before, part)
    BY <2>1
  <2>4. /\ before \in Seq(Section(S)) /\ Len(before) = i - 1
        /\ \A j \in 1 .. i - 1 : before[j] = t[j]
    BY <1>1
  <2> HIDE DEF part, before
  <2>5. /\ u \in Seq(Section(S)) /\ Len(u) = i /\ DOMAIN u = 1 .. i
        /\ u[i] = part /\ \A j \in 1 .. i - 1 : u[j] = t[j]
    BY <1>1, <2>2, <2>3, <2>4
  <2>6. \A j \in 1 .. i : /\ j \in 1 .. Len(t) /\ u[j].name = t[j].name
                          /\ \A k \in DOMAIN u[j].keys : k \in DOMAIN t[j].keys /\ u[j].keys[k] = t[j].keys[k]
    <3> TAKE j \in 1 .. i
    <3>1. j = i \/ j \in 1 .. i - 1
      BY <1>1
    <3>2. j \in 1 .. Len(t)
      BY <1>1
    <3> QED BY <2>2, <2>5, <3>1, <3>2
  <2>7. IsFile(u, S)
    <3>1. \A a, b \in 1 .. Len(t) : t[a].name = t[b].name => a = b
      BY Alone
    <3> QED BY <2>5, <2>6, <3>1, MadeFile
  <2>8. \A n, k, w : Entry(u, n, k, w) => Entry(t, n, k, w)
    BY <1>1, <2>5, <2>6 DEF Entry
  <2> QED BY <2>7, <2>8
<1> QED BY <1>2, <1>3

------------------------------------------------------------------------------
(***************************************************************************)
(* What holds of each file: d is what is on disk of it, w what it is when  *)
(* it is whole, c what was chosen for it, and l the times ShellUI has died *)
(* with a file open.  S are the ids it may have: its own page's, or any    *)
(* once a page has come over another that nobody had reported as left.     *)
(***************************************************************************)
NameOf(path) == IF path = "hen.ini" THEN "HEN" ELSE "all"

Good(S, path, d, w, c, l) ==
    /\ IsFile(d, S) /\ IsFile(w, S) /\ c \in [Id -> Text]
    /\ \A n, k, v : Entry(d, n, k, v) => Entry(w, n, k, v)
    /\ \A id \in Id : Value(w, NameOf(path), id) = "1" => c[id] = "1"
    /\ l = 0 => \A id \in Id : Value(w, NameOf(path), id) = c[id]

IdsOf(path) == IF told THEN OwnIds(path) ELSE Id

LEMMA Texts ==
    /\ {"", "0", "1"} \subseteq Text /\ \A path : NameOf(path) \in Text
    /\ \A path : OwnIds(path) \subseteq Id
BY SettingsAssumption DEF NameOf, OwnIds, Id

\* ini_save has emptied the file to write it anew.
LEMMA GoodChanged ==
    ASSUME NEW S \in SUBSET Id, NEW path, NEW d, NEW c, NEW l, Good(S, path, d, d, c, l),
           NEW id \in S, NEW v \in {"0", "1"}
    PROVE  LET u == Changed(d, NameOf(path), id, v) IN
           /\ Good(S, path, <<>>, u, [c EXCEPT ![id] = v], l)
           /\ l # 0 /\ v = "0" => Good(S, path, <<>>, u, c, l)
<1> DEFINE name == NameOf(path)
           u == Changed(d, name, id, v)
           e == [c EXCEPT ![id] = v]
<1>1. v \in Text /\ name \in Text /\ id \in Id /\ IsFile(d, S) /\ c \in [Id -> Text]
  BY Texts DEF Good
<1>2. IsFile(u, S) /\ \A k : Value(u, name, k) = IF k = id THEN v ELSE Value(d, name, k)
  <2> HIDE DEF name
  <2>1. IsFile(u, S)
    BY <1>1, ChangedEntries
  <2>2. ASSUME NEW k PROVE Value(u, name, k) = IF k = id THEN v ELSE Value(d, name, k)
    BY <1>1, ChangedValues
  <2> QED BY <2>1, <2>2
<1>3. IsFile(<<>>, S) /\ \A n, k, w : ~Entry(<<>>, n, k, w)
  BY NoEntries
<1>4. e \in [Id -> Text] /\ \A k \in Id : e[k] = IF k = id THEN v ELSE c[k]
  BY <1>1
<1>5. /\ \A k \in Id : Value(d, name, k) = "1" => c[k] = "1"
      /\ l = 0 => \A k \in Id : Value(d, name, k) = c[k]
  BY DEF Good
<1> HIDE DEF name, u, e
<1>6. Good(S, path, <<>>, u, e, l)
  <2>1. \A k \in Id : Value(u, name, k) = "1" => e[k] = "1"
    BY <1>2, <1>4, <1>5
  <2>2. l = 0 => \A k \in Id : Value(u, name, k) = e[k]
    BY <1>2, <1>4, <1>5
  <2> QED BY <1>2, <1>3, <1>4, <2>1, <2>2 DEF Good, name
<1>7. ASSUME l # 0, v = "0" PROVE Good(S, path, <<>>, u, c, l)
  <2>1. \A k \in Id : Value(u, name, k) = "1" => c[k] = "1"
    BY <1>2, <1>5, <1>7
  <2> QED BY <1>1, <1>2, <1>3, <1>7, <2>1 DEF Good, name
<1> QED BY <1>6, <1>7 DEF u, e, name

\* Some of it is on disk, or all.
LEMMA GoodCut ==
    ASSUME NEW S, NEW path, NEW d, NEW w, NEW c, NEW l, Good(S, path, d, w, c, l)
    PROVE  /\ \A t \in Cuts(w) : Good(S, path, t, w, c, l)
           /\ Good(S, path, w, w, c, l)
<1>1. \A t \in Cuts(w) : IsFile(t, S) /\ \A n, k, v : Entry(t, n, k, v) => Entry(w, n, k, v)
  BY CutEntries DEF Good
<1> QED BY <1>1 DEF Good

\* ShellUI has died, and the rest of the file is lost.
LEMMA GoodLost ==
    ASSUME NEW S, NEW path, NEW d, NEW w, NEW c, NEW l, Good(S, path, d, w, c, l), NEW m, m # 0
    PROVE  Good(S, path, d, d, c, m)
<1>1. \A id \in Id : Value(d, NameOf(path), id) = "1" => Value(w, NameOf(path), id) = "1"
  <2> SUFFICES ASSUME NEW id \in Id, Value(d, NameOf(path), id) = "1"
               PROVE  Value(w, NameOf(path), id) = "1"
      OBVIOUS
  <2>1. IsFile(d, S) /\ IsFile(w, S)
        /\ \A n, k, v : Entry(d, n, k, v) => Entry(w, n, k, v)
    BY DEF Good
  <2>2. Entry(d, NameOf(path), id, "1")
    <3>1. Value(d, NameOf(path), id) # ""
      OBVIOUS
    <3>2. Entry(d, NameOf(path), id, Value(d, NameOf(path), id))
      BY <2>1, <3>1, ValueIs, Zenon
    <3> QED BY <3>2
  <2>3. Entry(w, NameOf(path), id, "1")
    BY <2>1, <2>2
  <2> QED BY <2>1, <2>3, ValueIs, Zenon
<1> QED BY <1>1 DEF Good

LEMMA GoodMore ==
    ASSUME NEW S \in SUBSET Id, NEW path, NEW d, NEW w, NEW c, NEW l, Good(S, path, d, w, c, l)
    PROVE  Good(Id, path, d, w, c, l)
BY DEF Good, IsFile

------------------------------------------------------------------------------
(***************************************************************************)
(* The invariant of Settings.                                              *)
(***************************************************************************)
Pages ==
    /\ page \in Page \cup {"none"} /\ g_PageID \in Page \cup {"none"} /\ told \in BOOLEAN
    /\ told => g_PageID \in {"none", page}

Saves ==
    /\ lost \in Nat
    /\ disk = [path \in Path |-> disk[path]] /\ chosen \in [Path -> [Id -> Text]]
    /\ saving = NoFile \/ \E path \in Path : \E t : saving = [path |-> path, file |-> t]
    /\ \A path \in Path : Good(IdsOf(path), path, disk[path], Whole(path), chosen[path], lost)

SettingsInv == Pages /\ Saves

LEMMA PagesKeep ==
    ASSUME Pages, [SettingsNext]_settingsVars
    PROVE  Pages'
<1>1. CASE NewOnPageDeactivating
  BY <1>1 DEF Pages, NewOnPageDeactivating
<1>2. CASE NewOnPageActivating
  <2>1. PICK uPush \in {"OnNone", "OnPush", "OnPop"} :
            /\ g_PageID' = IF uPush = "OnNone" THEN g_PageID ELSE page'
            /\ told' = (told /\ (uPush = "OnNone" => page = "none"))
    BY <1>2 DEF NewOnPageActivating
  <2>2. page' \in Page /\ "none" \notin Page
    BY <1>2 DEF NewOnPageActivating, Page
  <2>3. g_PageID' \in Page \cup {"none"} /\ told' \in BOOLEAN
    BY <2>1, <2>2 DEF Pages
  <2>4. ASSUME told' PROVE g_PageID' \in {"none", page'}
    BY <2>1, <2>4 DEF Pages
  <2> QED BY <2>2, <2>3, <2>4 DEF Pages
<1>3. CASE Restart
  BY <1>3 DEF Pages, Restart
<1>4. CASE UNCHANGED <<page, g_PageID, told>>
  BY <1>4 DEF Pages
<1>5. NewOnPreCreate \/ NewOnPress \/ SaveFlush \/ SaveClose \/ UNCHANGED settingsVars
        => UNCHANGED <<page, g_PageID, told>>
  BY DEF NewOnPreCreate, NewOnPress, SaveFlush, SaveClose, settingsVars
<1> QED BY <1>1, <1>2, <1>3, <1>4, <1>5 DEF SettingsNext

\* The file of the page on show.
LEMMA PageFile ==
    ASSUME Pages, g_PageID \in DOMAIN Files
    PROVE  /\ Files[g_PageID] \in Path
           /\ SectionOf[g_PageID] = NameOf(Files[g_PageID])
           /\ page # "none" => Elements(page) \subseteq IdsOf(Files[g_PageID])
<1>1. DOMAIN Files = {"id_plugin_manager", "payload_options"}
  BY DEF Files
<1>2. CASE g_PageID = "id_plugin_manager"
  BY <1>2, SettingsAssumption DEF Pages, Files, SectionOf, NameOf, OwnIds, IdsOf, Id, Elements
<1>3. CASE g_PageID = "payload_options"
  BY <1>3, SettingsAssumption DEF Pages, Files, SectionOf, NameOf, OwnIds, IdsOf, Id, Elements
<1> QED BY <1>1, <1>2, <1>3

\* The whole of each file, while none or only saving.path is being written.
LEMMA WholeIs ==
    ASSUME NEW path
    PROVE  /\ Idle => Whole(path) = disk[path]
           /\ saving.path # path => Whole(path) = disk[path]
           /\ ~Idle /\ saving.path = path => Whole(path) = saving.file
BY DEF Whole

LEMMA Opened ==
    ASSUME NEW t \in Seq(Section(Id)), NEW path \in Path
    PROVE  [path |-> path, file |-> t] # NoFile
<1> DEFINE T == Seq(Section(Id))
<1>1. NoFile \notin [path : Path, file : T]
  BY SettingsAssumption, Zenon DEF Id
<1>2. t \in T
  OBVIOUS
<1> HIDE DEF T
<1>3. [path |-> path, file |-> t] \in [path : Path, file : T]
  BY <1>2
<1> QED BY <1>1, <1>3, Zenon

LEMMA ElementSaves ==
    ASSUME SettingsInv, Idle, page # "none", g_PageID \in DOMAIN Files,
           NEW id \in Elements(page), NEW v \in {"0", "1"}, UNCHANGED <<told, lost>>,
           SaveOpen(Files[g_PageID],
                    Changed(disk[Files[g_PageID]], SectionOf[g_PageID], id, v)),
           \/ chosen' = [chosen EXCEPT ![Files[g_PageID]][id] = v]
           \/ lost # 0 /\ v = "0" /\ chosen' = chosen
    PROVE  Saves'
<1> DEFINE path == Files[g_PageID]
           d == disk[path]
           u == Changed(d, NameOf(path), id, v)
           e == [chosen[path] EXCEPT ![id] = v]
           S == IdsOf(path)
<1>1. path \in Path /\ SectionOf[g_PageID] = NameOf(path) /\ id \in S /\ S \in SUBSET Id
  BY PageFile, Texts DEF SettingsInv, IdsOf
<1>2. /\ lost \in Nat /\ disk = [q \in Path |-> disk[q]] /\ chosen \in [Path -> [Id -> Text]]
      /\ \A q \in Path : Good(IdsOf(q), q, disk[q], disk[q], chosen[q], lost)
  BY WholeIs DEF SettingsInv, Saves
<1>3. saving' = [path |-> path, file |-> u] /\ disk' = [disk EXCEPT ![path] = <<>>]
  BY <1>1 DEF SaveOpen
<1>0. \/ chosen' = [chosen EXCEPT ![path][id] = v]
      \/ lost # 0 /\ v = "0" /\ chosen' = chosen
  OBVIOUS
<1> HIDE DEF path
<1>4. /\ Good(S, path, <<>>, u, e, lost)
      /\ lost # 0 /\ v = "0" => Good(S, path, <<>>, u, chosen[path], lost)
  <2>1. Good(S, path, d, d, chosen[path], lost)
    BY <1>1, <1>2
  <2> HIDE DEF S, d
  <2> QED BY <1>1, <2>1, GoodChanged
<1>5. saving' # NoFile
  <2>1. IsFile(u, S)
    BY <1>4 DEF Good
  <2> HIDE DEF u, S
  <2>2. u \in Seq(Section(S))
    BY <2>1, FileSections
  <2>3. u \in Seq(Section(Id))
    <3>1. Section(S) \subseteq Section(Id)
      <4>1. SUBSET S \subseteq SUBSET Id
        BY <1>1
      <4> QED BY <4>1 DEF Section
    <3> QED BY <2>2, <3>1
  <2> QED BY <1>1, <1>3, <2>3, Opened
<1>6. /\ \A q \in Path : disk'[q] = IF q = path THEN <<>> ELSE disk[q]
      /\ disk' = [q \in Path |-> disk'[q]]
  BY <1>2, <1>3
<1>7. /\ saving'.path = path /\ saving'.file = u
      /\ \A q \in Path : Whole(q)' = IF q = path THEN u ELSE disk[q]
  BY <1>3, <1>5, <1>6 DEF Whole, Idle
<1> HIDE DEF u
<1>8. /\ chosen' \in [Path -> [Id -> Text]]
      /\ \A q \in Path : q # path => chosen'[q] = chosen[q]
      /\ chosen'[path] = e \/ (lost # 0 /\ v = "0" /\ chosen'[path] = chosen[path])
  <2>1. v \in Text /\ id \in Id
    BY <1>1, Texts
  <2>2. chosen' = [chosen EXCEPT ![path] = e] \/ (lost # 0 /\ v = "0" /\ chosen' = chosen)
    <3>1. [chosen EXCEPT ![path][id] = v] = [chosen EXCEPT ![path] = e]
      OBVIOUS
    <3> HIDE DEF e
    <3> QED BY <1>0, <3>1, Zenon
  <2>3. e \in [Id -> Text]
    BY <1>1, <1>2, <2>1
  <2> HIDE DEF e
  <2> QED BY <1>1, <1>2, <2>2, <2>3
<1> HIDE DEF e
<1>9. ASSUME NEW q \in Path PROVE Good(IdsOf(q)', q, disk'[q], Whole(q)', chosen'[q], lost')
  <2>1. CASE q = path
    <3>1. Good(S, path, <<>>, u, chosen'[path], lost)
      BY <1>4, <1>8
    <3>2. IdsOf(q)' = IdsOf(q)
      BY DEF IdsOf
    <3>3. IdsOf(q) = S
      BY <2>1 DEF S
    <3>4. /\ disk'[q] = <<>> /\ Whole(q)' = u /\ chosen'[q] = chosen'[path]
          /\ lost' = lost /\ q = path
      BY <1>1, <1>6, <1>7, <2>1
    <3> QED BY <3>1, <3>2, <3>3, <3>4, Zenon
  <2>2. CASE q # path
    <3>1. IdsOf(q)' = IdsOf(q)
      BY DEF IdsOf
    <3> QED BY <1>2, <1>6, <1>7, <1>8, <2>2, <3>1
  <2> QED BY <2>1, <2>2
<1> QED BY <1>1, <1>2, <1>3, <1>6, <1>8, <1>9 DEF Saves

LEMMA PreCreateSaves ==
    ASSUME SettingsInv, NewOnPreCreate
    PROVE  Saves'
<1>1. PICK id \in Elements(page) :
        /\ SaveOpen(Files[g_PageID], Changed(disk[Files[g_PageID]], SectionOf[g_PageID], id, "0"))
        /\ chosen' = IF lost > 0 THEN chosen ELSE [chosen EXCEPT ![Files[g_PageID]][id] = "0"]
  BY DEF NewOnPreCreate
<1>2. Idle /\ page # "none" /\ g_PageID \in DOMAIN Files /\ UNCHANGED <<told, lost>>
  BY DEF NewOnPreCreate
<1>3. lost > 0 => lost # 0
  BY DEF SettingsInv, Saves
<1> QED BY <1>1, <1>2, <1>3, ElementSaves

LEMMA PressSaves ==
    ASSUME SettingsInv, NewOnPress
    PROVE  Saves'
<1>1. PICK id \in Elements(page), v \in {"0", "1"} :
        /\ SaveOpen(Files[g_PageID], Changed(disk[Files[g_PageID]], SectionOf[g_PageID], id, v))
        /\ chosen' = [chosen EXCEPT ![Files[g_PageID]][id] = v]
  BY DEF NewOnPress
<1>2. Idle /\ page # "none" /\ g_PageID \in DOMAIN Files /\ UNCHANGED <<told, lost>>
  BY DEF NewOnPress
<1> QED BY <1>1, <1>2, ElementSaves

LEMMA WriteSaves ==
    ASSUME SettingsInv, SaveFlush \/ SaveClose
    PROVE  Saves'
<1> DEFINE path == saving.path
           w == saving.file
<1>1. /\ ~Idle /\ UNCHANGED <<told, chosen, lost>>
      /\ \E t \in Cuts(w) \cup {w} : disk' = [disk EXCEPT ![path] = t]
                                     /\ (saving' = saving \/ (saving' = NoFile /\ t = w))
  <2>1. CASE SaveFlush
    <3>1. ~Idle /\ UNCHANGED <<told, chosen, lost, saving>>
      BY <2>1 DEF SaveFlush
    <3>2. PICK t \in Cuts(w) : disk' = [disk EXCEPT ![path] = t]
      BY <2>1 DEF SaveFlush
    <3> HIDE DEF w, path
    <3>3. /\ t \in Cuts(w) \cup {w}
          /\ disk' = [disk EXCEPT ![path] = t]
          /\ saving' = saving \/ (saving' = NoFile /\ t = w)
      BY <3>1, <3>2
    <3> QED BY <3>1, <3>3, Zenon
  <2>2. CASE SaveClose
    BY <2>2 DEF SaveClose
  <2> QED BY <2>1, <2>2
<1>2. PICK t \in Cuts(w) \cup {w} : /\ disk' = [disk EXCEPT ![path] = t]
                                    /\ saving' = saving \/ (saving' = NoFile /\ t = w)
  BY <1>1
<1>3. /\ lost \in Nat /\ disk = [q \in Path |-> disk[q]] /\ chosen \in [Path -> [Id -> Text]]
      /\ \A q \in Path : Good(IdsOf(q), q, disk[q], Whole(q), chosen[q], lost)
      /\ \E q \in Path : \E f : saving = [path |-> q, file |-> f]
  BY <1>1 DEF SettingsInv, Saves, Idle
<1>4. path \in Path /\ Whole(path) = w /\ \A q \in Path : q # path => Whole(q) = disk[q]
  BY <1>1, <1>3 DEF Whole
<1>5. Good(IdsOf(path), path, t, w, chosen[path], lost)
  <2>1. Good(IdsOf(path), path, disk[path], w, chosen[path], lost)
    BY <1>3, <1>4
  <2> HIDE DEF path, w
  <2> QED BY <2>1, GoodCut
<1> HIDE DEF path, w
<1>6. /\ \A q \in Path : disk'[q] = IF q = path THEN t ELSE disk[q]
      /\ disk' = [q \in Path |-> disk'[q]]
  BY <1>2, <1>3
<1>7. \A q \in Path : Whole(q)' = IF q = path THEN w ELSE disk[q]
  BY <1>1, <1>2, <1>6 DEF Whole, Idle, path, w
<1>8. ASSUME NEW q \in Path PROVE Good(IdsOf(q)', q, disk'[q], Whole(q)', chosen'[q], lost')
  <2>1. IdsOf(q)' = IdsOf(q)
    BY <1>1 DEF IdsOf
  <2> QED BY <1>1, <1>3, <1>4, <1>5, <1>6, <1>7, <2>1
<1>9. saving' = NoFile \/ \E q \in Path : \E f : saving' = [path |-> q, file |-> f]
  BY <1>2, <1>3
<1> QED BY <1>1, <1>3, <1>6, <1>8, <1>9 DEF Saves

LEMMA RestartSaves ==
    ASSUME SettingsInv, Restart
    PROVE  Saves'
<1>1. /\ saving' = NoFile /\ UNCHANGED <<told, disk, chosen>>
      /\ lost' = IF Idle THEN lost ELSE lost + 1
  BY DEF Restart
<1>2. /\ lost \in Nat /\ disk = [q \in Path |-> disk[q]] /\ chosen \in [Path -> [Id -> Text]]
      /\ \A q \in Path : Good(IdsOf(q), q, disk[q], Whole(q), chosen[q], lost)
  BY DEF SettingsInv, Saves
<1>3. \A q : Whole(q)' = disk[q]
  BY <1>1 DEF Whole, Idle
<1>4. ASSUME NEW q \in Path PROVE Good(IdsOf(q), q, disk[q], disk[q], chosen[q], lost')
  <2>1. CASE Idle
    BY <1>1, <1>2, <2>1, WholeIs
  <2>2. CASE ~Idle
    <3>1. lost' # 0
      BY <1>1, <1>2, <2>2
    <3>2. Good(IdsOf(q), q, disk[q], Whole(q), chosen[q], lost)
      BY <1>2
    <3> QED BY <3>1, <3>2, GoodLost, Zenon
  <2> QED BY <2>1, <2>2
<1>5. ASSUME NEW q \in Path PROVE Good(IdsOf(q)', q, disk'[q], Whole(q)', chosen'[q], lost')
  <2>1. IdsOf(q)' = IdsOf(q)
    BY <1>1 DEF IdsOf
  <2> QED BY <1>1, <1>3, <1>4, <2>1
<1>6. /\ lost' \in Nat /\ saving' = NoFile
      /\ disk' = [q \in Path |-> disk'[q]] /\ chosen' \in [Path -> [Id -> Text]]
  BY <1>1, <1>2
<1> QED BY <1>5, <1>6 DEF Saves

LEMMA SettingsKeep ==
    ASSUME SettingsInv, [SettingsNext]_settingsVars
    PROVE  SettingsInv'
<1>1. CASE UNCHANGED <<disk, saving, chosen, lost>> /\ (told' => told)
  <2>1. \A path : Whole(path)' = Whole(path)
    BY <1>1 DEF Whole, Idle
  <2>2. ASSUME NEW path \in Path
        PROVE  Good(IdsOf(path)', path, disk[path], Whole(path), chosen[path], lost)
    <3>1. Good(IdsOf(path), path, disk[path], Whole(path), chosen[path], lost)
      BY DEF SettingsInv, Saves
    <3>2. IdsOf(path) \in SUBSET Id /\ IdsOf(path)' \in {IdsOf(path), Id}
      <4>1. OwnIds(path) \in SUBSET Id
        BY Texts
      <4>2. CASE told'
        BY <1>1, <4>1, <4>2 DEF IdsOf
      <4>3. CASE ~told'
        BY <4>1, <4>3 DEF IdsOf
      <4> QED BY <4>2, <4>3
    <3> QED BY <3>1, <3>2, GoodMore
  <2>3. Saves'
    BY <1>1, <2>1, <2>2 DEF SettingsInv, Saves
  <2> QED BY <2>3, PagesKeep DEF SettingsInv
<1>2. CASE NewOnPreCreate \/ NewOnPress \/ SaveFlush \/ SaveClose \/ Restart
  BY <1>2, PreCreateSaves, PressSaves, WriteSaves, RestartSaves, PagesKeep DEF SettingsInv
<1>3. NewOnPageDeactivating \/ NewOnPageActivating \/ UNCHANGED settingsVars
      => UNCHANGED <<disk, saving, chosen, lost>> /\ (told' => told)
  BY DEF SettingsInv, Pages, NewOnPageDeactivating, NewOnPageActivating, settingsVars
<1> QED BY <1>1, <1>2, <1>3 DEF SettingsNext

LEMMA SettingsStart ==
    ASSUME SettingsInit
    PROVE  SettingsInv
<1>1. /\ page = "none" /\ g_PageID = "none" /\ disk \in FirstDisk /\ saving = NoFile
      /\ told = TRUE /\ chosen = Chosen(disk) /\ lost = 0
  BY DEF SettingsInit
<1>2. disk = [path \in Path |-> disk[path]] /\ \A path \in Path : IsFile(disk[path], OwnIds(path))
  BY <1>1, FirstDiskAssumption
<1>3. \A path \in Path : \A id \in Id : chosen[path][id] = Value(disk[path], NameOf(path), id)
  BY <1>1 DEF Chosen, Says, NameOf
<1>4. chosen \in [Path -> [Id -> Text]]
  <2>1. ASSUME NEW path \in Path, NEW id \in Id PROVE Value(disk[path], NameOf(path), id) \in Text
    BY <1>2, ValueIs
  <2> QED BY <1>1, <2>1 DEF Chosen, Says, NameOf
<1>5. ASSUME NEW path \in Path
      PROVE  Good(IdsOf(path), path, disk[path], Whole(path), chosen[path], lost)
  <2>1. Whole(path) = disk[path] /\ IdsOf(path) = OwnIds(path)
    BY <1>1 DEF Whole, Idle, IdsOf
  <2> QED BY <1>1, <1>2, <1>3, <1>4, <2>1 DEF Good
<1>6. Pages
  BY <1>1 DEF Pages
<1> QED BY <1>1, <1>2, <1>4, <1>5, <1>6 DEF SettingsInv, Saves

------------------------------------------------------------------------------
(***************************************************************************)
(* The invariant of Loader: for the process p, where it is, its sections,  *)
(* title, plugins and what it should have loaded.  P are the ids it may    *)
(* meet: the plugins', or any once a page has come over another unheard.   *)
(***************************************************************************)
Meant(p) == {"all", Title[p]}

Loads(p, at, s, t, l, w) ==
    /\ t \in {NoInfo, Title[p]}
    /\ at \in {"none", "ini", "info"} => t = NoInfo /\ l = {}
    /\ at \in {"info", "sections"} =>
        \A i \in DOMAIN s : s[i].name \in Meant(p) => Enabled(s[i]) \subseteq w.plugins
    /\ t # NoInfo => l \subseteq w.plugins
    /\ at \in {"info", "sections", "done"} /\ w.whole = TRUE =>
        \A k \in w.plugins : k \in l \/ \E i \in DOMAIN s : s[i].name \in Meant(p) /\ k \in Enabled(s[i])
    /\ at = "done" => s = <<>>

LoaderTypes(P) ==
    /\ app_info \in [Titles -> {NoInfo} \cup Titles]
    /\ \A t \in Titles : app_info[t] \in {NoInfo, t}
    /\ hook \in [Process -> {"ready", "open", "write", "done"}]
    /\ pc \in [Process -> {"none", "ini", "info", "sections", "done"}]
    /\ sections \in [Process -> Seq(Section(P))]
    /\ titleid \in [Process -> {NoInfo} \cup Titles]
    /\ loaded \in [Process -> SUBSET P]
    /\ wanted \in [Process -> [plugins : SUBSET P, whole : BOOLEAN]]

LoaderInv(P) ==
    /\ LoaderTypes(P)
    /\ \A p \in Process : Loads(p, pc[p], sections[p], titleid[p], loaded[p], wanted[p])

LEMMA EnabledEntries ==
    ASSUME NEW S, NEW t, IsFile(t, S)
    PROVE  /\ \A i \in DOMAIN t : Enabled(t[i]) \subseteq S
           /\ \A i \in DOMAIN t : \A k \in Enabled(t[i]) : Entry(t, t[i].name, k, "1")
           /\ \A n, k : Entry(t, n, k, "1") =>
                \E i \in DOMAIN t : t[i].name = n /\ k \in Enabled(t[i])
           /\ \A title : \A k : k \in EnabledIn(t, title) <=>
                Entry(t, "all", k, "1") \/ Entry(t, title, k, "1")
<1>1. \A i \in DOMAIN t : Enabled(t[i]) \subseteq S
  BY FileSections DEF Enabled
<1>2. \A i \in DOMAIN t : \A k \in Enabled(t[i]) : Entry(t, t[i].name, k, "1")
  BY DEF Enabled, Entry
<1>3. \A n, k : Entry(t, n, k, "1") => \E i \in DOMAIN t : t[i].name = n /\ k \in Enabled(t[i])
  BY DEF Enabled, Entry
<1>4. ASSUME NEW title, NEW k
      PROVE  k \in EnabledIn(t, title) <=> Entry(t, "all", k, "1") \/ Entry(t, title, k, "1")
  <2>1. k \in EnabledIn(t, title) <=>
            \E i \in DOMAIN t : t[i].name \in {"all", title} /\ k \in Enabled(t[i])
    BY DEF EnabledIn
  <2> QED BY <1>2, <1>3, <2>1
<1> QED BY <1>1, <1>2, <1>3, <1>4

\* One process goes on, and the others stay where they are.
LEMMA OneLoads ==
    ASSUME NEW P, LoaderInv(P), NEW p \in Process,
           NEW at, NEW s, NEW t, NEW l, NEW w,
           Loads(p, at, s, t, l, w),
           at \in {"none", "ini", "info", "sections", "done"}, s \in Seq(Section(P)),
           t \in {NoInfo} \cup Titles, l \in SUBSET P,
           w \in [plugins : SUBSET P, whole : BOOLEAN],
           pc' = [pc EXCEPT ![p] = at], sections' = [sections EXCEPT ![p] = s],
           titleid' = [titleid EXCEPT ![p] = t], loaded' = [loaded EXCEPT ![p] = l],
           wanted' = [wanted EXCEPT ![p] = w],
           app_info' \in [Titles -> {NoInfo} \cup Titles],
           \A i \in Titles : app_info'[i] \in {NoInfo, i},
           hook' \in [Process -> {"ready", "open", "write", "done"}]
    PROVE  LoaderInv(P)'
<1>1. LoaderTypes(P)'
  BY DEF LoaderInv, LoaderTypes
<1>2. ASSUME NEW q \in Process
      PROVE  Loads(q, pc'[q], sections'[q], titleid'[q], loaded'[q], wanted'[q])
  <2>1. CASE q = p
    <3>1. pc'[q] = at /\ sections'[q] = s /\ titleid'[q] = t /\ loaded'[q] = l /\ wanted'[q] = w
      BY <2>1 DEF LoaderInv, LoaderTypes
    <3> QED BY <2>1, <3>1
  <2>2. CASE q # p
    <3>1. /\ pc'[q] = pc[q] /\ sections'[q] = sections[q] /\ titleid'[q] = titleid[q]
          /\ loaded'[q] = loaded[q] /\ wanted'[q] = wanted[q]
      BY <2>2 DEF LoaderInv, LoaderTypes
    <3>2. Loads(q, pc[q], sections[q], titleid[q], loaded[q], wanted[q])
      BY DEF LoaderInv
    <3> QED BY <3>1, <3>2
  <2> QED BY <2>1, <2>2
<1> QED BY <1>1, <1>2 DEF LoaderInv

\* Only the hooks move.
LEMMA HookLoads ==
    ASSUME NEW P, LoaderInv(P), UNCHANGED <<pc, sections, titleid, loaded, wanted>>,
           app_info' \in [Titles -> {NoInfo} \cup Titles],
           \A i \in Titles : app_info'[i] \in {NoInfo, i},
           hook' \in [Process -> {"ready", "open", "write", "done"}]
    PROVE  LoaderInv(P)'
BY DEF LoaderInv, LoaderTypes

LEMMA ReadLoads ==
    ASSUME SettingsInv, NEW P, P = Id \/ (told /\ P = Plugin),
           LoaderInv(P), NEW p \in Process, ReadIni(p)
    PROVE  LoaderInv(P)'
<1> DEFINE d == disk["plugins.ini"]
           f == Whole("plugins.ini")
           s == Reverse(d)
           w == [plugins |-> EnabledIn(f, Title[p]), whole |-> f = d]
<1>1. /\ pc[p] = "ini" /\ pc' = [pc EXCEPT ![p] = "info"]
      /\ sections' = [sections EXCEPT ![p] = s] /\ wanted' = [wanted EXCEPT ![p] = w]
      /\ UNCHANGED <<app_info, hook, titleid, loaded>>
  BY DEF ReadIni
<1>2. LoaderTypes(P) /\ titleid[p] = NoInfo /\ loaded[p] = {}
  BY <1>1 DEF LoaderInv, Loads
<1>3. /\ IsFile(d, P) /\ IsFile(f, P)
      /\ \A n, k, v : Entry(d, n, k, v) => Entry(f, n, k, v)
  <2>1. "plugins.ini" \in Path /\ OwnIds("plugins.ini") = Plugin
    BY SettingsAssumption DEF OwnIds
  <2> DEFINE S == IdsOf("plugins.ini")
             c == chosen["plugins.ini"]
  <2>2. Good(S, "plugins.ini", d, f, c, lost)
    BY <2>1 DEF SettingsInv, Saves
  <2>3. P = S \/ (P = Id /\ S \in SUBSET Id)
    BY <2>1, Texts DEF IdsOf
  <2> HIDE DEF S, c, d, f
  <2>4. Good(P, "plugins.ini", d, f, c, lost)
    BY <2>2, <2>3, GoodMore
  <2> QED BY <2>4 DEF Good
<1>4. w \in [plugins : SUBSET P, whole : BOOLEAN]
      /\ w.plugins = EnabledIn(f, Title[p]) /\ (w.whole = TRUE => f = d)
  <2>1. EnabledIn(f, Title[p]) \subseteq P
    <3>1. \A i \in DOMAIN f : Enabled(f[i]) \subseteq P
      BY <1>3, EnabledEntries
    <3> QED BY <3>1 DEF EnabledIn
  <2> DEFINE b == f = d
             e == EnabledIn(f, Title[p])
  <2>2. b \in BOOLEAN /\ (b = TRUE => f = d)
    OBVIOUS
  <2>3. w = [plugins |-> e, whole |-> b]
    OBVIOUS
  <2> HIDE DEF b, e, w
  <2>4. w.plugins = e /\ w.whole = b
    BY <2>3
  <2> QED BY <2>1, <2>2, <2>3, <2>4 DEF e
<1> HIDE DEF d, f
<1>5. IsFile(s, P) /\ \A n, k, v : Entry(s, n, k, v) <=> Entry(d, n, k, v)
  BY <1>3, Reversed
<1> HIDE DEF s, w
<1>6. ASSUME NEW i \in DOMAIN s, s[i].name \in Meant(p), NEW k \in Enabled(s[i])
      PROVE  k \in w.plugins
  <2>1. Entry(s, s[i].name, k, "1")
    BY <1>5, EnabledEntries
  <2>2. Entry(f, s[i].name, k, "1")
    BY <1>3, <1>5, <2>1
  <2>3. Entry(f, "all", k, "1") \/ Entry(f, Title[p], k, "1")
    BY <1>6, <2>2 DEF Meant
  <2> QED BY <1>3, <1>4, <2>3, EnabledEntries
<1>7. ASSUME w.whole = TRUE, NEW k \in w.plugins
      PROVE  \E i \in DOMAIN s : s[i].name \in Meant(p) /\ k \in Enabled(s[i])
  <2>1. Entry(d, "all", k, "1") \/ Entry(d, Title[p], k, "1")
    BY <1>3, <1>4, <1>7, EnabledEntries
  <2>2. Entry(s, "all", k, "1") \/ Entry(s, Title[p], k, "1")
    BY <1>5, <2>1
  <2>3. \/ \E i \in DOMAIN s : s[i].name = "all" /\ k \in Enabled(s[i])
        \/ \E i \in DOMAIN s : s[i].name = Title[p] /\ k \in Enabled(s[i])
    BY <1>5, <2>2, EnabledEntries
  <2> QED BY <2>3 DEF Meant
<1>8. Loads(p, "info", s, NoInfo, {}, w)
  BY <1>6, <1>7 DEF Loads
<1>9. s \in Seq(Section(P))
  BY <1>5, FileSections
<1>10. titleid' = [titleid EXCEPT ![p] = NoInfo] /\ loaded' = [loaded EXCEPT ![p] = {}]
  BY <1>1, <1>2 DEF LoaderTypes
<1>11. /\ app_info' \in [Titles -> {NoInfo} \cup Titles]
       /\ \A i \in Titles : app_info'[i] \in {NoInfo, i}
       /\ hook' \in [Process -> {"ready", "open", "write", "done"}]
  BY <1>1, <1>2 DEF LoaderTypes
<1>12. NoInfo \in {NoInfo} \cup Titles /\ {} \in SUBSET P
       /\ "info" \in {"none", "ini", "info", "sections", "done"}
  OBVIOUS
<1> QED BY <1>1, <1>4, <1>8, <1>9, <1>10, <1>11, <1>12, OneLoads

\* What holds of a process before it takes a step.
LEMMA LoadsNow ==
    ASSUME NEW P, LoaderInv(P), NEW p \in Process
    PROVE  /\ Loads(p, pc[p], sections[p], titleid[p], loaded[p], wanted[p])
           /\ sections[p] \in Seq(Section(P)) /\ loaded[p] \in SUBSET P
           /\ titleid[p] \in {NoInfo} \cup Titles
           /\ wanted[p] \in [plugins : SUBSET P, whole : BOOLEAN]
           /\ sections = [sections EXCEPT ![p] = sections[p]]
           /\ titleid = [titleid EXCEPT ![p] = titleid[p]]
           /\ loaded = [loaded EXCEPT ![p] = loaded[p]]
           /\ wanted = [wanted EXCEPT ![p] = wanted[p]]
           /\ app_info \in [Titles -> {NoInfo} \cup Titles]
           /\ \A i \in Titles : app_info[i] \in {NoInfo, i}
           /\ hook \in [Process -> {"ready", "open", "write", "done"}]
           /\ Title[p] \in Titles
BY DEF LoaderInv, LoaderTypes, Titles

\* A step that leaves titleid, wanted and app_info alone.
LEMMA OneMoves ==
    ASSUME NEW P, LoaderInv(P), NEW p \in Process, NEW at, NEW s, NEW l,
           Loads(p, at, s, titleid[p], l, wanted[p]),
           at \in {"none", "ini", "info", "sections", "done"}, s \in Seq(Section(P)),
           l \in SUBSET P,
           pc' = [pc EXCEPT ![p] = at], sections' = [sections EXCEPT ![p] = s],
           loaded' = [loaded EXCEPT ![p] = l], UNCHANGED <<app_info, titleid, wanted>>,
           hook' \in [Process -> {"ready", "open", "write", "done"}]
    PROVE  LoaderInv(P)'
<1> DEFINE t == titleid[p]
           w == wanted[p]
<1>1. Loads(p, at, s, t, l, w)
  OBVIOUS
<1>2. t \in {NoInfo} \cup Titles /\ w \in [plugins : SUBSET P, whole : BOOLEAN]
  BY LoadsNow
<1>3. titleid' = [titleid EXCEPT ![p] = t] /\ wanted' = [wanted EXCEPT ![p] = w]
  BY LoadsNow
<1>4. /\ app_info' \in [Titles -> {NoInfo} \cup Titles]
      /\ \A i \in Titles : app_info'[i] \in {NoInfo, i}
  BY LoadsNow
<1> HIDE DEF t, w
<1> QED BY <1>1, <1>2, <1>3, <1>4, OneLoads

LEMMA LaunchLoads ==
    ASSUME NEW P, LoaderInv(P), NEW p \in Process, Launch(p)
    PROVE  LoaderInv(P)'
<1>1. /\ pc[p] = "none" /\ pc' = [pc EXCEPT ![p] = "ini"]
      /\ hook' = [hook EXCEPT ![p] = IF @ = "ready" THEN "open" ELSE @]
      /\ UNCHANGED <<app_info, sections, titleid, loaded, wanted>>
  BY DEF Launch
<1>2. Loads(p, "ini", sections[p], titleid[p], loaded[p], wanted[p])
  BY <1>1, LoadsNow DEF Loads
<1>3. hook' \in [Process -> {"ready", "open", "write", "done"}]
  <2> DEFINE h == IF hook[p] = "ready" THEN "open" ELSE hook[p]
  <2>1. /\ hook' = [hook EXCEPT ![p] = h]
        /\ hook \in [Process -> {"ready", "open", "write", "done"}]
    BY <1>1, LoadsNow
  <2>2. h \in {"ready", "open", "write", "done"}
    BY <2>1
  <2> HIDE DEF h
  <2> QED BY <2>1, <2>2
<1> DEFINE sp == sections[p]
           lp == loaded[p]
<1>4. /\ Loads(p, "ini", sp, titleid[p], lp, wanted[p])
      /\ sp \in Seq(Section(P)) /\ lp \in SUBSET P
      /\ sections' = [sections EXCEPT ![p] = sp] /\ loaded' = [loaded EXCEPT ![p] = lp]
  BY <1>1, <1>2, LoadsNow
<1> HIDE DEF sp, lp
<1> QED BY <1>1, <1>3, <1>4, OneMoves

LEMMA HooksLoad ==
    ASSUME NEW P, LoaderInv(P), NEW p \in Process, HookStep(p)
    PROVE  LoaderInv(P)'
<1>1. UNCHANGED <<pc, sections, titleid, loaded, wanted>>
  BY DEF HookStep, HookOpen, HookWrite
<1>2. PICK v \in {NoInfo, Title[p]} : app_info' = [app_info EXCEPT ![Title[p]] = v]
  BY DEF HookStep, HookOpen, HookWrite
<1>3. PICK h \in {"write", "done"} : hook' = [hook EXCEPT ![p] = h]
  BY DEF HookStep, HookOpen, HookWrite
<1>4. app_info' \in [Titles -> {NoInfo} \cup Titles] /\ \A i \in Titles : app_info'[i] \in {NoInfo, i}
  BY <1>2, LoadsNow
<1>5. hook' \in [Process -> {"ready", "open", "write", "done"}]
  BY <1>3, LoadsNow
<1> QED BY <1>1, <1>4, <1>5, HookLoads

LEMMA InfoLoads ==
    ASSUME NEW P, LoaderInv(P), NEW p \in Process, ReadInfo(p)
    PROVE  LoaderInv(P)'
<1> DEFINE s == sections[p]
           l == loaded[p]
           w == wanted[p]
           t == app_info[Title[p]]
<1>1. /\ pc[p] = "info" /\ pc' = [pc EXCEPT ![p] = "sections"]
      /\ titleid' = [titleid EXCEPT ![p] = t]
      /\ UNCHANGED <<app_info, hook, sections, loaded, wanted>>
  BY DEF ReadInfo
<1>2. t \in {NoInfo, Title[p]} /\ t \in {NoInfo} \cup Titles
  BY LoadsNow
<1>3. Loads(p, "sections", s, t, l, w)
  BY <1>1, <1>2, LoadsNow DEF Loads
<1>4. /\ s \in Seq(Section(P)) /\ l \in SUBSET P /\ w \in [plugins : SUBSET P, whole : BOOLEAN]
      /\ sections' = [sections EXCEPT ![p] = s] /\ loaded' = [loaded EXCEPT ![p] = l]
      /\ wanted' = [wanted EXCEPT ![p] = w]
  BY <1>1, LoadsNow
<1>5. /\ app_info' \in [Titles -> {NoInfo} \cup Titles]
      /\ \A i \in Titles : app_info'[i] \in {NoInfo, i}
      /\ hook' \in [Process -> {"ready", "open", "write", "done"}]
  BY <1>1, LoadsNow
<1>6. "sections" \in {"none", "ini", "info", "sections", "done"}
  OBVIOUS
<1> HIDE DEF s, l, w, t
<1> QED BY <1>1, <1>2, <1>3, <1>4, <1>5, <1>6, OneLoads

LEMMA SectionLoads ==
    ASSUME NEW P, LoaderInv(P), NEW p \in Process, LoadSection(p)
    PROVE  LoaderInv(P)'
<1> DEFINE s == sections[p]
           t == titleid[p]
           w == wanted[p]
           l == loaded[p]
           more == l \cup Enabled(Head(s))
<1>1. /\ pc[p] = "sections" /\ s # <<>> /\ Matches(Head(s), t)
      /\ loaded' = [loaded EXCEPT ![p] = more]
      /\ sections' = [sections EXCEPT ![p] = Tail(s)]
      /\ UNCHANGED <<app_info, hook, pc, titleid, wanted>>
  BY DEF LoadSection
<1>2. Loads(p, "sections", s, t, l, w) /\ s \in Seq(Section(P)) /\ l \in SUBSET P
  BY <1>1, LoadsNow
<1>3. /\ Head(s) = s[1] /\ 1 \in DOMAIN s /\ Tail(s) \in Seq(Section(P))
      /\ s[1] \in Section(P) /\ Len(s) \in Nat
      /\ DOMAIN s = 1 .. Len(s) /\ DOMAIN Tail(s) = 1 .. Len(s) - 1
      /\ \A i \in 1 .. Len(s) - 1 : Tail(s)[i] = s[i + 1] /\ i + 1 \in 1 .. Len(s)
  <2> HIDE DEF s
  <2> QED BY <1>1, <1>2
<1> HIDE DEF s, t, w, l
<1>4. more \in SUBSET P
  <2>1. DOMAIN s[1].keys \subseteq P
    BY <1>3 DEF Section
  <2> QED BY <1>2, <1>3, <2>1 DEF Enabled
<1>5. ASSUME NEW i \in DOMAIN Tail(s), Tail(s)[i].name \in Meant(p)
      PROVE  Enabled(Tail(s)[i]) \subseteq w.plugins
  BY <1>2, <1>3, <1>5 DEF Loads
<1>6. ASSUME t # NoInfo PROVE more \subseteq w.plugins
  <2>1. s[1].name \in Meant(p)
    BY <1>1, <1>2, <1>3, <1>6 DEF Matches, Meant, Loads
  <2> QED BY <1>2, <1>3, <1>6, <2>1 DEF Loads
<1>7. ASSUME w.whole = TRUE, NEW k \in w.plugins
      PROVE  \/ k \in more
             \/ \E i \in DOMAIN Tail(s) : Tail(s)[i].name \in Meant(p) /\ k \in Enabled(Tail(s)[i])
  <2>1. k \in l \/ \E i \in DOMAIN s : s[i].name \in Meant(p) /\ k \in Enabled(s[i])
    BY <1>2, <1>7 DEF Loads
  <2>2. \A i \in 1 .. Len(s) : i = 1 \/ (i - 1 \in 1 .. Len(s) - 1 /\ Tail(s)[i - 1] = s[i])
    <3> TAKE i \in 1 .. Len(s)
    <3>1. i = 1 \/ (i - 1 \in 1 .. Len(s) - 1 /\ (i - 1) + 1 = i)
      BY <1>3
    <3> QED BY <1>3, <3>1
  <2> QED BY <1>3, <2>1, <2>2
<1>8. Loads(p, "sections", Tail(s), t, more, w)
  BY <1>2, <1>5, <1>6, <1>7 DEF Loads
<1>9. pc' = [pc EXCEPT ![p] = "sections"]
  BY <1>1 DEF LoaderInv, LoaderTypes
<1> HIDE DEF more
<1>10. LoaderInv(P)'
  <2> DEFINE r == Tail(s)
  <2>1. Loads(p, "sections", r, titleid[p], more, wanted[p]) /\ r \in Seq(Section(P))
    BY <1>3, <1>8 DEF t, w
  <2>2. sections' = [sections EXCEPT ![p] = r] /\ UNCHANGED <<app_info, titleid, wanted>>
    BY <1>1
  <2>3. loaded' = [loaded EXCEPT ![p] = more] /\ more \in SUBSET P
    BY <1>1, <1>4
  <2>4. hook' \in [Process -> {"ready", "open", "write", "done"}]
    BY <1>1, LoadsNow
  <2> HIDE DEF r
  <2> QED BY <1>9, <2>1, <2>2, <2>3, <2>4, OneMoves
<1> QED BY <1>10

LEMMA LoadedLoads ==
    ASSUME NEW P, LoaderInv(P), NEW p \in Process, Loaded(p)
    PROVE  LoaderInv(P)'
<1>1. /\ pc[p] = "sections" /\ sections[p] = <<>> /\ pc' = [pc EXCEPT ![p] = "done"]
      /\ UNCHANGED <<app_info, hook, sections, titleid, loaded, wanted>>
  BY DEF Loaded
<1>2. Loads(p, "done", sections[p], titleid[p], loaded[p], wanted[p])
  BY <1>1, LoadsNow DEF Loads
<1> DEFINE sp == sections[p]
           lp == loaded[p]
<1>3. /\ Loads(p, "done", sp, titleid[p], lp, wanted[p])
      /\ sp \in Seq(Section(P)) /\ lp \in SUBSET P
      /\ sections' = [sections EXCEPT ![p] = sp] /\ loaded' = [loaded EXCEPT ![p] = lp]
      /\ hook' \in [Process -> {"ready", "open", "write", "done"}]
  BY <1>1, <1>2, LoadsNow
<1> HIDE DEF sp, lp
<1> QED BY <1>1, <1>3, OneMoves

LEMMA LoaderKeeps ==
    ASSUME SettingsInv, NEW P, P = Id \/ (told /\ P = Plugin),
           LoaderInv(P), LoaderNext \/ UNCHANGED loaderVars
    PROVE  LoaderInv(P)'
<1>1. CASE UNCHANGED loaderVars
  BY <1>1 DEF loaderVars, LoaderInv, LoaderTypes
<1>2. CASE LoaderNext
  <2>1. PICK p \in Process : Launch(p) \/ HookStep(p) \/ ProcessStep(p)
    BY <1>2 DEF LoaderNext
  <2> QED BY <2>1, LaunchLoads, HooksLoad, ReadLoads, InfoLoads, SectionLoads, LoadedLoads
          DEF ProcessStep
<1> QED BY <1>1, <1>2

LEMMA LoaderStart ==
    ASSUME LoaderInit, NEW P
    PROVE  LoaderInv(P)
<1>1. /\ app_info \in [Titles -> {NoInfo} \cup Titles]
      /\ \A t \in Titles : app_info[t] \in {NoInfo, t}
      /\ \E h \in {"ready", "done"} : hook = [p \in Process |-> h]
      /\ pc = [p \in Process |-> "none"]
      /\ sections = [p \in Process |-> <<>>] /\ titleid = [p \in Process |-> NoInfo]
      /\ loaded = [p \in Process |-> {}]
      /\ wanted = [p \in Process |-> [plugins |-> {}, whole |-> TRUE]]
  BY DEF LoaderInit
<1>2. LoaderTypes(P)
  <2>1. <<>> \in Seq(Section(P)) /\ {} \in SUBSET P
        /\ [plugins |-> {}, whole |-> TRUE] \in [plugins : SUBSET P, whole : BOOLEAN]
    OBVIOUS
  <2> QED BY <1>1, <2>1 DEF LoaderTypes
<1>3. \A p \in Process : Loads(p, pc[p], sections[p], titleid[p], loaded[p], wanted[p])
  BY <1>1 DEF Loads
<1> QED BY <1>2, <1>3 DEF LoaderInv

------------------------------------------------------------------------------
(***************************************************************************)
(* The theorems.                                                           *)
(***************************************************************************)
Inv == SettingsInv /\ LoaderInv(Id) /\ (told => LoaderInv(Plugin))

LEMMA ToldBefore ==
    ASSUME Pages, [SettingsNext]_settingsVars, told'
    PROVE  told
BY DEF Pages, SettingsNext, settingsVars, NewOnPageDeactivating, NewOnPageActivating,
       NewOnPreCreate, NewOnPress, SaveFlush, SaveClose, Restart

LEMMA Always == Spec => []Inv
<1>1. Init => Inv
  BY SettingsStart, LoaderStart DEF Init, Inv
<1>2. Inv /\ [Next]_vars => Inv'
  <2> SUFFICES ASSUME Inv, [Next]_vars PROVE Inv'
      OBVIOUS
  <2>1. [SettingsNext]_settingsVars /\ (LoaderNext \/ UNCHANGED loaderVars)
    BY DEF Next, vars
  <2>2. SettingsInv'
    BY <2>1, SettingsKeep DEF Inv
  <2>3. LoaderInv(Id)'
    BY <2>1, LoaderKeeps DEF Inv
  <2>4. ASSUME told' PROVE LoaderInv(Plugin)'
    <3>1. told
      BY <2>1, <2>4, ToldBefore DEF Inv, SettingsInv
    <3> QED BY <2>1, <3>1, LoaderKeeps DEF Inv
  <2> QED BY <2>2, <2>3, <2>4 DEF Inv
<1> QED BY <1>1, <1>2, PTL DEF Spec

\* The page on show is one there is, and the variables of hooks and loaders
\* keep the values of their types.
THEOREM LoaderTypeCorrect == Spec => []LoaderTypeOK
<1>1. Inv => LoaderTypeOK
  <2> SUFFICES ASSUME Inv PROVE LoaderTypeOK
      OBVIOUS
  <2>1. page \in Page \cup {"none"} /\ g_PageID \in Page \cup {"none"}
    BY DEF Inv, SettingsInv, Pages
  <2>2. ASSUME NEW p \in Process
        PROVE  /\ pc[p] \in {"none", "ini", "info", "sections", "done"}
               /\ hook[p] \in {"ready", "open", "write", "done"}
               /\ titleid[p] \in {NoInfo, Title[p]}
               /\ loaded[p] \subseteq Id
    BY DEF Inv, LoaderInv, LoaderTypes, Loads
  <2> QED BY <2>1, <2>2 DEF LoaderTypeOK
<1> QED BY <1>1, Always, PTL

\* Unless a page came over another without either hook being told, the hooks
\* of one page never write to the file of another, in whatever order ShellUI
\* opens, leaves and closes pages, and no game loads anything but plugins.
THEOREM PagesApart == Spec => []OwnPageOnly
<1>1. Inv => OwnPageOnly
  <2> SUFFICES ASSUME Inv, told PROVE OwnPageOnly
      BY DEF OwnPageOnly
  <2>1. ASSUME NEW path \in Path, NEW i \in DOMAIN disk[path]
        PROVE  DOMAIN disk[path][i].keys \subseteq OwnIds(path)
    <3>1. Good(OwnIds(path), path, disk[path], Whole(path), chosen[path], lost)
      BY DEF Inv, SettingsInv, Saves, IdsOf
    <3> QED BY <3>1 DEF Good, IsFile
  <2>2. ASSUME NEW p \in Process PROVE loaded[p] \subseteq Plugin
    BY DEF Inv, LoaderInv, LoaderTypes
  <2> QED BY <2>1, <2>2 DEF OwnPageOnly
<1> QED BY <1>1, Always, PTL

\* What is enabled on disk was enabled by the user, wherever ShellUI died.
THEOREM OnlyUserEnables == Spec => []EnabledByUser
<1>1. Inv => EnabledByUser
  <2> SUFFICES ASSUME Inv, NEW path \in Path, NEW id \in Id, Chosen(disk)[path][id] = "1"
               PROVE  chosen[path][id] = "1"
      BY DEF EnabledByUser
  <2> DEFINE d == disk[path]
             w == Whole(path)
             c == chosen[path]
             S == IdsOf(path)
  <2>1. Good(S, path, d, w, c, lost)
    BY DEF Inv, SettingsInv, Saves
  <2>2. Value(d, NameOf(path), id) = "1"
    BY DEF Chosen, Says, NameOf
  <2> HIDE DEF d, w, c, S
  <2>3. 1 # 0
    OBVIOUS
  <2>4. Good(S, path, d, d, c, 1)
    BY <2>1, <2>3, GoodLost, Zenon
  <2>5. c[id] = "1"
    BY <2>2, <2>4 DEF Good
  <2> QED BY <2>5 DEF c
<1> QED BY <1>1, Always, PTL

\* As long as ShellUI never died while it wrote, its files say what was
\* chosen, however reads and presses alternate.
THEOREM EverySettingKept == Spec => []SettingsKept
<1>1. Inv => SettingsKept
  <2> SUFFICES ASSUME Inv, Idle, lost = 0 PROVE Chosen(disk) = chosen
      BY DEF SettingsKept
  <2>1. chosen \in [Path -> [Id -> Text]]
    BY DEF Inv, SettingsInv, Saves
  <2>2. ASSUME NEW path \in Path, NEW id \in Id
        PROVE  Value(disk[path], NameOf(path), id) = chosen[path][id]
    <3>1. Good(IdsOf(path), path, disk[path], disk[path], chosen[path], lost)
      BY WholeIs DEF Inv, SettingsInv, Saves
    <3> QED BY <3>1 DEF Good
  <2>3. Chosen(disk) = [path \in Path |-> [id \in Id |-> Value(disk[path], NameOf(path), id)]]
    BY DEF Chosen, Says, NameOf
  <2> QED BY <2>1, <2>2, <2>3
<1> QED BY <1>1, Always, PTL

\* For every number of games that start at a time: who knows its title loads
\* only what is meant for it, also from a file that is half written.
THEOREM OthersNotLoaded == Spec => []OwnSectionsOnly
<1>1. Inv => OwnSectionsOnly
  BY DEF Inv, LoaderInv, Loads, OwnSectionsOnly
<1> QED BY <1>1, Always, PTL

\* A loader that reaches its end has left out nothing of a whole file.
THEOREM NothingForgotten == Spec => []NoneForgotten
<1>1. Inv => NoneForgotten
  <2> SUFFICES ASSUME Inv, NEW p \in Process, pc[p] = "done", wanted[p].whole,
                      NEW k \in wanted[p].plugins
               PROVE  k \in loaded[p]
      BY DEF NoneForgotten
  <2>1. wanted[p].whole = TRUE
    BY DEF Inv, LoaderInv, LoaderTypes
  <2>2. Loads(p, pc[p], sections[p], titleid[p], loaded[p], wanted[p])
    BY DEF Inv, LoaderInv
  <2>3. sections[p] = <<>>
    BY <2>2 DEF Loads
  <2> QED BY <2>1, <2>2, <2>3 DEF Loads
<1> QED BY <1>1, Always, PTL
=============================================================================

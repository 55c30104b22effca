----------------------------- MODULE DataLemmas -----------------------------
(***************************************************************************)
(* Facts about numbers and sequences that the proofs share.                *)
(***************************************************************************)
EXTENDS Integers, Sequences, SequencesExt, WellFoundedInduction, TLAPS

------------------------------------------------------------------------------
(***************************************************************************)
(* Numbers.                                                                *)
(***************************************************************************)
\* Induction, on a set of numbers.
LEMMA Climb ==
    ASSUME NEW n \in Nat, NEW S, 0 \in S, \A i \in 1 .. n : i - 1 \in S => i \in S
    PROVE  0 .. n \subseteq S
<1> DEFINE T == {i \in 0 .. n : i \notin S}
<1>1. SUFFICES ASSUME T # {} PROVE FALSE
  OBVIOUS
<1>2. T \subseteq Nat
  OBVIOUS
<1>3. PICK x \in T : \A y \in T : ~(<<y, x>> \in OpToRel(<, Nat))
  <2>1. IsWellFoundedOn(OpToRel(<, Nat), Nat)
    BY NatLessThanWellFounded
  <2> HIDE DEF T
  <2> QED BY <1>1, <1>2, <2>1, WFMin
<1>4. x \in 1 .. n /\ x - 1 \in 0 .. n /\ x - 1 < x /\ x \in Nat /\ x - 1 \in Nat /\ x \notin S
  OBVIOUS
<1>5. <<x - 1, x>> \in OpToRel(<, Nat)
  BY <1>4, Zenon DEF OpToRel
<1>6. x - 1 \in S
  BY <1>3, <1>4, <1>5
<1> QED BY <1>4, <1>6

\* A function that is defined from the end of 0 .. n, by steps of k down to
\* places where it stops, is there.
CanDescend(n, k, Stop) ==
    n \in Nat /\ k \in Nat \ {0} /\ \A i \in 0 .. n : i \notin Stop => i + k <= n

Descends(g, n, k, Stop, val) ==
    g = [i \in 0 .. n |-> IF i \in Stop THEN val[i] ELSE g[i + k]]

LEMMA Downward ==
    ASSUME NEW n, NEW k, NEW Stop, NEW val, CanDescend(n, k, Stop)
    PROVE  \E g : Descends(g, n, k, Stop, val)
<1> USE DEF CanDescend
<1> DEFINE Is(m, g) == g = [i \in n - m .. n |-> IF i \in Stop THEN val[i] ELSE g[i + k]]
           S == {m \in 0 .. n : \E g : Is(m, g)}
<1>1. 0 \in S
  <2> DEFINE g == [i \in n .. n |-> val[n]]
  <2>1. n \in Stop /\ n - 0 = n
    OBVIOUS
  <2>2. Is(0, g)
    <3>1. g = [i \in n .. n |-> IF i \in Stop THEN val[i] ELSE g[i + k]]
      BY <2>1
    <3> HIDE DEF g
    <3> QED BY <2>1, <3>1
  <2> HIDE DEF g, Is
  <2> QED BY <2>2
<1>2. ASSUME NEW m \in 1 .. n, m - 1 \in S PROVE m \in S
  <2>1. PICK g : Is(m - 1, g)
    BY <1>2
  <2> DEFINE h == [i \in n - m .. n |->
                    IF i = n - m THEN (IF i \in Stop THEN val[i] ELSE g[i + k]) ELSE g[i]]
  <2>2. ASSUME NEW i \in n - m .. n
        PROVE  h[i] = IF i \in Stop THEN val[i] ELSE h[i + k]
    <3>1. i \in 0 .. n /\ (i \notin Stop => i + k \in n - m .. n /\ i + k # n - m)
      BY <1>2
    <3>2. i \notin Stop => h[i + k] = g[i + k]
      BY <3>1
    <3>3. CASE i = n - m
      <4>1. h[i] = IF i \in Stop THEN val[i] ELSE g[i + k]
        BY <3>3
      <4> QED BY <3>2, <4>1
    <3>4. CASE i # n - m
      <4>1. i \in n - (m - 1) .. n /\ h[i] = g[i]
        BY <3>4
      <4>2. g[i] = IF i \in Stop THEN val[i] ELSE g[i + k]
        BY <2>1, <4>1
      <4> QED BY <3>2, <4>1, <4>2
    <3> QED BY <3>3, <3>4
  <2>3. h = [i \in n - m .. n |-> h[i]]
    OBVIOUS
  <2> HIDE DEF h
  <2>4. Is(m, h)
    <3> DEFINE body(i) == IF i \in Stop THEN val[i] ELSE h[i + k]
    <3>1. \A i \in n - m .. n : h[i] = body(i)
      BY <2>2
    <3> HIDE DEF body
    <3>2. h = [i \in n - m .. n |-> body(i)]
      BY <2>3, <3>1, Zenon
    <3> QED BY <3>2, Zenon DEF body
  <2>5. \E g1 : Is(m, g1)
    <3> HIDE DEF Is
    <3> QED BY <2>4
  <2> HIDE DEF Is
  <2> QED BY <1>2, <2>5
<1>3. n \in S
  <2> HIDE DEF S
  <2>1. 0 .. n \subseteq S
    BY <1>1, <1>2, Climb
  <2> QED BY <2>1
<1>4. PICK g : Is(n, g)
  BY <1>3
<1>5. n - n = 0
  OBVIOUS
<1>6. Descends(g, n, k, Stop, val)
  BY <1>4, <1>5 DEF Descends
<1> HIDE DEF Is
<1> QED BY <1>6

LEMMA Divided ==
    ASSUME NEW c \in Nat \ {0}, NEW a \in Nat
    PROVE  /\ a % c \in 0 .. c - 1 /\ a \div c \in Nat
           /\ a = c * (a \div c) + (a % c)
<1>1. a % c \in 0 .. c - 1
  BY SMTT(30)
<1>2. a = c * (a \div c) + (a % c)
  BY SMTT(30)
<1>3. a \div c \in Nat
  BY SMTT(30)
<1> QED BY <1>1, <1>2, <1>3

LEMMA Remainder ==
    ASSUME NEW c \in Nat \ {0}, NEW q \in Nat, NEW r \in 0 .. c - 1
    PROVE  (c * q + r) % c = r
BY SMTT(30)

LEMMA Multiples ==
    ASSUME NEW c \in Nat \ {0}, NEW p \in Nat, NEW q \in Nat, c * p < c * q
    PROVE  c * p + c <= c * q
BY SMTT(30)

\* Multiples of c are at least c apart, and everything is less than c above one.
LEMMA MultiplesApart ==
    ASSUME NEW c \in Nat \ {0}, NEW a \in Nat, NEW b \in Nat, a % c = 0, b % c = 0, a < b
    PROVE  a + c <= b
<1> DEFINE p == a \div c
           q == b \div c
<1>1. p \in Nat /\ q \in Nat /\ a = c * p + (a % c) /\ b = c * q + (b % c)
  BY Divided
<1> HIDE DEF p, q
<1>2. c * p \in Nat /\ c * q \in Nat
  BY <1>1
<1>3. a = c * p /\ b = c * q
  BY <1>1, <1>2
<1>4. c * p + c <= c * q
  BY <1>1, <1>3, Multiples
<1> QED BY <1>3, <1>4

LEMMA NextMultiple ==
    ASSUME NEW c \in Nat \ {0}, NEW a \in Nat, a % c = 0
    PROVE  (a + c) % c = 0
<1> DEFINE p == a \div c
<1>1. p \in Nat /\ a = c * p + (a % c)
  BY Divided
<1> HIDE DEF p
<1>2. a + c = c * (p + 1) + 0
  BY <1>1
<1>3. p + 1 \in Nat /\ 0 \in 0 .. c - 1
  BY <1>1
<1>4. (c * (p + 1) + 0) % c = 0
  BY <1>3, Remainder
<1> QED BY <1>2, <1>4

LEMMA WithinMultiple ==
    ASSUME NEW c \in Nat \ {0}, NEW a \in Nat, a % c = 0, NEW r \in 0 .. c - 1
    PROVE  (a + r) % c = r
<1> DEFINE p == a \div c
<1>1. p \in Nat /\ a = c * p + (a % c)
  BY Divided
<1> HIDE DEF p
<1>2. a + r = c * p + r
  BY <1>1
<1>3. (c * p + r) % c = r
  BY <1>1, Remainder
<1> QED BY <1>2, <1>3

LEMMA FloorMultiple ==
    ASSUME NEW c \in Nat \ {0}, NEW a \in Nat
    PROVE  /\ a - (a % c) \in Nat /\ (a - (a % c)) % c = 0
           /\ a % c \in 0 .. c - 1
<1> DEFINE p == a \div c
           r == a % c
<1>1. p \in Nat /\ r \in 0 .. c - 1 /\ a = c * p + r
  BY Divided
<1> HIDE DEF p, r
<1>2. a - r = c * p + 0 /\ c * p \in Nat
  BY <1>1
<1>3. 0 \in 0 .. c - 1
  OBVIOUS
<1>4. (c * p + 0) % c = 0
  BY <1>1, <1>3, Remainder
<1>5. a - r \in Nat /\ (a - r) % c = 0
  BY <1>1, <1>2, <1>4
<1> QED BY <1>1, <1>5 DEF r

------------------------------------------------------------------------------
(***************************************************************************)
(* Sequences, by their elements.                                           *)
(***************************************************************************)
LEMMA Extend ==
    ASSUME NEW S, NEW d \in Seq(S), NEW e \in S
    PROVE  /\ Append(d, e) \in Seq(S)
           /\ Len(Append(d, e)) = Len(d) + 1
           /\ \A j \in 1 .. Len(d) : Append(d, e)[j] = d[j]
           /\ Append(d, e)[Len(d) + 1] = e
<1>1. Append(d, e) \in Seq(S) /\ Len(Append(d, e)) = Len(d) + 1
  OBVIOUS
<1>2. \A j \in 1 .. Len(d) : Append(d, e)[j] = d[j]
  OBVIOUS
<1>3. Append(d, e)[Len(d) + 1] = e
  OBVIOUS
<1> QED BY <1>1, <1>2, <1>3

LEMMA Single ==
    ASSUME NEW S, NEW e \in S
    PROVE  <<e>> \in Seq(S) \ {<<>>} /\ Len(<<e>>) = 1
OBVIOUS

LEMMA Cut ==
    ASSUME NEW S, NEW f \in Seq(S), NEW n \in 0 .. Len(f)
    PROVE  /\ SubSeq(f, 1, n) \in Seq(S)
           /\ Len(SubSeq(f, 1, n)) = n
           /\ \A j \in 1 .. n : SubSeq(f, 1, n)[j] = f[j]
<1>1. SubSeq(f, 1, n) \in Seq(S)
  OBVIOUS
<1>2. Len(SubSeq(f, 1, n)) = n
  OBVIOUS
<1>3. \A j \in 1 .. n : SubSeq(f, 1, n)[j] = f[j]
  OBVIOUS
<1> QED BY <1>1, <1>2, <1>3

LEMMA Elements ==
    ASSUME NEW S, NEW f \in Seq(S)
    PROVE  /\ Len(f) \in Nat /\ DOMAIN f = 1 .. Len(f)
           /\ \A j \in 1 .. Len(f) : f[j] \in S
           /\ f # <<>> => Len(f) > 0
OBVIOUS

LEMMA Shorten ==
    ASSUME NEW S, NEW d \in Seq(S), d # <<>>
    PROVE  /\ Front(d) \in Seq(S)
           /\ Len(Front(d)) = Len(d) - 1
           /\ \A j \in 1 .. Len(d) - 1 : Front(d)[j] = d[j]
<1>1. Len(d) - 1 \in 0 .. Len(d)
  BY Elements
<1> QED BY <1>1, Cut DEF Front

LEMMA SameElements ==
    ASSUME NEW S, NEW d \in Seq(S), NEW f \in Seq(S), Len(d) = Len(f),
           \A j \in 1 .. Len(d) : f[j] = d[j]
    PROVE  d = f
OBVIOUS

LEMMA FrontAppend ==
    ASSUME NEW S, NEW d \in Seq(S), NEW e \in S
    PROVE  Front(Append(d, e)) = d
<1> DEFINE n == Append(d, e)
<1>1. n \in Seq(S) /\ Len(n) = Len(d) + 1 /\ (\A j \in 1 .. Len(d) : n[j] = d[j]) /\ Len(d) \in Nat
  BY Extend, Elements
<1> HIDE DEF n
<1>2. n # <<>>
  <2>1. Len(n) # 0 /\ Len(<<>>) = 0
    BY <1>1
  <2> QED BY <2>1
<1>3. Front(n) \in Seq(S) /\ Len(Front(n)) = Len(n) - 1 /\ \A j \in 1 .. Len(n) - 1 : Front(n)[j] = n[j]
  BY <1>1, <1>2, Shorten
<1>4. Len(Front(n)) = Len(d) /\ \A j \in 1 .. Len(d) : d[j] = Front(n)[j]
  BY <1>1, <1>3
<1>5. Front(n) = d
  BY <1>3, <1>4, SameElements
<1> QED BY <1>5 DEF n

LEMMA Concat ==
    ASSUME NEW S, NEW p \in Seq(S), NEW q \in Seq(S), NEW r, r = p \o q
    PROVE  /\ r \in Seq(S) /\ Len(r) = Len(p) + Len(q)
           /\ Len(p) \in Nat /\ Len(q) \in Nat
           /\ \A i \in 1 .. Len(p) : r[i] = p[i]
           /\ \A i \in 1 .. Len(q) : r[Len(p) + i] = q[i]
<1>1. r \in Seq(S) /\ Len(r) = Len(p) + Len(q) /\ Len(p) \in Nat /\ Len(q) \in Nat
  OBVIOUS
<1>2. \A i \in 1 .. Len(p) : r[i] = p[i]
  OBVIOUS
<1>3. \A i \in 1 .. Len(q) : r[Len(p) + i] = q[i]
  OBVIOUS
<1> QED BY <1>1, <1>2, <1>3

LEMMA Least ==
    ASSUME NEW S \in SUBSET Nat, S # {}
    PROVE  Min(S) \in S /\ \A y \in S : Min(S) <= y
<1>1. IsWellFoundedOn(OpToRel(<, Nat), Nat)
  BY NatLessThanWellFounded
<1>2. PICK x \in S : \A y \in S : ~(<<y, x>> \in OpToRel(<, Nat))
  BY <1>1, WFMin
<1>3. \A y \in S : ~(y < x)
  BY <1>2, Zenon DEF OpToRel
<1>4. \A y \in S : x <= y
  BY <1>3
<1> QED BY <1>4 DEF Min

\* An element in front.
LEMMA InFrontOf ==
    ASSUME NEW S, NEW x \in S, NEW d \in Seq(S), NEW r, r = <<x>> \o d
    PROVE  /\ r \in Seq(S) /\ Len(r) = Len(d) + 1 /\ Len(d) \in Nat /\ r # <<>>
           /\ r[1] = x /\ \A i \in 1 .. Len(d) : r[i + 1] = d[i]
<1>1. r \in Seq(S) /\ Len(r) = Len(d) + 1 /\ Len(d) \in Nat
  OBVIOUS
<1>2. r[1] = x
  OBVIOUS
<1>3. \A i \in 1 .. Len(d) : r[i + 1] = d[i]
  OBVIOUS
<1>4. r # <<>>
  <2>1. Len(r) # 0 /\ Len(<<>>) = 0
    BY <1>1
  <2> QED BY <2>1
<1> QED BY <1>1, <1>2, <1>3, <1>4

Changed(p, r, i, y) == p = [r EXCEPT ![i] = y]

LEMMA ElementChanged ==
    ASSUME NEW S, NEW y \in S, NEW r \in Seq(S), NEW i \in 1 .. Len(r),
           NEW p, Changed(p, r, i, y)
    PROVE  /\ p \in Seq(S) /\ Len(p) = Len(r) /\ Len(r) \in Nat /\ p[i] = y
           /\ \A j \in 1 .. Len(r) : j # i => p[j] = r[j]
<1>1. p = [r EXCEPT ![i] = y] /\ DOMAIN p = DOMAIN r /\ DOMAIN r = 1 .. Len(r) /\ Len(r) \in Nat
  BY Elements DEF Changed
<1>2. \A j \in 1 .. Len(r) : p[j] = IF j = i THEN y ELSE r[j]
  BY <1>1
<1>3. \A j \in 1 .. Len(r) : p[j] \in S
  BY <1>2, Elements
<1>4. p = [j \in 1 .. Len(r) |-> p[j]]
  BY <1>1
<1>5. p \in [1 .. Len(r) -> S]
  BY <1>3, <1>4
<1>6. p \in Seq(S) /\ Len(p) = Len(r)
  BY <1>1, <1>5
<1> QED BY <1>1, <1>2, <1>6

LEMMA RestOf ==
    ASSUME NEW S, NEW r \in Seq(S), r # <<>>, NEW d, d = Tail(r)
    PROVE  /\ r[1] \in S /\ d \in Seq(S) /\ Len(r) = Len(d) + 1 /\ Len(d) \in Nat
           /\ \A i \in 1 .. Len(d) : d[i] = r[i + 1]
<1>1. r[1] \in S /\ d \in Seq(S) /\ Len(d) = Len(r) - 1 /\ Len(r) \in Nat
  BY Elements
<1>2. \A i \in 1 .. Len(r) - 1 : d[i] = r[i + 1]
  OBVIOUS
<1> QED BY <1>1, <1>2

LEMMA FrontChanged ==
    ASSUME NEW S, NEW r \in Seq(S), r # <<>>, NEW y \in S, NEW p, Changed(p, r, 1, y)
    PROVE  p = <<y>> \o Tail(r)
<1> DEFINE d == Tail(r)
           q == <<y>> \o d
<1>0. d = Tail(r) /\ q = <<y>> \o d
  OBVIOUS
<1> HIDE DEF d, q
<1>1. d \in Seq(S) /\ Len(r) = Len(d) + 1 /\ Len(d) \in Nat /\ \A i \in 1 .. Len(d) : d[i] = r[i + 1]
  BY <1>0, RestOf
<1>2. /\ q \in Seq(S) /\ Len(q) = Len(d) + 1 /\ q[1] = y
      /\ \A i \in 1 .. Len(d) : q[i + 1] = d[i]
  BY <1>0, <1>1, InFrontOf
<1>3. p \in Seq(S) /\ Len(p) = Len(r) /\ p[1] = y /\ \A i \in 1 .. Len(r) : i # 1 => p[i] = r[i]
  <2>1. 1 \in 1 .. Len(r)
    BY <1>1
  <2> QED BY <2>1, ElementChanged
<1>4. \A i \in 1 .. Len(q) : i = 1 \/ (i - 1 \in 1 .. Len(d) /\ (i - 1) + 1 = i /\ i \in 1 .. Len(r))
  BY <1>1, <1>2
<1>5. \A i \in 1 .. Len(q) : p[i] = q[i]
  BY <1>1, <1>2, <1>3, <1>4, ZenonT(30)
<1>6. q = p
  BY <1>1, <1>2, <1>3, <1>5, SameElements
<1> QED BY <1>0, <1>6

LEMMA RestInFront ==
    ASSUME NEW S, NEW x \in S, NEW d \in Seq(S)
    PROVE  Tail(<<x>> \o d) = d
<1> DEFINE r == <<x>> \o d
           e == Tail(r)
<1>1. /\ r \in Seq(S) /\ Len(r) = Len(d) + 1 /\ Len(d) \in Nat /\ r # <<>>
      /\ \A i \in 1 .. Len(d) : r[i + 1] = d[i]
  BY InFrontOf
<1>2. e = Tail(r)
  OBVIOUS
<1> HIDE DEF r, e
<1>3. e \in Seq(S) /\ Len(r) = Len(e) + 1 /\ Len(e) \in Nat /\ \A i \in 1 .. Len(e) : e[i] = r[i + 1]
  BY <1>1, <1>2, RestOf
<1>4. d = e
  BY <1>1, <1>3, SameElements
<1> QED BY <1>4 DEF e, r

LEMMA FrontAndRest ==
    ASSUME NEW S, NEW r \in Seq(S), r # <<>>
    PROVE  r = <<r[1]>> \o Tail(r) /\ r[1] \in S /\ Tail(r) \in Seq(S)
<1> DEFINE q == <<r[1]>> \o Tail(r)
<1>1. r[1] \in S /\ Tail(r) \in Seq(S) /\ Len(Tail(r)) = Len(r) - 1 /\ Len(r) \in Nat
  BY Elements
<1>2. \A i \in 1 .. Len(r) - 1 : Tail(r)[i] = r[i + 1]
  OBVIOUS
<1>3. /\ q \in Seq(S) /\ Len(q) = Len(r) /\ q[1] = r[1]
      /\ \A i \in 1 .. Len(r) - 1 : q[i + 1] = r[i + 1]
  BY <1>1, <1>2, InFrontOf
<1> HIDE DEF q
<1>4. \A i \in 1 .. Len(r) : i = 1 \/ (i - 1 \in 1 .. Len(r) - 1 /\ (i - 1) + 1 = i)
  BY <1>1
<1>5. \A i \in 1 .. Len(r) : q[i] = r[i]
  BY <1>3, <1>4
<1>6. r = q
  BY <1>3, <1>5, SameElements
<1> QED BY <1>1, <1>6 DEF q

LEMMA CutMore ==
    ASSUME NEW S, NEW f \in Seq(S), NEW n \in 1 .. Len(f)
    PROVE  SubSeq(f, 1, n) = Append(SubSeq(f, 1, n - 1), f[n])
<1> DEFINE p == SubSeq(f, 1, n)
           q == SubSeq(f, 1, n - 1)
           r == Append(q, f[n])
<1>1. Len(f) \in Nat /\ f[n] \in S /\ n \in 0 .. Len(f) /\ n - 1 \in 0 .. Len(f)
  BY Elements
<1>2. p \in Seq(S) /\ Len(p) = n /\ \A j \in 1 .. n : p[j] = f[j]
  BY <1>1, Cut
<1>3. q \in Seq(S) /\ Len(q) = n - 1 /\ \A j \in 1 .. n - 1 : q[j] = f[j]
  BY <1>1, Cut
<1> HIDE DEF p, q
<1>4. r \in Seq(S) /\ Len(r) = n /\ r[n] = f[n] /\ \A j \in 1 .. n - 1 : r[j] = q[j]
  BY <1>1, <1>3, Extend
<1> HIDE DEF r
<1>5. \A j \in 1 .. Len(p) : r[j] = p[j]
  <2>1. \A j \in 1 .. n : j = n \/ j \in 1 .. n - 1
    OBVIOUS
  <2> QED BY <1>2, <1>3, <1>4, <2>1
<1>6. p = r
  BY <1>2, <1>4, <1>5, SameElements
<1> QED BY <1>6 DEF p, q, r

LEMMA ConcatAppend ==
    ASSUME NEW S, NEW p \in Seq(S), NEW q \in Seq(S), NEW e \in S
    PROVE  p \o Append(q, e) = Append(p \o q, e)
OBVIOUS

LEMMA ConcatEmpty ==
    ASSUME NEW S, NEW p \in Seq(S)
    PROVE  p \o <<>> = p /\ <<>> \o p = p /\ <<>> \in Seq(S)
OBVIOUS

LEMMA ReverseIs ==
    ASSUME NEW S, NEW f \in Seq(S), NEW r, r = Reverse(f)
    PROVE  /\ r \in Seq(S) /\ Len(r) = Len(f) /\ Len(f) \in Nat
           /\ \A j \in 1 .. Len(f) : r[j] = f[Len(f) - j + 1]
           /\ \A j \in 1 .. Len(f) : f[j] = r[Len(f) - j + 1]
<1>1. Len(f) \in Nat /\ \A j \in 1 .. Len(f) : f[j] \in S
  BY Elements
<1>2. r = [j \in 1 .. Len(f) |-> f[Len(f) - j + 1]]
  BY DEF Reverse
<1>3. \A j \in 1 .. Len(f) : Len(f) - j + 1 \in 1 .. Len(f) /\ Len(f) - (Len(f) - j + 1) + 1 = j
  BY <1>1
<1>4. r \in [1 .. Len(f) -> S]
  BY <1>1, <1>2, <1>3
<1>5. r \in Seq(S) /\ Len(r) = Len(f)
  BY <1>1, <1>4
<1>6. \A j \in 1 .. Len(f) : r[j] = f[Len(f) - j + 1]
  BY <1>2
<1>7. \A j \in 1 .. Len(f) : f[j] = r[Len(f) - j + 1]
  <2> TAKE j \in 1 .. Len(f)
  <2> DEFINE i == Len(f) - j + 1
  <2>1. i \in 1 .. Len(f) /\ Len(f) - i + 1 = j
    BY <1>3
  <2> HIDE DEF i
  <2>2. r[i] = f[j]
    BY <1>6, <2>1
  <2> QED BY <2>2 DEF i
<1> QED BY <1>1, <1>5, <1>6, <1>7

\* One element more in front of the reverse.
LEMMA ReverseMore ==
    ASSUME NEW S, NEW f \in Seq(S), NEW n \in 1 .. Len(f)
    PROVE  Reverse(SubSeq(f, 1, n)) = <<f[n]>> \o Reverse(SubSeq(f, 1, n - 1))
<1> DEFINE p == SubSeq(f, 1, n)
           q == SubSeq(f, 1, n - 1)
           rp == Reverse(p)
           rq == Reverse(q)
           r == <<f[n]>> \o rq
<1>1. Len(f) \in Nat /\ f[n] \in S /\ n \in 0 .. Len(f) /\ n - 1 \in 0 .. Len(f)
  BY Elements
<1>2. p \in Seq(S) /\ Len(p) = n /\ \A j \in 1 .. n : p[j] = f[j]
  BY <1>1, Cut
<1>3. q \in Seq(S) /\ Len(q) = n - 1 /\ \A j \in 1 .. n - 1 : q[j] = f[j]
  BY <1>1, Cut
<1> HIDE DEF p, q
<1>4. rp \in Seq(S) /\ Len(rp) = n /\ \A j \in 1 .. n : rp[j] = p[n - j + 1]
  BY <1>2, ReverseIs
<1>5. rq \in Seq(S) /\ Len(rq) = n - 1 /\ \A j \in 1 .. n - 1 : rq[j] = q[n - 1 - j + 1]
  BY <1>3, ReverseIs, SMTT(30)
<1> HIDE DEF rp, rq
<1>6. r \in Seq(S) /\ Len(r) = n /\ r[1] = f[n] /\ \A j \in 1 .. n - 1 : r[j + 1] = rq[j]
  BY <1>1, <1>5, InFrontOf
<1> HIDE DEF r
<1>7. \A j \in 1 .. n : r[j] = rp[j]
  <2> TAKE j \in 1 .. n
  <2>1. n - j + 1 \in 1 .. n /\ rp[j] = f[n - j + 1]
    BY <1>2, <1>4
  <2>2. CASE j = 1
    <3>1. n - j + 1 = n
      BY <2>2
    <3> QED BY <1>6, <2>1, <2>2, <3>1
  <2>3. CASE j # 1
    <3> DEFINE i == j - 1
    <3>1. i \in 1 .. n - 1 /\ i + 1 = j /\ n - 1 - i + 1 = n - j + 1 /\ n - j + 1 \in 1 .. n - 1
      BY <2>3
    <3> HIDE DEF i
    <3> QED BY <1>3, <1>5, <1>6, <2>1, <3>1
  <2> QED BY <2>2, <2>3
<1>8. rp = r
  BY <1>4, <1>6, <1>7, SameElements
<1> QED BY <1>8 DEF p, q, rp, rq, r

LEMMA CutWhole ==
    ASSUME NEW S, NEW f \in Seq(S)
    PROVE  SubSeq(f, 1, Len(f)) = f /\ SubSeq(f, 1, 0) = <<>>
<1> DEFINE p == SubSeq(f, 1, Len(f))
<1>1. Len(f) \in 0 .. Len(f) /\ Len(f) \in Nat
  BY Elements
<1>2. p \in Seq(S) /\ Len(p) = Len(f) /\ \A j \in 1 .. Len(f) : p[j] = f[j]
  BY <1>1, Cut
<1> HIDE DEF p
<1>3. f = p
  BY <1>2, SameElements
<1>4. SubSeq(f, 1, 0) = <<>>
  OBVIOUS
<1> QED BY <1>3, <1>4 DEF p

LEMMA ReverseEmpty == Reverse(<<>>) = <<>>
BY DEF Reverse

\* FlattenSeq, one sequence after the other.
Flattens(w, seqs, S) ==
    /\ w \in [0 .. Len(seqs) -> Seq(S)]
    /\ w[0] = <<>>
    /\ \A i \in 1 .. Len(seqs) : w[i] = w[i - 1] \o seqs[i]
    /\ FlattenSeq(seqs) = w[Len(seqs)]

LEMMA FlattenSteps ==
    ASSUME NEW S, NEW seqs \in Seq(Seq(S))
    PROVE  \E w : Flattens(w, seqs, S)
<1> DEFINE n == Len(seqs)
           cat(a, i) == a \o seqs[i]
           Is(m, g) == g = [i \in 1 .. m |-> IF i = 1 THEN seqs[i] ELSE cat(g[i - 1], i)]
<1>1. n \in Nat /\ (\A i \in 1 .. n : seqs[i] \in Seq(S)) /\ (n = 0 => seqs = <<>>)
  BY Elements
<1>2. CASE n = 0
  <2> DEFINE w == [i \in 0 .. 0 |-> <<>>]
  <2>1. w \in [0 .. n -> Seq(S)] /\ w[0] = <<>>
    BY <1>2
  <2> HIDE DEF w
  <2>2. FlattenSeq(seqs) = <<>>
    BY <1>1, <1>2 DEF FlattenSeq
  <2>3. Flattens(w, seqs, S)
    BY <1>2, <2>1, <2>2 DEF Flattens
  <2> QED BY <2>3
<1>3. CASE n # 0
  <2> DEFINE T == {m \in 0 .. n : \E g : Is(m, g)}
  <2>1. 0 \in T
    <3> DEFINE g == [i \in 1 .. 0 |-> 0]
    <3>1. Is(0, g)
      <4>1. \A h : Is(0, h) <=> h = [i \in {} |-> 0]
        OBVIOUS
      <4> HIDE DEF Is
      <4>2. g = [i \in {} |-> 0]
        OBVIOUS
      <4> QED BY <4>1, <4>2
    <3> HIDE DEF Is, g
    <3> QED BY <1>1, <3>1
  <2>2. ASSUME NEW m \in 1 .. n, m - 1 \in T PROVE m \in T
    <3>1. PICK g : Is(m - 1, g)
      BY <2>2
    <3> DEFINE h == [i \in 1 .. m |-> IF i = m THEN (IF i = 1 THEN seqs[i] ELSE cat(g[i - 1], i))
                                      ELSE g[i]]
    <3>2. ASSUME NEW i \in 1 .. m
          PROVE  h[i] = IF i = 1 THEN seqs[i] ELSE cat(h[i - 1], i)
      <4> HIDE DEF cat
      <4>1. i # 1 => i - 1 \in 1 .. m /\ i - 1 # m /\ h[i - 1] = g[i - 1]
        OBVIOUS
      <4>2. CASE i = m
        <5>1. h[i] = IF i = 1 THEN seqs[i] ELSE cat(g[i - 1], i)
          BY <4>2
        <5> QED BY <4>1, <5>1
      <4>3. CASE i # m
        <5>1. i \in 1 .. m - 1 /\ h[i] = g[i]
          BY <4>3
        <5>2. g[i] = IF i = 1 THEN seqs[i] ELSE cat(g[i - 1], i)
          BY <3>1, <5>1
        <5> QED BY <4>1, <5>1, <5>2
      <4> QED BY <4>2, <4>3
    <3>3. h = [i \in 1 .. m |-> h[i]]
      OBVIOUS
    <3> HIDE DEF h, cat
    <3>4. Is(m, h)
      <4> DEFINE body(i) == IF i = 1 THEN seqs[i] ELSE cat(h[i - 1], i)
      <4>1. \A i \in 1 .. m : h[i] = body(i)
        BY <3>2
      <4> HIDE DEF body
      <4>2. h = [i \in 1 .. m |-> body(i)]
        BY <3>3, <4>1, Zenon
      <4> QED BY <4>2, Zenon DEF body
    <3> HIDE DEF Is
    <3> QED BY <2>2, <3>4
  <2>3. n \in T
    <3> HIDE DEF T, n
    <3>1. 0 .. n \subseteq T
      BY <1>1, <2>1, <2>2, Climb
    <3> QED BY <1>1, <3>1
  <2>4. PICK g : Is(n, g)
    BY <2>3
  <2>5. PICK f : Is(n, f) /\ FlattenSeq(seqs) = f[n]
    <3>1. FlattenSeq(seqs) = (CHOOSE f : Is(n, f))[n]
      BY <1>3, Zenon DEF FlattenSeq
    <3> HIDE DEF Is
    <3> QED BY <2>4, <3>1
  <2>6. \A i \in 1 .. n : f[i] = IF i = 1 THEN seqs[i] ELSE cat(f[i - 1], i)
    <3> HIDE DEF cat
    <3> QED BY <2>5
  <2> HIDE DEF Is
  <2> DEFINE w == [i \in 0 .. n |-> IF i = 0 THEN <<>> ELSE f[i]]
  <2>7. w[0] = <<>> /\ w[n] = f[n] /\ \A i \in 1 .. n : w[i] = f[i]
    BY <1>1, <1>3
  <2>8. ASSUME NEW i \in 1 .. n PROVE w[i] = cat(w[i - 1], i)
    <3>1. CASE i = 1
      <4>1. w[i] = seqs[i] /\ w[i - 1] = <<>>
        BY <2>6, <2>7, <3>1
      <4>2. cat(<<>>, i) = seqs[i]
        BY <1>1, ConcatEmpty
      <4> QED BY <4>1, <4>2
    <3>2. CASE i # 1
      <4>1. i - 1 \in 1 .. n
        BY <3>2
      <4> HIDE DEF w, cat
      <4> QED BY <2>6, <2>7, <3>2, <4>1
    <3> QED BY <3>1, <3>2
  <2>9. w = [i \in 0 .. n |-> w[i]]
    OBVIOUS
  <2> HIDE DEF w
  <2> DEFINE U == {i \in 0 .. n : w[i] \in Seq(S)}
  <2>10. 0 \in U
    <3>1. <<>> \in Seq(S) /\ 0 \in 0 .. n
      BY <1>1
    <3> HIDE DEF n
    <3> QED BY <2>7, <3>1
  <2>11. ASSUME NEW i \in 1 .. n, i - 1 \in U PROVE i \in U
    <3>1. cat(w[i - 1], i) \in Seq(S)
      BY <1>1, <2>11
    <3> HIDE DEF cat
    <3> QED BY <2>8, <3>1
  <2>12. 0 .. n \subseteq U
    <3> HIDE DEF U, n
    <3> QED BY <1>1, <2>10, <2>11, Climb
  <2>13. w \in [0 .. n -> Seq(S)]
    BY <2>9, <2>12
  <2>14. Flattens(w, seqs, S)
    BY <2>5, <2>7, <2>8, <2>13 DEF Flattens
  <2> QED BY <2>14
<1> QED BY <1>2, <1>3

LEMMA ConcatMore ==
    ASSUME NEW S, NEW h \in Seq(S), NEW f \in Seq(S), NEW n \in 1 .. Len(f)
    PROVE  /\ h \o SubSeq(f, 1, n) = Append(h \o SubSeq(f, 1, n - 1), f[n])
           /\ h \o SubSeq(f, 1, n - 1) \in Seq(S)
<1> DEFINE p == SubSeq(f, 1, n - 1)
           e == f[n]
<1>1. p \in Seq(S) /\ e \in S
  <2>1. n - 1 \in 0 .. Len(f) /\ e \in S
    BY Elements
  <2> QED BY <2>1, Cut
<1>2. SubSeq(f, 1, n) = Append(p, e)
  BY CutMore
<1> HIDE DEF p, e
<1>3. h \o Append(p, e) = Append(h \o p, e) /\ h \o p \in Seq(S)
  BY <1>1, ConcatAppend
<1>4. h \o SubSeq(f, 1, n) = Append(h \o p, e)
  BY <1>2, <1>3, Zenon
<1> QED BY <1>3, <1>4, Zenon DEF p, e

LEMMA ConcatWhole ==
    ASSUME NEW S, NEW h \in Seq(S), NEW f \in Seq(S)
    PROVE  h \o SubSeq(f, 1, Len(f)) = h \o f /\ h \o SubSeq(f, 1, 0) = h
<1>1. SubSeq(f, 1, Len(f)) = f /\ SubSeq(f, 1, 0) = <<>>
  BY CutWhole
<1>2. h \o <<>> = h
  BY ConcatEmpty
<1> QED BY <1>1, <1>2, Zenon


\* An element taken out.
LEMMA Removed ==
    ASSUME NEW S, NEW f \in Seq(S), NEW n \in 1 .. Len(f), NEW r, r = RemoveAt(f, n)
    PROVE  /\ r \in Seq(S) /\ Len(r) = Len(f) - 1 /\ Len(f) \in Nat
           /\ \A j \in 1 .. n - 1 : r[j] = f[j]
           /\ \A j \in n .. Len(f) - 1 : r[j] = f[j + 1]
<1> DEFINE p == SubSeq(f, 1, n - 1)
           q == SubSeq(f, n + 1, Len(f))
           m == Len(f)
<1>1. m \in Nat /\ n - 1 \in 0 .. m /\ n \in 1 .. m
  BY Elements
<1>2. p \in Seq(S) /\ Len(p) = n - 1 /\ \A j \in 1 .. n - 1 : p[j] = f[j]
  BY <1>1, Cut
<1>3. q \in Seq(S) /\ Len(q) = m - n
  BY <1>1
<1>4. \A j \in 1 .. m - n : q[j] = f[n + j]
  BY <1>1
<1>5. r = p \o q
  BY DEF RemoveAt
<1> HIDE DEF p, q
<1>6. /\ r \in Seq(S) /\ Len(r) = Len(p) + Len(q)
      /\ \A i \in 1 .. Len(p) : r[i] = p[i]
      /\ \A i \in 1 .. Len(q) : r[Len(p) + i] = q[i]
  <2>1. p \in Seq(S) /\ q \in Seq(S)
    BY <1>2, <1>3
  <2> QED BY <1>5, <2>1, Concat
<1> HIDE DEF m
<1>7. \A j \in n .. m - 1 : r[j] = f[j + 1]
  <2> TAKE j \in n .. m - 1
  <2> DEFINE i == j - n + 1
  <2>1. i \in 1 .. m - n /\ Len(p) + i = j /\ n + i = j + 1 /\ i \in 1 .. Len(q)
    BY <1>1, <1>2, <1>3
  <2> HIDE DEF i
  <2>2. r[Len(p) + i] = q[i] /\ q[i] = f[n + i]
    BY <1>4, <1>6, <2>1
  <2> QED BY <2>1, <2>2
<1>8. Len(r) = m - 1 /\ \A j \in 1 .. n - 1 : r[j] = f[j]
  <2>1. Len(r) = m - 1
    BY <1>1, <1>2, <1>3, <1>6
  <2>2. \A j \in 1 .. n - 1 : r[j] = p[j] /\ p[j] = f[j]
    BY <1>2, <1>6
  <2> QED BY <2>1, <2>2
<1> QED BY <1>1, <1>6, <1>7, <1>8 DEF m


\* The elements of a sequence and of its reverse are the same.
Among(f) == {f[j] : j \in DOMAIN f}

LEMMA ReverseSet ==
    ASSUME NEW S, NEW f \in Seq(S), NEW r, r = Reverse(f)
    PROVE  Among(r) = Among(f)
<1>1. /\ r \in Seq(S) /\ Len(r) = Len(f) /\ Len(f) \in Nat
      /\ \A j \in 1 .. Len(f) : r[j] = f[Len(f) - j + 1]
      /\ \A j \in 1 .. Len(f) : f[j] = r[Len(f) - j + 1]
  BY ReverseIs
<1>2. DOMAIN f = 1 .. Len(f) /\ DOMAIN r = 1 .. Len(f)
  BY <1>1, Elements
<1>3. \A j \in 1 .. Len(f) : Len(f) - j + 1 \in 1 .. Len(f)
  BY <1>1
<1> DEFINE n == Len(f)
<1>4. ASSUME NEW e PROVE (\E j \in 1 .. n : e = r[j]) <=> (\E j \in 1 .. n : e = f[j])
  <2> HIDE DEF n
  <2>1. ASSUME NEW j \in 1 .. n, e = r[j] PROVE \E m \in 1 .. n : e = f[m]
    <3>1. n - j + 1 \in 1 .. n /\ e = f[n - j + 1]
      BY <1>1, <1>3, <2>1 DEF n
    <3> QED BY <3>1
  <2>2. ASSUME NEW j \in 1 .. n, e = f[j] PROVE \E m \in 1 .. n : e = r[m]
    <3>1. n - j + 1 \in 1 .. n /\ e = r[n - j + 1]
      BY <1>1, <1>3, <2>2 DEF n
    <3> QED BY <3>1
  <2> QED BY <2>1, <2>2
<1> QED BY <1>2, <1>4 DEF Among

LEMMA ReverseTwice ==
    ASSUME NEW S, NEW f \in Seq(S)
    PROVE  Reverse(Reverse(f)) = f
<1> DEFINE r == Reverse(f)
           z == Reverse(r)
           n == Len(f)
<1>1. r \in Seq(S) /\ Len(r) = n /\ n \in Nat /\ \A j \in 1 .. n : f[j] = r[n - j + 1]
  BY ReverseIs
<1> HIDE DEF r
<1>2. z \in Seq(S) /\ Len(z) = n /\ \A j \in 1 .. n : z[j] = r[n - j + 1]
  BY <1>1, ReverseIs
<1> HIDE DEF z
<1>3. \A j \in 1 .. n : z[j] = f[j]
  BY <1>1, <1>2
<1>4. f = z
  BY <1>1, <1>2, <1>3, SameElements
<1> QED BY <1>4 DEF r, z

------------------------------------------------------------------------------
(***************************************************************************)
(* Lengths.                                                                *)
(***************************************************************************)
Counts(w, seqs, S) ==
    /\ w \in [0 .. Len(seqs) -> Int] /\ w[0] = 0
    /\ \A i \in 1 .. Len(seqs) : Len(seqs[i]) \in Nat /\ w[i] = w[i - 1] + Len(seqs[i])
    /\ Len(FlattenSeq(seqs)) = w[Len(seqs)]

LEMMA FlattenLength ==
    ASSUME NEW S, NEW seqs \in Seq(Seq(S))
    PROVE  \E w : Counts(w, seqs, S)
<1> DEFINE n == Len(seqs)
<1>1. n \in Nat /\ \A i \in 1 .. n : seqs[i] \in Seq(S)
  BY Elements
<1>2. PICK f : Flattens(f, seqs, S)
  BY FlattenSteps
<1>3. /\ \A i \in 0 .. n : f[i] \in Seq(S)
      /\ f[0] = <<>> /\ \A i \in 1 .. n : f[i] = f[i - 1] \o seqs[i]
      /\ FlattenSeq(seqs) = f[n]
  BY <1>2 DEF Flattens
<1> DEFINE w == [i \in 0 .. n |-> Len(f[i])]
<1>4. n \in 0 .. n /\ 0 \in 0 .. n /\ \A i \in 1 .. n : i \in 0 .. n /\ i - 1 \in 0 .. n
  BY <1>1
<1>5. \A i \in 0 .. n : Len(f[i]) \in Nat /\ w[i] = Len(f[i])
  BY <1>3
<1>6. w \in [0 .. n -> Int]
  BY <1>5
<1> HIDE DEF w
<1>7. \A i \in 1 .. n : Len(seqs[i]) \in Nat /\ w[i] = w[i - 1] + Len(seqs[i])
  <2> TAKE i \in 1 .. n
  <2>1. /\ f[i - 1] \in Seq(S) /\ seqs[i] \in Seq(S) /\ f[i] = f[i - 1] \o seqs[i]
        /\ w[i] = Len(f[i]) /\ w[i - 1] = Len(f[i - 1])
    BY <1>1, <1>3, <1>4, <1>5
  <2> QED BY <2>1, Concat
<1>8. w[0] = 0 /\ Len(FlattenSeq(seqs)) = w[n]
  BY <1>3, <1>4, <1>5
<1>9. Counts(w, seqs, S)
  BY <1>6, <1>7, <1>8 DEF Counts
<1> QED BY <1>9

\* p and q have the same pieces in reverse orders, each as long as it was
\* but for b, which depends on the place; c is what b adds up to.
SameTurned(p, q, b, c) ==
    /\ Len(q) = Len(p) /\ c[0] = 0
    /\ \A i \in 0 .. Len(p) : c[i] \in Int
    /\ \A i \in 1 .. Len(p) :
        /\ b[i] \in Int /\ c[i] = c[i - 1] + b[i]
        /\ Len(q[i]) - b[i] = Len(p[Len(p) - i + 1]) - b[Len(p) - i + 1]

LEMMA Tuples ==
    ASSUME NEW T, NEW n \in Nat, NEW p \in [1 .. n -> T]
    PROVE  p \in Seq(T) /\ Len(p) = n
OBVIOUS

\* Pieces in the reverse order, each as long as it was but for what depends
\* on its place, make a sequence of the same length.
LEMMA TurnedLength ==
    ASSUME NEW S, NEW p \in Seq(Seq(S)), NEW q \in Seq(Seq(S)),
           NEW b, NEW c, SameTurned(p, q, b, c)
    PROVE  Len(FlattenSeq(q)) = Len(FlattenSeq(p))
<1> DEFINE n == Len(p)
<1>1. n \in Nat
  BY Elements
<1>2. PICK w : Counts(w, p, S)
  BY FlattenLength
<1>3. PICK v : Counts(v, q, S)
  BY FlattenLength
<1>4. /\ w \in [0 .. n -> Int] /\ w[0] = 0 /\ Len(FlattenSeq(p)) = w[n]
      /\ \A i \in 1 .. n : Len(p[i]) \in Nat /\ w[i] = w[i - 1] + Len(p[i])
  BY <1>2 DEF Counts
<1>5. /\ v \in [0 .. n -> Int] /\ v[0] = 0 /\ Len(FlattenSeq(q)) = v[n]
      /\ \A i \in 1 .. n : Len(q[i]) \in Nat /\ v[i] = v[i - 1] + Len(q[i])
  BY <1>3 DEF Counts, SameTurned
<1> HIDE DEF n
<1>6. c[0] = 0 /\ (\A i \in 0 .. n : c[i] \in Int)
      /\ (\A i \in 1 .. n : b[i] \in Int /\ c[i] = c[i - 1] + b[i])
      /\ (\A i \in 1 .. n : Len(q[i]) - b[i] = Len(p[n - i + 1]) - b[n - i + 1])
  BY DEF SameTurned, n
<1> DEFINE T == {i \in 0 .. n : v[i] - c[i] = (w[n] - c[n]) - (w[n - i] - c[n - i])}
<1>7. 0 \in T
  <2>1. n - 0 = n /\ n \in 0 .. n /\ 0 \in 0 .. n
    BY <1>1
  <2>2. w[n] \in Int /\ c[n] \in Int
    BY <1>4, <1>6, <2>1
  <2>3. v[0] - c[0] = (w[n] - c[n]) - (w[n] - c[n])
    BY <1>5, <1>6, <2>2
  <2> QED BY <2>1, <2>3
<1>8. ASSUME NEW i \in 1 .. n, i - 1 \in T PROVE i \in T
  <2> DEFINE m == n - i + 1
  <2>1. /\ m \in 1 .. n /\ m \in 0 .. n /\ m - 1 \in 0 .. n /\ n - (i - 1) = m /\ n - i = m - 1
        /\ i \in 0 .. n /\ i - 1 \in 0 .. n /\ n \in 0 .. n
    BY <1>1
  <2>2. v[i - 1] - c[i - 1] = (w[n] - c[n]) - (w[m] - c[m])
    BY <1>8, <2>1
  <2>3. /\ v[i] = v[i - 1] + Len(q[i]) /\ w[m] = w[m - 1] + Len(p[m])
        /\ c[i] = c[i - 1] + b[i] /\ c[m] = c[m - 1] + b[m]
        /\ Len(q[i]) - b[i] = Len(p[m]) - b[m]
        /\ Len(q[i]) \in Int /\ Len(p[m]) \in Int /\ b[i] \in Int /\ b[m] \in Int
    <3> HIDE DEF m
    <3>1. v[i] = v[i - 1] + Len(q[i]) /\ w[m] = w[m - 1] + Len(p[m])
      BY <1>4, <1>5, <2>1
    <3>2. c[i] = c[i - 1] + b[i] /\ c[m] = c[m - 1] + b[m] /\ b[i] \in Int /\ b[m] \in Int
      BY <1>6, <2>1
    <3>3. Len(q[i]) \in Int /\ Len(p[m]) \in Int
      BY <1>4, <1>5, <2>1
    <3>4. Len(q[i]) - b[i] = Len(p[m]) - b[m]
      BY <1>6 DEF m
    <3> QED BY <3>1, <3>2, <3>3, <3>4
  <2>4. /\ v[i] \in Int /\ v[i - 1] \in Int /\ w[n] \in Int /\ w[m] \in Int /\ w[m - 1] \in Int
        /\ c[i] \in Int /\ c[i - 1] \in Int /\ c[n] \in Int /\ c[m] \in Int /\ c[m - 1] \in Int
    BY <1>4, <1>5, <1>6, <2>1
  <2> HIDE DEF m
  <2>5. v[i] - c[i] = (w[n] - c[n]) - (w[m - 1] - c[m - 1])
    <3> DEFINE vi == v[i]  vj == v[i - 1]  ci == c[i]  cj == c[i - 1]
               wn == w[n]  wm == w[m]  wl == w[m - 1]  cn == c[n]  cm == c[m]  cl == c[m - 1]
               x == Len(q[i])  y == Len(p[m])  d == b[i]  e == b[m]
    <3>1. /\ vj - cj = (wn - cn) - (wm - cm) /\ vi = vj + x /\ wm = wl + y
          /\ ci = cj + d /\ cm = cl + e /\ x - d = y - e
      BY <2>2, <2>3
    <3>2. /\ vi \in Int /\ vj \in Int /\ wn \in Int /\ wm \in Int /\ wl \in Int
          /\ ci \in Int /\ cj \in Int /\ cn \in Int /\ cm \in Int /\ cl \in Int
          /\ x \in Int /\ y \in Int /\ d \in Int /\ e \in Int
      BY <2>3, <2>4
    <3> HIDE DEF vi, vj, ci, cj, wn, wm, wl, cn, cm, cl, x, y, d, e
    <3>3. vi - ci = (wn - cn) - (wl - cl)
      BY <3>1, <3>2
    <3> QED BY <3>3 DEF vi, ci, wn, cn, wl, cl
  <2> QED BY <2>1, <2>5
<1>9. n \in T
  <2> HIDE DEF T
  <2>1. 0 .. n \subseteq T
    BY <1>1, <1>7, <1>8, Climb
  <2> QED BY <1>1, <2>1
<1>10. v[n] - c[n] = (w[n] - c[n]) - (w[0] - c[0])
  <2>1. n - n = 0
    BY <1>1
  <2> QED BY <1>9, <2>1
<1>11. v[n] \in Int /\ w[n] \in Int /\ c[n] \in Int
  BY <1>1, <1>4, <1>5, <1>6
<1>12. v[n] = w[n]
  BY <1>4, <1>6, <1>10, <1>11
<1> QED BY <1>4, <1>5, <1>12
=============================================================================

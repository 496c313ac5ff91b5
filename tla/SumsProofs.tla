----------------------------- MODULE SumsProofs -----------------------------
(***************************************************************************)
(* Facts about totals, occurrences and weights of sequences, for any       *)
(* sequence, and about the first element of one.                           *)
(***************************************************************************)
EXTENDS Sums, WellFoundedInduction, FiniteSetTheorems, SequenceTheorems, TLAPS

\* f[i] is the total of the first i numbers of s, for i up to n.
UpTo(f, s, n) ==
  /\ f \in [0 .. n -> Nat]
  /\ f[0] = 0
  /\ \A i \in 1 .. n : f[i] = f[i - 1] + s[i]

\* A set of naturals with a member has a least one.  Proofs by induction over
\* data use it: of a statement that fails somewhere, take the first place.
LEMMA LeastNatural ==
  ASSUME NEW T, T \subseteq Nat, T # {}
  PROVE  \E x \in T : \A y \in T : x <= y
<1>1. PICK R : R = StrictSubsetOrdering(Nat)
  OBVIOUS
<1>2. PICK F : F = {0 .. x : x \in T}
  OBVIOUS
<1>3. F \subseteq FiniteSubsetsOf(Nat)
  <2>1. \A x \in T : 0 .. x \in SUBSET Nat /\ IsFiniteSet(0 .. x)
    BY FS_Interval
  <2>. QED
    BY <1>2, <2>1 DEF FiniteSubsetsOf
<1>4. F # {}
  BY <1>2
<1>5. IsWellFoundedOn(R, FiniteSubsetsOf(Nat))
  BY <1>1, FS_StrictSubsetOrderingWellFounded
<1>6. PICK m \in F : \A y \in F : ~(<<y, m>> \in R)
  BY <1>3, <1>4, <1>5, WFMin
<1>7. PICK x \in T : m = 0 .. x
  BY <1>2
<1>8. ASSUME NEW y \in T, y < x
      PROVE  FALSE
  <2>1. 0 .. y \in F
    BY <1>2
  <2>2. 0 .. y \subseteq 0 .. x /\ x \in 0 .. x /\ x \notin 0 .. y
    BY <1>8
  <2>2a. 0 .. y # 0 .. x
    BY <2>2
  <2>3. 0 .. y \in SUBSET Nat /\ m \in SUBSET Nat
    BY <1>7
  <2>4. <<0 .. y, m>> \in R
    BY ONLY <1>1, <1>7, <2>2, <2>2a, <2>3, Zenon DEF StrictSubsetOrdering
  <2>. QED
    BY <1>6, <2>1, <2>4
<1>. QED
  BY <1>8

\* The recursive function in Total is any function with its equations.
LEMMA UpToTotal ==
  ASSUME NEW s \in Seq(Nat), NEW f, UpTo(f, s, Len(s))
  PROVE  Total(s) = f[Len(s)]
<1>. DEFINE S == 0 .. Len(s)
            Step(g) == [i \in S |-> IF i = 0 THEN 0 ELSE g[i - 1] + s[i]]
            g == CHOOSE h : h = Step(h)
<1>1. f = Step(f)
  BY DEF UpTo
<1>2. g = Step(g)
  BY <1>1, Zenon
<1>3. Total(s) = g[Len(s)]
  BY DEF Total
<1>4. g[0] = 0 /\ \A i \in 1 .. Len(s) : g[i] = g[i - 1] + s[i]
  <2>. HIDE DEF g
  <2>. QED
  BY <1>2
<1>. HIDE DEF g
<1>5. ASSUME NEW n \in 0 .. Len(s), g[n] # f[n]
      PROVE  FALSE
  <2>1. PICK T : T = {i \in 0 .. Len(s) : g[i] # f[i]}
    OBVIOUS
  <2>2. T \subseteq Nat /\ T # {}
    BY <1>5, <2>1
  <2>3. PICK x \in T : \A y \in T : x <= y
    BY <2>2, LeastNatural
  <2>4. x \in 1 .. Len(s) /\ g[x] # f[x]
    BY <2>1, <1>4 DEF UpTo
  <2>5. x - 1 \in 0 .. Len(s) /\ ~(x <= x - 1)
    BY <2>4
  <2>6. g[x - 1] = f[x - 1]
    BY <2>1, <2>3, <2>5
  <2>. QED
    BY <2>4, <2>6, <1>4 DEF UpTo
<1>. QED
  BY <1>3, <1>5

Summable(s, n) == \E f : UpTo(f, s, n)

\* There is such a function, by the least length for which there is none.
LEMMA UpToExists ==
  ASSUME NEW s \in Seq(Nat)
  PROVE  \E f : UpTo(f, s, Len(s))
<1>. USE LenProperties
<1>1. SUFFICES ASSUME ~Summable(s, Len(s)) PROVE FALSE
  BY DEF Summable
<1>2. PICK T : T = {n \in 0 .. Len(s) : ~Summable(s, n)}
  OBVIOUS
<1>3. Len(s) \in Nat /\ \A i \in 1 .. Len(s) : s[i] \in Nat
  OBVIOUS
<1>3a. T \subseteq Nat /\ T # {}
  BY <1>1, <1>2, <1>3
<1>4. PICK n \in T : \A m \in T : n <= m
  BY <1>3a, LeastNatural
<1>5. n # 0
  <2>1. UpTo([i \in 0 .. 0 |-> 0], s, 0)
    BY DEF UpTo
  <2>. QED
    BY <1>2, <2>1 DEF Summable
<1>6. n - 1 \in 0 .. Len(s) /\ ~(n <= n - 1) /\ n \in 1 .. Len(s)
  BY <1>2, <1>3, <1>5
<1>7. PICK f : UpTo(f, s, n - 1)
  BY <1>2, <1>4, <1>6 DEF Summable
<1>8. UpTo([i \in 0 .. n |-> IF i = n THEN f[n - 1] + s[n] ELSE f[i]], s, n)
  BY SMTT(40), <1>3, <1>6, <1>7 DEF UpTo
<1>. QED
  BY <1>2, <1>8 DEF Summable

\* A total of naturals is a natural.
LEMMA TotalType ==
  ASSUME NEW s \in Seq(Nat)
  PROVE  Total(s) \in Nat
<1>1. PICK f : UpTo(f, s, Len(s))
  BY UpToExists
<1>2. Len(s) \in Nat
  BY LenProperties
<1>3. Total(s) = f[Len(s)]
  BY <1>1, UpToTotal
<1>4. f \in [0 .. Len(s) -> Nat] /\ Len(s) \in 0 .. Len(s)
  BY <1>1, <1>2 DEF UpTo
<1>. QED
  BY <1>3, <1>4

\* The total of nothing.
LEMMA TotalEmpty == Total(<<>>) = 0
<1>1. PICK s : s = <<>>
  OBVIOUS
<1>1a. s \in Seq(Nat)
  BY <1>1
<1>2. PICK f : UpTo(f, s, Len(s))
  BY <1>1a, UpToExists
<1>3. Total(s) = f[Len(s)]
  BY <1>1a, <1>2, UpToTotal
<1>. QED
  BY <1>1, <1>2, <1>3 DEF UpTo

\* The total of one number.
LEMMA TotalSingle ==
  ASSUME NEW n \in Nat
  PROVE  Total(<<n>>) = n
<1>1. PICK s : s = <<n>>
  OBVIOUS
<1>1a. s \in Seq(Nat)
  BY <1>1
<1>2. PICK f : UpTo(f, s, Len(s))
  BY <1>1a, UpToExists
<1>3. Total(s) = f[Len(s)]
  BY <1>1a, <1>2, UpToTotal
<1>4. Len(s) = 1 /\ s[1] = n
  BY <1>1
<1>. QED
  BY <1>1, <1>2, <1>3, <1>4 DEF UpTo

\* The total of one sequence after another.
LEMMA TotalConcat ==
  ASSUME NEW s \in Seq(Nat), NEW t \in Seq(Nat)
  PROVE  Total(s \o t) = Total(s) + Total(t)
<1>1. PICK f : UpTo(f, s, Len(s))
  BY UpToExists
<1>2. PICK g : UpTo(g, t, Len(t))
  BY UpToExists
<1>3. PICK r : r = s \o t
  OBVIOUS
<1>3a. PICK m : m = Len(s)
  OBVIOUS
<1>3b. PICK k : k = Len(t)
  OBVIOUS
<1>4. /\ r \in Seq(Nat)
      /\ m \in Nat /\ k \in Nat /\ Len(r) = m + k
      /\ \A i \in 1 .. m : r[i] = s[i] /\ s[i] \in Nat
      /\ \A i \in m + 1 .. m + k : r[i] = t[i - m]
      /\ \A i \in 1 .. k : t[i] \in Nat
  <2>1. m \in Nat /\ k \in Nat
    BY <1>3a, <1>3b, LenProperties
  <2>2. /\ r \in Seq(Nat) /\ Len(r) = m + k
        /\ \A i \in 1 .. m + k : r[i] = IF i <= m THEN s[i] ELSE t[i - m]
    BY <1>3, <1>3a, <1>3b, ConcatProperties
  <2>3. \A i \in 1 .. m : s[i] \in Nat
    BY <1>3a, ElementOfSeq
  <2>4. \A i \in 1 .. k : t[i] \in Nat
    BY <1>3b, ElementOfSeq
  <2>5. \A i \in 1 .. m : r[i] = s[i]
    BY <2>1, <2>2
  <2>6. \A i \in m + 1 .. m + k : r[i] = t[i - m]
    BY <2>1, <2>2
  <2>. QED
    BY <2>1, <2>2, <2>3, <2>4, <2>5, <2>6, Zenon
<1>4a. /\ f \in [0 .. m -> Nat] /\ f[0] = 0 /\ \A i \in 1 .. m : f[i] = f[i - 1] + s[i]
       /\ g \in [0 .. k -> Nat] /\ g[0] = 0 /\ \A i \in 1 .. k : g[i] = g[i - 1] + t[i]
  BY <1>1, <1>2, <1>3a, <1>3b DEF UpTo
<1>5. PICK h : h = [i \in 0 .. m + k |-> IF i <= m THEN f[i] ELSE f[m] + g[i - m]]
  OBVIOUS
<1>5a. \A i \in 0 .. m : h[i] = f[i]
  BY <1>4, <1>5
<1>5b. \A i \in 0 .. k : h[m + i] = f[m] + g[i]
  BY <1>4, <1>4a, <1>5
<1>5c. m \in Nat /\ k \in Nat
  BY <1>4
<1>5d. \A i \in 0 .. m + k : i <= m \/ \E j \in 1 .. k : i = m + j
  <2>1. TAKE i \in 0 .. m + k
  <2>2. ~(i <= m) => i - m \in 1 .. k /\ i = m + (i - m)
    BY <1>5c
  <2>. QED
    BY <2>2
<1>5e. /\ \A i \in 0 .. m : f[i] \in Nat
       /\ \A i \in 0 .. k : g[i] \in Nat
  BY <1>4a
<1>5f. f[m] \in Nat
  BY <1>5c, <1>5e
<1>6. UpTo(h, r, m + k)
  <2>1. h \in [0 .. m + k -> Nat]
    <3>1. ASSUME NEW i \in 0 .. m + k
          PROVE  h[i] \in Nat
      <4>1. ASSUME i <= m
            PROVE  h[i] \in Nat
        <5>1. i \in 0 .. m
          BY <1>5c, <4>1
        <5>. QED
          BY <1>5a, <1>5e, <5>1
      <4>2. ASSUME NEW j \in 1 .. k
            PROVE  h[m + j] \in Nat
        <5>1. j \in 0 .. k
          BY <1>5c
        <5>2. h[m + j] = f[m] + g[j] /\ g[j] \in Nat
          BY <1>5b, <1>5e, <5>1
        <5>. QED
          BY <1>5f, <5>2
      <4>. QED
        BY <1>5d, <4>1, <4>2
    <3>. QED
      BY <1>5, <3>1
  <2>1a. h[0] = 0
    BY <1>5c, <1>5a, <1>4a
  <2>2. ASSUME NEW i \in 1 .. m
        PROVE  h[i] = h[i - 1] + r[i]
    <3>1. r[i] = s[i]
      BY <1>4
    <3>2. f[i] = f[i - 1] + s[i]
      BY <1>4a
    <3>3. i \in 0 .. m /\ i - 1 \in 0 .. m
      BY <1>5c
    <3>. QED
      BY <1>5a, <3>1, <3>2, <3>3
  <2>3. ASSUME NEW i \in 1 .. k
        PROVE  h[m + i] = h[(m + i) - 1] + r[m + i]
    <3>1. m + i \in m + 1 .. m + k /\ (m + i) - m = i
      BY <1>5c
    <3>2. r[m + i] = t[i]
      BY <1>4, <3>1
    <3>2a. t[i] \in Nat
      BY <1>4
    <3>3. g[i] = g[i - 1] + t[i]
      BY <1>4a
    <3>4. i \in 0 .. k /\ i - 1 \in 0 .. k /\ m + (i - 1) = (m + i) - 1
      BY <1>5c
    <3>5. h[m + i] = f[m] + g[i]
      BY <1>5b, <3>4
    <3>6. h[(m + i) - 1] = f[m] + g[i - 1]
      BY <1>5b, <3>4
    <3>7. g[i - 1] \in Nat
      BY <1>5e, <3>4
    <3>. QED
      BY <1>5f, <3>2, <3>2a, <3>3, <3>5, <3>6, <3>7
  <2>4. ASSUME NEW i \in 1 .. m + k
        PROVE  h[i] = h[i - 1] + r[i]
    <3>1. CASE i \in 1 .. m
      BY <2>2, <3>1
    <3>2. CASE i \notin 1 .. m
      <4>1. PICK j \in 1 .. k : i = m + j
        BY <1>5c, <1>5d, <3>2
      <4>. QED
        BY <2>3, <4>1
    <3>. QED
      BY <3>1, <3>2
  <2>. QED
    BY <2>1, <2>1a, <2>4 DEF UpTo
<1>7. h[m + k] = f[m] + g[k]
  BY <1>5c, <1>5b
<1>8. Total(s) = f[m] /\ Total(t) = g[k] /\ Total(r) = h[m + k]
  BY <1>1, <1>2, <1>3a, <1>3b, <1>4, <1>6, UpToTotal
<1>. QED
  BY <1>3, <1>7, <1>8

-----------------------------------------------------------------------------
(* What the elements of a sequence weigh. *)

Weigh(w, s) == Total([i \in DOMAIN s |-> w[s[i]]])

\* The weights of the elements of a sequence are a sequence.
LEMMA WeightsType ==
  ASSUME NEW S, NEW w \in [S -> Nat], NEW s \in Seq(S)
  PROVE  [i \in DOMAIN s |-> w[s[i]]] \in Seq(Nat)
<1>1. Len(s) \in Nat /\ DOMAIN s = 1 .. Len(s) /\ \A i \in 1 .. Len(s) : s[i] \in S
  BY LenProperties, ElementOfSeq
<1>. QED
  BY <1>1, IsASeq

\* A sequence weighs a natural number.
LEMMA WeighType ==
  ASSUME NEW S, NEW w \in [S -> Nat], NEW s \in Seq(S)
  PROVE  Weigh(w, s) \in Nat
BY WeightsType, TotalType DEF Weigh

\* Nothing weighs nothing.
LEMMA WeighEmpty ==
  ASSUME NEW w
  PROVE  Weigh(w, <<>>) = 0
<1>1. [i \in DOMAIN <<>> |-> w[<<>>[i]]] = <<>>
  OBVIOUS
<1>. QED
  BY <1>1, TotalEmpty DEF Weigh

\* One element weighs its weight.
LEMMA WeighSingle ==
  ASSUME NEW S, NEW w \in [S -> Nat], NEW e \in S
  PROVE  Weigh(w, <<e>>) = w[e]
<1>1. [i \in DOMAIN <<e>> |-> w[<<e>>[i]]] = <<w[e]>>
  OBVIOUS
<1>2. w[e] \in Nat
  OBVIOUS
<1>. QED
  BY <1>1, <1>2, TotalSingle DEF Weigh

\* Two sequences weigh together what each weighs.
LEMMA WeighConcat ==
  ASSUME NEW S, NEW w \in [S -> Nat], NEW s \in Seq(S), NEW t \in Seq(S)
  PROVE  Weigh(w, s \o t) = Weigh(w, s) + Weigh(w, t)
<1>1. PICK u : u = [i \in DOMAIN s |-> w[s[i]]]
  OBVIOUS
<1>2. PICK v : v = [i \in DOMAIN t |-> w[t[i]]]
  OBVIOUS
<1>3. PICK r : r = s \o t
  OBVIOUS
<1>4. PICK x : x = [i \in DOMAIN r |-> w[r[i]]]
  OBVIOUS
<1>5. r \in Seq(S)
  BY <1>3, ConcatProperties
<1>6. u \in Seq(Nat) /\ v \in Seq(Nat) /\ x \in Seq(Nat)
  BY <1>1, <1>2, <1>4, <1>5, WeightsType
<1>7. Len(u) = Len(s) /\ Len(v) = Len(t) /\ Len(x) = Len(r)
  BY <1>1, <1>2, <1>4, <1>5, LenProperties
<1>8. Len(r) = Len(s) + Len(t) /\ Len(s) \in Nat /\ Len(t) \in Nat
  BY <1>3, ConcatProperties, LenProperties
<1>9. u \o v \in Seq(Nat) /\ Len(u \o v) = Len(x)
  <2>1. u \o v \in Seq(Nat) /\ Len(u \o v) = Len(u) + Len(v)
    BY <1>6, ConcatProperties
  <2>. QED
    BY <1>7, <1>8, <2>1
<1>10. ASSUME NEW i \in 1 .. Len(x)
       PROVE  x[i] = (u \o v)[i]
  <2>1. i \in 1 .. Len(s) + Len(t) /\ x[i] = w[r[i]]
    BY <1>4, <1>5, <1>7, <1>8, LenProperties
  <2>2. r[i] = IF i <= Len(s) THEN s[i] ELSE t[i - Len(s)]
    BY <1>3, <2>1, ConcatProperties
  <2>3. (u \o v)[i] = IF i <= Len(s) THEN u[i] ELSE v[i - Len(s)]
    <3>1. i \in 1 .. Len(u) + Len(v)
      BY <1>7, <2>1
    <3>2. (u \o v)[i] = IF i <= Len(u) THEN u[i] ELSE v[i - Len(u)]
      BY <1>6, <3>1, ConcatProperties
    <3>. QED
      BY <1>7, <3>2
  <2>4. i <= Len(s) => u[i] = w[s[i]]
    <3>1. i <= Len(s) => i \in DOMAIN s
      BY <2>1, <1>8, LenProperties
    <3>. QED
      BY <1>1, <3>1
  <2>5. ~(i <= Len(s)) => v[i - Len(s)] = w[t[i - Len(s)]]
    <3>1. ~(i <= Len(s)) => i - Len(s) \in DOMAIN t
      BY <2>1, <1>8, LenProperties
    <3>. QED
      BY <1>2, <3>1
  <2>. QED
    BY <2>1, <2>2, <2>3, <2>4, <2>5
<1>11. x = u \o v
  BY <1>6, <1>9, <1>10, SeqEqual
<1>12. Total(u \o v) = Total(u) + Total(v)
  BY <1>6, TotalConcat
<1>. QED
  BY <1>1, <1>2, <1>3, <1>4, <1>11, <1>12 DEF Weigh

\* Elements that weigh nothing.
LEMMA WeighNothing ==
  ASSUME NEW S, NEW w \in [S -> Nat], NEW s \in Seq(S), \A i \in 1 .. Len(s) : w[s[i]] = 0
  PROVE  Weigh(w, s) = 0
<1>1. PICK u : u = [i \in DOMAIN s |-> w[s[i]]]
  OBVIOUS
<1>2. u \in Seq(Nat) /\ Weigh(w, s) = Total(u)
  BY <1>1, WeightsType DEF Weigh
<1>3. PICK n \in Nat : n = Len(s)
  BY LenProperties
<1>4. DOMAIN s = 1 .. n /\ \A i \in 1 .. n : u[i] = 0
  BY <1>1, <1>3, LenProperties
<1>5. Len(u) = n
  BY <1>1, <1>2, <1>3, <1>4, LenProperties
<1>6. PICK f : f = [i \in 0 .. n |-> 0]
  OBVIOUS
<1>7. UpTo(f, u, Len(u))
  BY <1>4, <1>5, <1>6 DEF UpTo
<1>8. f[n] = 0
  BY <1>6
<1>. QED
  BY <1>2, <1>5, <1>7, <1>8, UpToTotal

\* A sequence is its first element before the others.
LEMMA HeadAndTail ==
  ASSUME NEW S, NEW s \in Seq(S), s # <<>>
  PROVE  s = <<Head(s)>> \o Tail(s)
<1>1. Head(s) \in S /\ Tail(s) \in Seq(S) /\ <<Head(s)>> \in Seq(S)
  BY HeadTailProperties
<1>2. PICK h : h = Head(s)
  OBVIOUS
<1>3. PICK l : l = Tail(s)
  OBVIOUS
<1>4. l \in Seq(S) /\ Len(s) = Len(l) + 1 /\ Len(l) \in Nat /\ s[1] = h
      /\ \A i \in 1 .. Len(l) : l[i] = s[i + 1]
  BY <1>2, <1>3, HeadTailProperties, LenProperties
<1>5. PICK r : r = <<h>> \o l
  OBVIOUS
<1>6. r \in Seq(S) /\ Len(r) = Len(l) + 1 /\ r[1] = h /\ \A i \in 2 .. Len(l) + 1 : r[i] = l[i - 1]
  BY <1>1, <1>2, <1>4, <1>5
<1>7. ASSUME NEW i \in 1 .. Len(s)
      PROVE  s[i] = r[i]
  <2>1. CASE i = 1
    BY <1>4, <1>6, <2>1
  <2>2. CASE i # 1
    <3>1. i - 1 \in 1 .. Len(l) /\ i \in 2 .. Len(l) + 1 /\ (i - 1) + 1 = i
      BY <1>4, <2>2
    <3>. QED
      BY <1>4, <1>6, <3>1
  <2>. QED
    BY <2>1, <2>2
<1>8. s = r
  BY <1>4, <1>6, <1>7, SeqEqual
<1>. QED
  BY <1>2, <1>3, <1>5, <1>8

\* A sequence weighs what its first element and the others do.
LEMMA WeighTail ==
  ASSUME NEW S, NEW w \in [S -> Nat], NEW s \in Seq(S), s # <<>>
  PROVE  Weigh(w, s) = w[Head(s)] + Weigh(w, Tail(s))
<1>1. Head(s) \in S /\ Tail(s) \in Seq(S) /\ <<Head(s)>> \in Seq(S)
  BY HeadTailProperties
<1>2. s = <<Head(s)>> \o Tail(s)
  BY HeadAndTail
<1>. QED
  <2>1. PICK h : h = <<Head(s)>>
    OBVIOUS
  <2>2. PICK l : l = Tail(s)
    OBVIOUS
  <2>3. h \in Seq(S) /\ l \in Seq(S)
    BY <1>1, <2>1, <2>2
  <2>4. Weigh(w, h \o l) = Weigh(w, h) + Weigh(w, l)
    BY ONLY <2>3, WeighConcat
  <2>5. Weigh(w, h) = w[Head(s)]
    BY <1>1, <2>1, WeighSingle
  <2>. QED
    BY <1>2, <2>1, <2>2, <2>4, <2>5

-----------------------------------------------------------------------------
(* How often a value occurs in a sequence. *)

\* Occurrences are counted by a natural number.
LEMMA OccurrencesType ==
  ASSUME NEW S, NEW s \in Seq(S), NEW x
  PROVE  Occurrences(s, x) \in Nat /\ IsFiniteSet({i \in DOMAIN s : s[i] = x})
<1>1. DOMAIN s = 1 .. Len(s) /\ Len(s) \in Nat
  BY LenProperties
<1>2. IsFiniteSet(1 .. Len(s))
  BY <1>1, FS_Interval
<1>3. {i \in DOMAIN s : s[i] = x} \in SUBSET (1 .. Len(s))
  BY <1>1
<1>4. IsFiniteSet({i \in DOMAIN s : s[i] = x})
  BY <1>2, <1>3, FS_Subset
<1>. QED
  BY <1>4, FS_CardinalityType DEF Occurrences

\* What is not in a sequence does not occur in it.
LEMMA OccurrencesNone ==
  ASSUME NEW S, NEW s \in Seq(S), NEW x, \A i \in 1 .. Len(s) : s[i] # x
  PROVE  Occurrences(s, x) = 0
<1>1. {i \in DOMAIN s : s[i] = x} = {}
  BY LenProperties
<1>. QED
  BY <1>1, FS_EmptySet DEF Occurrences

\* One more element adds one occurrence, of itself.
LEMMA OccurrencesAppend ==
  ASSUME NEW S, NEW s \in Seq(S), NEW e \in S, NEW x
  PROVE  Occurrences(s \o <<e>>, x) = Occurrences(s, x) + IF e = x THEN 1 ELSE 0
<1>1. PICK r : r = s \o <<e>>
  OBVIOUS
<1>2. /\ DOMAIN s = 1 .. Len(s) /\ Len(s) \in Nat
      /\ DOMAIN r = 1 .. Len(s) + 1
      /\ \A i \in 1 .. Len(s) : r[i] = s[i]
      /\ r[Len(s) + 1] = e
  BY <1>1
<1>3. PICK A : A = {i \in DOMAIN s : s[i] = x}
  OBVIOUS
<1>4. IsFiniteSet(A) /\ Cardinality(A) \in Nat
  BY <1>3, OccurrencesType DEF Occurrences
<1>5. CASE e = x
  <2>1. {i \in DOMAIN r : r[i] = x} = A \cup {Len(s) + 1}
    BY <1>2, <1>3, <1>5
  <2>2. Len(s) + 1 \notin A
    BY <1>2, <1>3
  <2>3. Cardinality(A \cup {Len(s) + 1}) = Cardinality(A) + 1
    BY <1>4, <2>2, FS_AddElement
  <2>. QED
    BY <1>1, <1>3, <1>5, <2>1, <2>3 DEF Occurrences
<1>6. CASE e # x
  <2>1. {i \in DOMAIN r : r[i] = x} = A
    BY <1>2, <1>3, <1>6
  <2>. QED
    <3>1. Occurrences(r, x) = Cardinality(A) /\ Occurrences(s, x) = Cardinality(A)
      BY <1>3, <2>1 DEF Occurrences
    <3>. QED
      BY ONLY <1>1, <1>4, <1>6, <3>1
<1>. QED
  BY <1>5, <1>6

-----------------------------------------------------------------------------
(* The first element and the others, and what appending changes. *)

\* One element before the others.
LEMMA HeadTailCons ==
  ASSUME NEW S, NEW h \in S, NEW m \in Seq(S)
  PROVE  <<h>> \o m # <<>> /\ Head(<<h>> \o m) = h /\ Tail(<<h>> \o m) = m
<1>1. PICK r : r = <<h>> \o m
  OBVIOUS
<1>2. /\ r \in Seq(S) /\ Len(r) = Len(m) + 1 /\ Len(m) \in Nat /\ r[1] = h
      /\ \A i \in 2 .. Len(m) + 1 : r[i] = m[i - 1]
  BY <1>1
<1>3. r # <<>>
  BY <1>2
<1>4. PICK l : l = Tail(r)
  OBVIOUS
<1>5. l \in Seq(S) /\ Len(l) = Len(m) /\ \A i \in 1 .. Len(l) : l[i] = r[i + 1]
  BY <1>2, <1>3, <1>4, HeadTailProperties
<1>6. ASSUME NEW i \in 1 .. Len(l)
      PROVE  l[i] = m[i]
  <2>1. i + 1 \in 2 .. Len(m) + 1 /\ (i + 1) - 1 = i
    BY <1>2, <1>5
  <2>. QED
    BY <1>2, <1>5, <2>1
<1>7. l = m
  BY <1>5, <1>6, SeqEqual
<1>8. Head(r) = h
  BY <1>2, <1>3
<1>. QED
  BY <1>1, <1>3, <1>4, <1>7, <1>8

\* The first element and the others.
LEMMA TailFacts ==
  ASSUME NEW S, NEW s \in Seq(S), s # <<>>
  PROVE  /\ Head(s) \in S /\ Tail(s) \in Seq(S)
         /\ Range(s) = {Head(s)} \cup Range(Tail(s))
<1>1. Head(s) \in S /\ Tail(s) \in Seq(S) /\ <<Head(s)>> \in Seq(S)
  BY HeadTailProperties
<1>2. s = <<Head(s)>> \o Tail(s)
  BY HeadAndTail
<1>3. Range(<<Head(s)>>) = {Head(s)}
  BY DEF Range
<1>4. PICK h : h = <<Head(s)>>
  OBVIOUS
<1>5. PICK l : l = Tail(s)
  OBVIOUS
<1>6. h \in Seq(S) /\ l \in Seq(S)
  BY <1>1, <1>4, <1>5
<1>7. Range(h \o l) = Range(h) \cup Range(l)
  BY <1>6, RangeConcatenation
<1>. QED
  BY <1>1, <1>2, <1>3, <1>4, <1>5, <1>7, Zenon

\* What appending elements changes.
LEMMA AppendFacts ==
  ASSUME NEW S, NEW s \in Seq(S), NEW t \in Seq(S)
  PROVE  /\ s \o t \in Seq(S)
         /\ Range(s \o t) = Range(s) \cup Range(t)
         /\ s = <<>> => s \o t = t
         /\ s # <<>> => /\ s \o t # <<>> /\ Head(s \o t) = Head(s)
                        /\ Tail(s \o t) = Tail(s) \o t
<1>1. s \o t \in Seq(S)
  BY ConcatProperties
<1>2. Range(s \o t) = Range(s) \cup Range(t)
  BY RangeConcatenation
<1>3. s = <<>> => s \o t = t
  BY ConcatEmptySeq
<1>4. ASSUME s # <<>>
      PROVE  /\ s \o t # <<>> /\ Head(s \o t) = Head(s)
             /\ Tail(s \o t) = Tail(s) \o t
  <2>1. Head(s) \in S /\ Tail(s) \in Seq(S) /\ <<Head(s)>> \in Seq(S)
    BY <1>4, HeadTailProperties
  <2>2. s = <<Head(s)>> \o Tail(s)
    BY <1>4, HeadAndTail
  <2>3. PICK l : l = Tail(s)
    OBVIOUS
  <2>4. PICK m : m = l \o t
    OBVIOUS
  <2>5. l \in Seq(S) /\ m \in Seq(S)
    BY <2>1, <2>3, <2>4, ConcatProperties
  <2>6. PICK h : h = Head(s)
    OBVIOUS
  <2>7. PICK k : k = <<h>>
    OBVIOUS
  <2>8. (k \o l) \o t = k \o m
    BY <2>1, <2>4, <2>5, <2>6, <2>7, ConcatAssociative
  <2>9. <<h>> \o m # <<>> /\ Head(<<h>> \o m) = h /\ Tail(<<h>> \o m) = m
    BY <2>1, <2>5, <2>6, HeadTailCons
  <2>. QED
    BY <2>2, <2>3, <2>4, <2>6, <2>7, <2>8, <2>9
<1>. QED
  BY <1>1, <1>2, <1>3, <1>4

\* One element alone.
LEMMA SingleFacts ==
  ASSUME NEW f
  PROVE  /\ Range(<<f>>) = {f} /\ Tail(<<f>>) = <<>> /\ Head(<<f>>) = f /\ <<f>> # <<>>
         /\ Range(<<>>) = {}
BY DEF Range
=============================================================================

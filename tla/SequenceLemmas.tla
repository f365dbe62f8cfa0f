--------------------------- MODULE SequenceLemmas ---------------------------
(***************************************************************************)
(* Induction over the natural numbers, what the concatenation of a         *)
(* sequence of sequences is made of, and what follows a prefix: the facts  *)
(* the proofs about texts and files rest on.                               *)
(***************************************************************************)
EXTENDS Integers, SequencesExt, SequenceTheorems, WellFoundedInduction, TLAPS

-----------------------------------------------------------------------------
\* Induction over the natural numbers, for a set of them.
LEMMA Least ==
  ASSUME NEW S \in SUBSET Nat, S # {}
  PROVE  \E n \in S : \A k \in S : n <= k
<1> DEFINE R == OpToRel(<, Nat)
<1>1. IsWellFoundedOn(R, Nat)
  BY NatLessThanWellFounded
<1>2. \A x, y \in Nat : x < y => <<x, y>> \in R
  BY DEF OpToRel
<1> HIDE DEF R
<1>3. PICK n \in S : \A k \in S : ~(<<k, n>> \in R)
  BY <1>1, WFMin
<1>4. \A k \in S : ~(k < n)
  BY <1>2, <1>3
<1>5. \A k \in S : n <= k
  BY <1>4
<1> QED BY <1>5

LEMMA SetInduction ==
  ASSUME NEW S \in SUBSET Nat, 0 \in S, \A n \in S : n + 1 \in S
  PROVE  S = Nat
<1> SUFFICES ASSUME Nat \ S # {} PROVE FALSE
  OBVIOUS
<1>1. PICK n \in Nat \ S : \A k \in Nat \ S : n <= k
  BY Least
<1>2. n # 0 /\ n - 1 \in Nat
  OBVIOUS
<1>3. n - 1 \in S
  BY <1>1, <1>2
<1> QED BY <1>3, <1>1

LEMMA Largest ==
  ASSUME NEW n \in Nat, NEW S \in SUBSET (0 .. n), 0 \in S
  PROVE  \E k \in S : \A j \in S : j <= k
<1> DEFINE T == {n - k : k \in S}
<1>1. T \in SUBSET Nat /\ T # {}
  OBVIOUS
<1>2. PICK m \in T : \A j \in T : m <= j
  <2> HIDE DEF T
  <2> QED BY <1>1, Least
<1>3. PICK k \in S : m = n - k
  OBVIOUS
<1>4. ASSUME NEW j \in S
      PROVE  j <= k
  <2>1. n - j \in T
    OBVIOUS
  <2>2. m <= n - j
    BY <1>2, <2>1
  <2> QED BY <1>3, <2>2
<1> QED BY <1>4

-----------------------------------------------------------------------------
\* g[k] is the concatenation of the first k of the sequences s.
PrefixElements(g, s) ==
    /\ g[0] = <<>> /\ g[Len(s)] = FlattenSeq(s)
    /\ \A k \in 1 .. Len(s) : g[k] = g[k - 1] \o s[k]

LEMMA Flattened ==
  ASSUME NEW S, NEW s \in Seq(Seq(S))
  PROVE  \E g \in [0 .. Len(s) -> Seq(S)] : PrefixElements(g, s)
<1> DEFINE Starts(g, n) == g[0] = <<>> /\ \A k \in 1 .. n : g[k] = g[k - 1] \o s[k]
           Given(n) == n <= Len(s) => \E g \in [0 .. n -> Seq(S)] : Starts(g, n)
           T == {n \in Nat : Given(n)}
<1>0. Len(s) \in Nat /\ <<>> \in Seq(S) /\ \A k \in 1 .. Len(s) : s[k] \in Seq(S)
  OBVIOUS
<1>1. Given(Len(s))
  <2>1. Given(0)
    <3> DEFINE g == [k \in 0 .. 0 |-> <<>>]
    <3>1. g \in [0 .. 0 -> Seq(S)] /\ Starts(g, 0)
      BY <1>0
    <3> HIDE DEF g, Starts
    <3> QED BY <3>1
  <2>2. ASSUME NEW n \in Nat, Given(n), n + 1 <= Len(s)
        PROVE  \E g \in [0 .. n + 1 -> Seq(S)] : Starts(g, n + 1)
    <3>1. PICK f \in [0 .. n -> Seq(S)] : Starts(f, n)
      <4> HIDE DEF Starts
      <4> QED BY <1>0, <2>2
    <3> DEFINE g == [k \in 0 .. n + 1 |-> IF k = n + 1 THEN f[n] \o s[n + 1] ELSE f[k]]
    <3>2. g \in [0 .. n + 1 -> Seq(S)]
      <4>1. f[n] \o s[n + 1] \in Seq(S)
        <5>1. f[n] \in Seq(S) /\ s[n + 1] \in Seq(S)
          BY <1>0, <2>2
        <5> QED BY <5>1
      <4> QED BY <4>1
    <3>3. Starts(g, n + 1)
      <4>1. g[0] = <<>>
        BY <3>1
      <4>2. ASSUME NEW k \in 1 .. n + 1
            PROVE  g[k] = g[k - 1] \o s[k]
        <5>1. CASE k = n + 1
          <6>1. g[k] = f[n] \o s[n + 1] /\ g[n] = f[n] /\ k - 1 = n
            BY <5>1
          <6> QED BY <5>1, <6>1
        <5>2. CASE k # n + 1
          <6>1. k \in 1 .. n /\ k - 1 \in 0 .. n
            BY <5>2
          <6>2. g[k] = f[k] /\ g[k - 1] = f[k - 1]
            BY <6>1
          <6> QED BY <3>1, <6>1, <6>2
        <5> QED BY <5>1, <5>2
      <4> HIDE DEF g
      <4> QED BY <4>1, <4>2
    <3> HIDE DEF g, Starts
    <3> QED BY <3>2, <3>3
  <2> HIDE DEF Starts
  <2>3. 0 \in T /\ \A n \in T : n + 1 \in T
    <3>1. ASSUME NEW n \in Nat, Given(n)
          PROVE  Given(n + 1)
      BY <2>2, <3>1
    <3> HIDE DEF Given
    <3> QED BY <2>1, <3>1
  <2>4. T = Nat
    <3> HIDE DEF T
    <3>1. T \in SUBSET Nat
      BY DEF T
    <3> QED BY <2>3, <3>1, SetInduction
  <2> HIDE DEF Given
  <2> QED BY <1>0, <2>4
<1>2. PICK g \in [0 .. Len(s) -> Seq(S)] : Starts(g, Len(s))
  <2> HIDE DEF Starts
  <2> QED BY <1>0, <1>1
<1> HIDE DEF Given, T
<1>3. CASE Len(s) = 0
  <2>1. s = <<>> /\ FlattenSeq(s) = s
    BY <1>3 DEF FlattenSeq
  <2> QED BY <1>2, <1>3, <2>1 DEF PrefixElements
<1>4. CASE Len(s) # 0
  <2> DEFINE P(f) == f = [i \in 1 .. Len(s) |-> IF i = 1 THEN s[i] ELSE f[i - 1] \o s[i]]
             flatten == CHOOSE f : P(f)
             h == [i \in 1 .. Len(s) |-> g[i]]
  <2>0. g[1] = s[1]
    <3>1. 1 \in 1 .. Len(s) /\ 1 - 1 = 0
      BY <1>0, <1>4
    <3>2. g[1] = g[0] \o s[1] /\ g[0] = <<>>
      BY <1>2, <3>1
    <3>3. <<>> \o s[1] = s[1]
      BY <1>0, <3>1
    <3> QED BY <3>2, <3>3
  <2>1. P(h)
    <3>1. ASSUME NEW i \in 1 .. Len(s)
          PROVE  g[i] = IF i = 1 THEN s[i] ELSE h[i - 1] \o s[i]
      <4>1. i # 1 => i - 1 \in 1 .. Len(s)
        BY <1>0
      <4>2. i # 1 => h[i - 1] = g[i - 1]
        BY <4>1
      <4>3. g[i] = g[i - 1] \o s[i]
        BY <1>2
      <4> HIDE DEF h
      <4> QED BY <2>0, <4>2, <4>3
    <3> HIDE DEF h
    <3>2. h = [i \in 1 .. Len(s) |-> IF i = 1 THEN s[i] ELSE h[i - 1] \o s[i]]
      BY <3>1 DEF h
    <3> QED BY <3>2
  <2>2. P(flatten)
    <3> HIDE DEF P, h
    <3> QED BY <2>1
  <2>3. FlattenSeq(s) = flatten[Len(s)]
    BY <1>4, Zenon DEF FlattenSeq
  <2> HIDE DEF flatten
  <2>4. \A i \in 1 .. Len(s) : flatten[i] = IF i = 1 THEN s[i] ELSE flatten[i - 1] \o s[i]
    BY <2>2
  <2> HIDE DEF P, Starts
  <2> DEFINE U == {n \in Nat : n + 1 <= Len(s) => flatten[n + 1] = g[n + 1]}
  <2>5. 0 \in U
    BY <1>0, <1>4, <2>0, <2>4
  <2>6. ASSUME NEW n \in U
        PROVE  n + 1 \in U
    <3>1. ASSUME (n + 1) + 1 <= Len(s)
          PROVE  flatten[(n + 1) + 1] = g[(n + 1) + 1]
      <4>1. PICK k : k = (n + 1) + 1
        OBVIOUS
      <4>2. k \in 1 .. Len(s) /\ k # 1 /\ k - 1 = n + 1
        BY <1>0, <3>1, <4>1
      <4>3. flatten[k] = flatten[k - 1] \o s[k] /\ g[k] = g[k - 1] \o s[k]
        BY <1>2, <2>4, <4>2 DEF Starts
      <4>4. flatten[n + 1] = g[n + 1]
        BY <1>0, <3>1
      <4> QED BY <4>1, <4>2, <4>3, <4>4
    <3> QED BY <3>1
  <2>7. U = Nat
    <3> HIDE DEF U
    <3>1. U \in SUBSET Nat
      BY DEF U
    <3> QED BY <2>5, <2>6, <3>1, SetInduction
  <2>8. flatten[Len(s)] = g[Len(s)]
    <3>1. Len(s) - 1 \in Nat /\ (Len(s) - 1) + 1 = Len(s)
      BY <1>0, <1>4
    <3>2. Len(s) - 1 \in U
      <4> HIDE DEF U
      <4> QED BY <2>7, <3>1
    <3> QED BY <3>1, <3>2
  <2> QED BY <1>2, <2>3, <2>8 DEF PrefixElements, Starts
<1> QED BY <1>3, <1>4

LEMMA ConcatElements ==
  ASSUME NEW S, NEW s \in Seq(S), NEW u \in Seq(S)
  PROVE  /\ s \o u \in Seq(S)
         /\ Len(s) \in Nat /\ Len(u) \in Nat /\ Len(s \o u) = Len(s) + Len(u)
         /\ \A k \in 1 .. Len(s) : (s \o u)[k] = s[k]
         /\ \A k \in 1 .. Len(u) : (s \o u)[Len(s) + k] = u[k]
OBVIOUS

\* Each prefix begins with those before it.
StartsWith(t, u) == \A k \in 1 .. Len(u) : t[k] = u[k]

LEMMA Grows ==
  ASSUME NEW S, NEW s \in Seq(Seq(S)), NEW g \in [0 .. Len(s) -> Seq(S)], PrefixElements(g, s),
         NEW i \in 0 .. Len(s), NEW j \in i .. Len(s)
  PROVE  /\ Len(g[i]) \in Nat /\ Len(g[j]) \in Nat /\ Len(g[i]) <= Len(g[j])
         /\ StartsWith(g[j], g[i])
<1> DEFINE Begins(n) == /\ Len(g[i]) <= Len(g[n])
                        /\ \A k \in 1 .. Len(g[i]) : g[n][k] = g[i][k]
           T == {n \in Nat : i + n <= Len(s) => Begins(i + n)}
<1>0. Len(s) \in Nat /\ i \in Nat /\ j \in Nat /\ j - i \in Nat
  OBVIOUS
<1>1. \A n \in 0 .. Len(s) : g[n] \in Seq(S) /\ Len(g[n]) \in Nat
  OBVIOUS
<1>2. 0 \in T
  BY <1>0, <1>1
<1>3. ASSUME NEW n \in T
      PROVE  n + 1 \in T
  <2>1. ASSUME i + (n + 1) <= Len(s)
        PROVE  Begins(i + (n + 1))
    <3>1. PICK m, p : m = i + n /\ p = i + (n + 1)
      OBVIOUS
    <3>2. /\ m \in 0 .. Len(s) /\ p \in 1 .. Len(s) /\ p - 1 = m
          /\ Begins(m)
      BY <1>0, <2>1, <3>1
    <3>3. g[p] = g[m] \o s[p]
      BY <3>2 DEF PrefixElements
    <3>4. g[m] \in Seq(S) /\ s[p] \in Seq(S)
      BY <1>1, <3>2
    <3>5. Len(g[p]) = Len(g[m]) + Len(s[p]) /\ Len(s[p]) \in Nat
          /\ \A k \in 1 .. Len(g[m]) : g[p][k] = g[m][k]
      <4>1. PICK a \in Seq(S), b \in Seq(S) : a = g[m] /\ b = s[p]
        BY <3>4
      <4>2. /\ Len(b) \in Nat /\ Len(a \o b) = Len(a) + Len(b)
            /\ \A k \in 1 .. Len(a) : (a \o b)[k] = a[k]
        BY ConcatElements
      <4> QED BY <3>3, <4>1, <4>2
    <3>6. Begins(p)
      BY <1>1, <3>2, <3>5
    <3> HIDE DEF Begins
    <3> QED BY <3>1, <3>6
  <2> HIDE DEF Begins
  <2> QED BY <2>1
<1>4. T = Nat
  <2> HIDE DEF T
  <2>1. T \in SUBSET Nat
    BY DEF T
  <2> QED BY <1>2, <1>3, <2>1, SetInduction
<1>5. Begins(j)
  <2>1. j - i \in T
    <3> HIDE DEF T
    <3> QED BY <1>0, <1>4
  <2>2. i + (j - i) = j /\ j <= Len(s)
    BY <1>0
  <2> HIDE DEF Begins
  <2> QED BY <2>1, <2>2
<1> QED BY <1>0, <1>1, <1>5 DEF StartsWith

\* The concatenations of the first sequences of s.
Upto(S, s) == CHOOSE g \in [0 .. Len(s) -> Seq(S)] : PrefixElements(g, s)

LEMMA Concatenations ==
  ASSUME NEW S, NEW s \in Seq(Seq(S))
  PROVE  /\ Upto(S, s) \in [0 .. Len(s) -> Seq(S)] /\ PrefixElements(Upto(S, s), s)
         /\ Upto(S, s)[0] = <<>> /\ Upto(S, s)[Len(s)] = FlattenSeq(s)
         /\ \A k \in 0 .. Len(s) : Upto(S, s)[k] \in Seq(S) /\ Len(Upto(S, s)[k]) \in Nat
         /\ \A k \in 1 .. Len(s) : /\ Upto(S, s)[k] = Upto(S, s)[k - 1] \o s[k]
                                   /\ s[k] \in Seq(S) /\ Len(s[k]) \in Nat
                                   /\ Len(Upto(S, s)[k]) = Len(Upto(S, s)[k - 1]) + Len(s[k])
<1>1. Upto(S, s) \in [0 .. Len(s) -> Seq(S)] /\ PrefixElements(Upto(S, s), s)
  BY Flattened DEF Upto
<1>2. \A k \in 0 .. Len(s) : Upto(S, s)[k] \in Seq(S) /\ Len(Upto(S, s)[k]) \in Nat
  BY <1>1
<1>3. ASSUME NEW k \in 1 .. Len(s)
      PROVE  /\ Upto(S, s)[k] = Upto(S, s)[k - 1] \o s[k]
             /\ s[k] \in Seq(S) /\ Len(s[k]) \in Nat
             /\ Len(Upto(S, s)[k]) = Len(Upto(S, s)[k - 1]) + Len(s[k])
  <2>1. k - 1 \in 0 .. Len(s)
    OBVIOUS
  <2>2. PICK a \in Seq(S), b \in Seq(S) : a = Upto(S, s)[k - 1] /\ b = s[k]
    BY <1>2, <2>1
  <2>3. Upto(S, s)[k] = a \o b
    BY <1>1, <2>2 DEF PrefixElements
  <2>4. Len(b) \in Nat /\ Len(a \o b) = Len(a) + Len(b)
    BY ConcatElements
  <2> QED BY <2>2, <2>3, <2>4
<1> QED BY <1>1, <1>2, <1>3 DEF PrefixElements

-----------------------------------------------------------------------------
\* What follows the first i of a sequence.
LEMMA Suffix ==
  ASSUME NEW S, NEW s \in Seq(S), NEW i \in 0 .. Len(s)
  PROVE  /\ SubSeq(s, i + 1, Len(s)) \in Seq(S) /\ Len(SubSeq(s, i + 1, Len(s))) = Len(s) - i
         /\ \A j \in 1 .. Len(s) - i : SubSeq(s, i + 1, Len(s))[j] = s[i + j]
<1>1. PICK m, n : m = Len(s) /\ n = i
  OBVIOUS
<1>2. m \in Nat /\ n \in 0 .. m /\ n + 1 <= m + 1 /\ \A j \in n + 1 .. m : s[j] \in S
  BY <1>1
<1>3. /\ SubSeq(s, n + 1, m) \in Seq(S)
      /\ Len(SubSeq(s, n + 1, m)) = IF n + 1 <= m THEN m - (n + 1) + 1 ELSE 0
      /\ \A j \in 1 .. m - (n + 1) + 1 : SubSeq(s, n + 1, m)[j] = s[n + 1 + j - 1]
  BY <1>1, <1>2, SubSeqProperties
<1>4. (IF n + 1 <= m THEN m - (n + 1) + 1 ELSE 0) = m - n /\ m - (n + 1) + 1 = m - n
  BY <1>2
<1>5. ASSUME NEW j \in 1 .. m - n
      PROVE  SubSeq(s, n + 1, m)[j] = s[n + j]
  <2>1. n + 1 + j - 1 = n + j
    BY <1>2
  <2> QED BY <1>3, <1>4, <2>1
<1> QED BY <1>1, <1>3, <1>4, <1>5

LEMMA SuffixOfSuffix ==
  ASSUME NEW S, NEW s \in Seq(S), NEW i \in 0 .. Len(s), NEW t, t = SubSeq(s, i + 1, Len(s)),
         NEW j \in 0 .. Len(t)
  PROVE  SubSeq(t, j + 1, Len(t)) = SubSeq(s, i + j + 1, Len(s))
<1>1. PICK u, v, n : u = SubSeq(t, j + 1, Len(t)) /\ v = SubSeq(s, i + j + 1, Len(s)) /\ n = i + j
  OBVIOUS
<1>2. t \in Seq(S) /\ Len(t) = Len(s) - i /\ \A k \in 1 .. Len(s) - i : t[k] = s[i + k]
  BY Suffix
<1>3. Len(s) \in Nat /\ n \in 0 .. Len(s) /\ Len(t) - j = Len(s) - n
  BY <1>1, <1>2
<1>4. u \in Seq(S) /\ Len(u) = Len(t) - j /\ \A k \in 1 .. Len(t) - j : u[k] = t[j + k]
  BY <1>1, <1>2, Suffix
<1>5. v \in Seq(S) /\ Len(v) = Len(s) - n /\ \A k \in 1 .. Len(s) - n : v[k] = s[n + k]
  BY <1>1, <1>3, Suffix
<1>6. ASSUME NEW k \in 1 .. Len(s) - n
      PROVE  u[k] = v[k]
  <2>1. PICK l : l = j + k
    OBVIOUS
  <2>2. l \in 1 .. Len(s) - i /\ i + l = n + k
    BY <1>1, <1>3, <2>1
  <2> QED BY <1>2, <1>3, <1>4, <1>5, <2>1, <2>2
<1>7. Len(u) = Len(v) /\ \A k \in 1 .. Len(u) : u[k] = v[k]
  BY <1>3, <1>4, <1>5, <1>6
<1>8. u = v
  BY <1>4, <1>5, <1>7, SeqEqual
<1> QED BY <1>1, <1>8
=============================================================================

--------------------------- MODULE ReadsBackProofs ---------------------------
(***************************************************************************)
(* get_class() gives back the class a file was written from.  The          *)
(* invariant says of each phase what has been read, and which bytes of the *)
(* encoding come next; a step reads the first of them.                     *)
(***************************************************************************)
EXTENDS ClassReadingProofs, FiniteSetTheorems

-----------------------------------------------------------------------------
\* What follows the first i entries of a table.
Rest(s, i) == FlattenSeq(SubSeq(s, i + 1, Len(s)))

\* The concatenation of sequences, the first one taken apart.
LEMMA FlattenFirst ==
  ASSUME NEW S, NEW x \in Seq(S), NEW t \in Seq(Seq(S))
  PROVE  FlattenSeq(<<x>> \o t) = x \o FlattenSeq(t)
<1>1. PICK u, n, g, h : u = <<x>> \o t /\ n = Len(t) /\ g = Upto(S, t) /\ h = Upto(S, u)
  OBVIOUS
<1>2. /\ u \in Seq(Seq(S)) /\ n \in Nat /\ Len(u) = n + 1 /\ u[1] = x
      /\ \A k \in 1 .. n : u[k + 1] = t[k]
  <2>1. <<x>> \in Seq(Seq(S)) /\ Len(<<x>>) = 1 /\ <<x>>[1] = x
    OBVIOUS
  <2>2. /\ <<x>> \o t \in Seq(Seq(S)) /\ n \in Nat /\ Len(<<x>> \o t) = 1 + n
        /\ (<<x>> \o t)[1] = x /\ \A k \in 1 .. n : (<<x>> \o t)[1 + k] = t[k]
    BY <1>1, <2>1, ConcatElements
  <2> QED BY <1>1, <2>2
<1>3. /\ g[0] = <<>> /\ g[n] = FlattenSeq(t)
      /\ \A k \in 0 .. n : g[k] \in Seq(S)
      /\ \A k \in 1 .. n : g[k] = g[k - 1] \o t[k] /\ t[k] \in Seq(S)
  <2>1. /\ g[0] = <<>> /\ g[Len(t)] = FlattenSeq(t)
        /\ \A k \in 0 .. Len(t) : g[k] \in Seq(S)
        /\ \A k \in 1 .. Len(t) : g[k] = g[k - 1] \o t[k] /\ t[k] \in Seq(S)
    <3>1. g = Upto(S, t)
      BY <1>1
    <3> QED BY ONLY <3>1, Concatenations, t \in Seq(Seq(S))
  <2> QED BY <1>1, <2>1
<1>4. /\ h[0] = <<>> /\ h[n + 1] = FlattenSeq(u)
      /\ \A k \in 1 .. n + 1 : h[k] = h[k - 1] \o u[k]
  <2>1. /\ h[0] = <<>> /\ h[Len(u)] = FlattenSeq(u)
        /\ \A k \in 1 .. Len(u) : h[k] = h[k - 1] \o u[k]
    <3>1. h = Upto(S, u) /\ u \in Seq(Seq(S))
      BY <1>1, <1>2
    <3> QED BY ONLY <3>1, Concatenations
  <2> QED BY <1>2, <2>1
<1> DEFINE T == {k \in Nat : k <= n => h[k + 1] = x \o g[k]}
<1>5. 0 \in T
  <2>1. h[1] = h[0] \o u[1]
    <3>1. 1 \in 1 .. n + 1 /\ 1 - 1 = 0
      BY <1>2
    <3> QED BY <1>4, <3>1
  <2>2. <<>> \o x = x /\ x \o <<>> = x
    BY ConcatEmptySeq
  <2>3. h[0] = <<>> /\ g[0] = <<>> /\ u[1] = x
    BY <1>2, <1>3, <1>4
  <2>4. h[1] = x \o g[0]
    BY ONLY <2>1, <2>2, <2>3
  <2>5. 0 + 1 = 1 /\ 0 \in Nat
    OBVIOUS
  <2> QED BY ONLY <2>4, <2>5
<1>6. ASSUME NEW k \in T
      PROVE  k + 1 \in T
  <2>1. ASSUME k + 1 <= n
        PROVE  h[k + 2] = x \o g[k + 1]
    <3>1. PICK i : i = k + 1
      OBVIOUS
    <3>2. k \in Nat /\ i \in 1 .. n /\ i + 1 \in 1 .. n + 1 /\ i + 1 - 1 = i /\ i - 1 = k /\ k \in 0 .. n
      BY <1>2, <2>1, <3>1
    <3>3. h[i] = x \o g[k]
      BY <2>1, <3>1, <3>2
    <3>4. h[i + 1] = h[i] \o t[i]
      <4>1. PICK j : j = i + 1
        OBVIOUS
      <4>2. j \in 1 .. n + 1 /\ j - 1 = i
        BY <3>2, <4>1
      <4>3. h[j] = h[j - 1] \o u[j]
        BY ONLY <1>4, <4>2
      <4>4. u[j] = t[i]
        BY <1>2, <3>2, <4>1
      <4> QED BY ONLY <4>1, <4>2, <4>3, <4>4
    <3>5. g[i] = g[k] \o t[i] /\ g[k] \in Seq(S) /\ t[i] \in Seq(S)
      BY <1>3, <3>2
    <3>6. (x \o g[k]) \o t[i] = x \o (g[k] \o t[i])
      <4>1. PICK a, b : a = g[k] /\ b = t[i]
        OBVIOUS
      <4>2. a \in Seq(S) /\ b \in Seq(S)
        BY <3>5, <4>1
      <4>3. (x \o a) \o b = x \o (a \o b)
        BY <4>2, ConcatAssociative
      <4> QED BY ONLY <4>1, <4>3
    <3>7. i + 1 = k + 2
      BY <3>1, <3>2
    <3> QED BY <3>1, <3>3, <3>4, <3>5, <3>6, <3>7
  <2>2. k \in Nat /\ k + 1 + 1 = k + 2
    OBVIOUS
  <2> QED BY <2>1, <2>2
<1>7. T = Nat
  <2>1. T \in SUBSET Nat
    OBVIOUS
  <2> HIDE DEF T
  <2> QED BY <1>5, <1>6, <2>1, SetInduction
<1>8. h[n + 1] = x \o g[n]
  <2>1. n \in T
    BY <1>2, <1>7
  <2> QED BY <2>1
<1> QED BY <1>1, <1>3, <1>4, <1>8

LEMMA RestTyped ==
  ASSUME NEW S, NEW s \in Seq(Seq(S)), NEW i \in 0 .. Len(s)
  PROVE  Rest(s, i) \in Seq(S)
<1>1. SubSeq(s, i + 1, Len(s)) \in Seq(Seq(S))
  BY Suffix
<1>2. PICK t : t = SubSeq(s, i + 1, Len(s))
  OBVIOUS
<1>3. t \in Seq(Seq(S)) /\ Len(t) \in Nat
  BY <1>1, <1>2
<1>4. Upto(S, t)[Len(t)] \in Seq(S) /\ Upto(S, t)[Len(t)] = FlattenSeq(t)
  <2>1. Len(t) \in 0 .. Len(t)
    BY <1>3
  <2> QED BY ONLY <1>3, <2>1, Concatenations
<1> QED BY <1>2, <1>4 DEF Rest

LEMMA RestAll ==
  ASSUME NEW S, NEW s \in Seq(S)
  PROVE  Rest(s, 0) = FlattenSeq(s)
<1>1. SubSeq(s, 1, Len(s)) = s
  BY SubSeqFull
<1>2. 0 + 1 = 1
  OBVIOUS
<1> QED BY ONLY <1>1, <1>2 DEF Rest

LEMMA RestNone ==
  ASSUME NEW S, NEW s \in Seq(S)
  PROVE  Rest(s, Len(s)) = <<>>
<1>1. PICK n : n = Len(s)
  OBVIOUS
<1>2. SubSeq(s, n + 1, n) = <<>> /\ Len(<<>>) = 0
  BY <1>1
<1>3. FlattenSeq(<<>>) = <<>>
  BY <1>2 DEF FlattenSeq
<1> QED BY <1>1, <1>2, <1>3 DEF Rest

LEMMA RestFirst ==
  ASSUME NEW S, NEW s \in Seq(Seq(S)), NEW i \in 1 .. Len(s)
  PROVE  Rest(s, i - 1) = s[i] \o Rest(s, i) /\ s[i] \in Seq(S)
<1>1. PICK n, t : n = Len(s) /\ t = SubSeq(s, i + 1, n)
  OBVIOUS
<1>2. n \in Nat /\ i \in 1 .. n /\ n \in i .. n /\ (i - 1) + 1 = i /\ i \in 0 .. n
  BY <1>1
<1>3. SubSeq(s, i, n) = <<s[i]>> \o t
  BY <1>1, <1>2, SubSeqRecursiveFirst
<1>4. t \in Seq(Seq(S)) /\ s[i] \in Seq(S)
  BY <1>1, <1>2, Suffix
<1>5. FlattenSeq(<<s[i]>> \o t) = s[i] \o FlattenSeq(t)
  BY <1>4, FlattenFirst
<1> QED BY <1>1, <1>2, <1>3, <1>4, <1>5 DEF Rest

-----------------------------------------------------------------------------
\* As far as b goes, t stands in it behind the first p elements.
At(b, p, t) == \A k \in 1 .. Len(t) : p + k <= Len(b) => b[p + k] = t[k]

LEMMA AtJoined ==
  ASSUME NEW b, NEW p \in Nat, NEW S, NEW s \in Seq(S), NEW t \in Seq(S),
         At(b, p, s), At(b, p + Len(s), t)
  PROVE  At(b, p, s \o t)
<1>1. PICK u, m, n : u = s \o t /\ m = Len(s) /\ n = Len(t)
  OBVIOUS
<1>2. /\ m \in Nat /\ n \in Nat /\ Len(u) = m + n
      /\ \A k \in 1 .. m : u[k] = s[k]
      /\ \A k \in 1 .. n : u[m + k] = t[k]
  BY <1>1, ConcatElements
<1>3. /\ \A k \in 1 .. m : p + k <= Len(b) => b[p + k] = s[k]
      /\ \A k \in 1 .. n : (p + m) + k <= Len(b) => b[(p + m) + k] = t[k]
  BY <1>1 DEF At
<1>4. ASSUME NEW k \in 1 .. m + n, p + k <= Len(b)
      PROVE  b[p + k] = u[k]
  <2>1. CASE k <= m
    <3>1. k \in 1 .. m
      BY <1>2, <2>1
    <3> QED BY <1>2, <1>3, <1>4, <3>1
  <2>2. CASE k > m
    <3>1. PICK j : j = k - m
      OBVIOUS
    <3>2. j \in 1 .. n /\ m + j = k /\ (p + m) + j = p + k
      BY <1>2, <2>2, <3>1
    <3>3. b[(p + m) + j] = t[j]
      BY <1>3, <1>4, <3>2
    <3> QED BY <1>2, <3>2, <3>3
  <2> QED BY <1>2, <2>1, <2>2
<1> QED BY <1>1, <1>2, <1>4 DEF At

LEMMA AtBoth ==
  ASSUME NEW b, NEW p \in Nat, NEW S, NEW s \in Seq(S), NEW t \in Seq(S), At(b, p, s \o t)
  PROVE  At(b, p, s) /\ At(b, p + Len(s), t)
<1>1. PICK u, m, n : u = s \o t /\ m = Len(s) /\ n = Len(t)
  OBVIOUS
<1>2. /\ m \in Nat /\ n \in Nat /\ Len(u) = m + n
      /\ \A k \in 1 .. m : u[k] = s[k]
      /\ \A k \in 1 .. n : u[m + k] = t[k]
  BY <1>1, ConcatElements
<1>3. \A k \in 1 .. m + n : p + k <= Len(b) => b[p + k] = u[k]
  BY <1>1, <1>2 DEF At
<1>4. ASSUME NEW k \in 1 .. m, p + k <= Len(b)
      PROVE  b[p + k] = s[k]
  <2>1. k \in 1 .. m + n
    BY <1>2
  <2> QED BY <1>2, <1>3, <1>4, <2>1
<1>5. ASSUME NEW k \in 1 .. n, (p + m) + k <= Len(b)
      PROVE  b[(p + m) + k] = t[k]
  <2>1. PICK j : j = m + k
    OBVIOUS
  <2>2. j \in 1 .. m + n /\ p + j = (p + m) + k
    BY <1>2, <2>1
  <2>3. b[p + j] = u[j]
    BY <1>3, <1>5, <2>2
  <2> QED BY <1>2, <2>1, <2>2, <2>3
<1> QED BY <1>1, <1>4, <1>5 DEF At

\* The digits of n in base b.
LEMMA Digits ==
  ASSUME NEW b \in Nat, b > 0, NEW n \in Int, NEW q, q = n \div b, NEW r, r = n % b
  PROVE  q * b + r = n
<1>1. n = b * q + r /\ q \in Int /\ r \in Int
  OBVIOUS
<1>2. b * q = q * b
  BY <1>1
<1> QED BY ONLY <1>1, <1>2

LEMMA TwoBytes ==
  ASSUME NEW n \in Int
  PROVE  /\ U2(n) \in Seq(Int) /\ Len(U2(n)) = 2
         /\ U2(n)[1] = n \div Base /\ U2(n)[2] = n % Base
<1>1. n \div Base \in Int /\ n % Base \in Int
  BY WordNat
<1> QED BY <1>1 DEF U2

LEMMA FourBytes ==
  ASSUME NEW n \in Int
  PROVE  LET m == n % (Word * Word) IN
         /\ m \in Nat /\ m \div Word \in Int /\ m % Word \in Int
         /\ U4(n) = U2(m \div Word) \o U2(m % Word)
         /\ U4(n) \in Seq(Int) /\ Len(U4(n)) = 4
<1>1. PICK w, m : w = Word * Word /\ m = n % w
  OBVIOUS
<1>2. w \in Nat /\ w > 0
  <2>1. \A x \in Nat : x > 0 => x * x > 0
    OBVIOUS
  <2> QED BY <1>1, <2>1, WordNat
<1>3. m \in Nat
  BY <1>1, <1>2
<1>4. m \div Word \in Int /\ m % Word \in Int
  BY <1>3, WordNat
<1>5. PICK s, t : s = U2(m \div Word) /\ t = U2(m % Word)
  OBVIOUS
<1>6. s \in Seq(Int) /\ t \in Seq(Int) /\ Len(s) = 2 /\ Len(t) = 2
  BY <1>4, <1>5, TwoBytes
<1>7. s \o t \in Seq(Int) /\ Len(s \o t) = 4
  <2>1. s \o t \in Seq(Int) /\ Len(s \o t) = Len(s) + Len(t)
    BY <1>6, ConcatElements
  <2> QED BY ONLY <1>6, <2>1
<1>8. U4(n) = s \o t
  BY <1>1, <1>5 DEF U4
<1> QED BY ONLY <1>1, <1>3, <1>4, <1>5, <1>7, <1>8

LEMMA ReadTwo ==
  ASSUME Typed, NEW p \in Nat, NEW n \in Int, At(bytes, p, U2(n)), p + 2 <= Len(bytes)
  PROVE  u2(p) = n
<1>1. Len(bytes) \in Nat /\ Len(U2(n)) = 2 /\ U2(n)[1] = n \div Base /\ U2(n)[2] = n % Base
  BY BytesTyped, TwoBytes
<1>2. bytes[p + 1] = n \div Base /\ bytes[p + 2] = n % Base
  BY <1>1 DEF At
<1>3. PICK q, r : q = n \div Base /\ r = n % Base
  OBVIOUS
<1>4. u2(p) = q * Base + r
  <2>1. (p + 1) + 1 = p + 2
    OBVIOUS
  <2>2. u1(p) = q /\ u1(p + 1) = r
    BY ONLY <1>2, <1>3, <2>1 DEF u1
  <2> QED BY ONLY <2>2 DEF u2
<1>5. q * Base + r = n
  <2>1. n \in Int /\ q = n \div Base /\ r = n % Base /\ Base \in Nat /\ Base > 0
    BY <1>3, WordNat
  <2> QED BY ONLY <2>1, Digits
<1> QED BY ONLY <1>4, <1>5

LEMMA ReadFour ==
  ASSUME Typed, NEW p \in Nat, NEW n \in Nat, n < Word * Word, At(bytes, p, U4(n)),
         p + 4 <= Len(bytes)
  PROVE  u4(p) = n
<1>1. PICK m, q, r : m = n % (Word * Word) /\ q = m \div Word /\ r = m % Word
  OBVIOUS
<1>2. m = n
  <2>1. PICK w : w = Word * Word
    OBVIOUS
  <2>2. w \in Nat /\ n < w
    BY <2>1, WordNat
  <2> QED BY <1>1, <2>1, <2>2
<1>3. PICK s, t : s = U2(q) /\ t = U2(r)
  OBVIOUS
<1>4. U4(n) = s \o t /\ q \in Int /\ r \in Int
  <2>1. n \in Int
    OBVIOUS
  <2> QED BY <1>1, <1>3, <2>1, FourBytes
<1>5. s \in Seq(Int) /\ t \in Seq(Int) /\ Len(s) = 2
  BY <1>3, <1>4, TwoBytes
<1>6. At(bytes, p, s) /\ At(bytes, p + 2, t)
  BY <1>4, <1>5, AtBoth
<1>7. u2(p) = q
  <2>1. p + 2 <= Len(bytes)
    BY BytesTyped
  <2> QED BY <1>3, <1>4, <1>6, <2>1, ReadTwo
<1>8. u2(p + 2) = r
  <2>1. p + 2 \in Nat /\ (p + 2) + 2 <= Len(bytes)
    BY BytesTyped
  <2> QED BY <1>3, <1>4, <1>6, <2>1, ReadTwo
<1>9. q * Word + r = n
  <2>1. n \in Int /\ q = n \div Word /\ r = n % Word
    BY <1>1, <1>2
  <2> QED BY ONLY <2>1, WordNat, Digits
<1> QED BY ONLY <1>7, <1>8, <1>9 DEF u4

LEMMA ReadBytes ==
  ASSUME Typed, NEW p \in Nat, NEW S, NEW t \in Seq(S), At(bytes, p, t), p + Len(t) <= Len(bytes)
  PROVE  Bytes(p, Len(t)) = t
<1>1. PICK b, n, u : b = bytes /\ n = Len(t) /\ u = SubSeq(b, p + 1, p + n)
  OBVIOUS
<1>2. b \in Seq(0 .. Base - 1) /\ Len(b) \in Nat /\ n \in Nat
  BY <1>1, BytesTyped
<1>3. \A k \in 1 .. n : b[p + k] = t[k]
  <2>1. \A k \in 1 .. n : p + k <= Len(b)
    BY <1>1, <1>2
  <2> QED BY <1>1, <2>1 DEF At
<1>4. /\ u \in Seq(0 .. Base - 1) /\ Len(u) = n
      /\ \A k \in 1 .. n : u[k] = b[p + k]
  <2>1. PICK i, j : i = p + 1 /\ j = p + n
    OBVIOUS
  <2>2. i \in Int /\ j \in Int /\ (IF i <= j THEN j - i + 1 ELSE 0) = n /\ j - i + 1 = n
    BY <1>2, <2>1
  <2>3. \A k \in i .. j : b[k] \in 0 .. Base - 1
    <3>1. \A k \in i .. j : k \in 1 .. Len(b)
      BY <1>1, <1>2, <2>1
    <3> QED BY <1>2, <3>1, ElementOfSeq
  <2>4. /\ SubSeq(b, i, j) \in Seq(0 .. Base - 1) /\ Len(SubSeq(b, i, j)) = n
        /\ \A k \in 1 .. n : SubSeq(b, i, j)[k] = b[i + k - 1]
    BY <2>2, <2>3, SubSeqProperties
  <2>5. \A k \in 1 .. n : i + k - 1 = p + k
    BY <1>2, <2>1
  <2> QED BY <1>1, <2>1, <2>4, <2>5
<1>5. u = t
  <2>1. \A k \in 1 .. n : u[k] = t[k]
    BY <1>3, <1>4
  <2>2. Len(t) = n /\ t \in Seq(S)
    BY <1>1
  <2> QED BY ONLY <1>2, <1>4, <2>1, <2>2
<1> QED BY <1>1, <1>5 DEF Bytes


\* Sequences of numbers.
LEMMA Joined ==
  ASSUME NEW s \in Info_, NEW t \in Info_
  PROVE  /\ s \o t \in Info_ /\ Len(s) \in Nat /\ Len(t) \in Nat
         /\ Len(s \o t) = Len(s) + Len(t)
BY ConcatElements DEF Info_

LEMMA JoinedThree ==
  ASSUME NEW s \in Info_, NEW t \in Info_, NEW u \in Info_
  PROVE  (s \o t) \o u = s \o (t \o u) /\ t \o u \in Info_
<1>1. t \o u \in Info_
  BY Joined
<1>2. (s \o t) \o u = s \o (t \o u)
  BY ConcatAssociative DEF Info_
<1> QED BY <1>1, <1>2

LEMMA Regrouped ==
  ASSUME NEW s \in Info_, NEW t \in Info_, NEW u \in Info_
  PROVE  (s \o t) \o u = s \o (t \o u)
BY JoinedThree

\* The same with \o hidden behind a name, by which the provers find the instance.
Joint(s, t) == s \o t

LEMMA JointRegrouped ==
  ASSUME NEW s \in Info_, NEW t \in Info_, NEW u \in Info_
  PROVE  Joint(Joint(s, t), u) = Joint(s, Joint(t, u))
<1>1. (s \o t) \o u = s \o (t \o u)
  BY Regrouped
<1> QED BY ONLY <1>1 DEF Joint

LEMMA JoinedNone ==
  ASSUME NEW s \in Info_
  PROVE  s \o <<>> = s /\ <<>> \o s = s /\ <<>> \in Info_
BY ConcatEmptySeq DEF Info_

LEMMA AtJoin ==
  ASSUME NEW b, NEW p \in Nat, NEW s \in Info_, NEW t \in Info_
  PROVE  At(b, p, s \o t) <=> At(b, p, s) /\ At(b, p + Len(s), t)
<1>1. s \in Seq(Int) /\ t \in Seq(Int)
  BY DEF Info_
<1> QED BY ONLY <1>1, p \in Nat, AtBoth, AtJoined

LEMMA U2Typed ==
  ASSUME NEW n \in Int
  PROVE  U2(n) \in Info_ /\ Len(U2(n)) = 2
BY TwoBytes DEF Info_

LEMMA U4Typed ==
  ASSUME NEW n \in Int
  PROVE  U4(n) \in Info_ /\ Len(U4(n)) = 4
BY FourBytes DEF Info_

\* The first number of what stands at p, and what follows it.
LEMMA NextTwo ==
  ASSUME Typed, NEW p \in Nat, NEW n \in Int, NEW t \in Info_, At(bytes, p, U2(n) \o t),
         p + 2 <= Len(bytes)
  PROVE  u2(p) = n /\ At(bytes, p + 2, t)
<1>1. U2(n) \in Info_ /\ Len(U2(n)) = 2
  BY U2Typed
<1>2. At(bytes, p, U2(n)) /\ At(bytes, p + 2, t)
  BY <1>1, AtJoin
<1> QED BY <1>2, ReadTwo

LEMMA NextThree ==
  ASSUME Typed, NEW p \in Nat, NEW x \in Int, NEW y \in Int, NEW z \in Int, NEW t \in Info_,
         At(bytes, p, U2(x) \o U2(y) \o U2(z) \o t), p + 6 <= Len(bytes)
  PROVE  u2(p) = x /\ u2(p + 2) = y /\ u2(p + 4) = z /\ At(bytes, p + 6, t)
<1>1. PICK r, s, u : r = U2(x) /\ s = U2(y) /\ u = U2(z)
  OBVIOUS
<1>2. r \in Info_ /\ s \in Info_ /\ Len(r) = 2 /\ Len(s) = 2
  BY <1>1, U2Typed
<1>3. u \in Info_ /\ Len(u) = 2
  BY <1>1, U2Typed
<1>4. PICK v, w : v = r \o s /\ w = v \o u
  OBVIOUS
<1>5. v \in Info_ /\ Len(v) = 4
  <2>1. v \in Info_ /\ Len(v) = Len(r) + Len(s)
    BY <1>2, <1>4, Joined, Zenon
  <2> QED BY ONLY <1>2, <2>1
<1>6. w \in Info_ /\ Len(w) = 6
  <2>1. w \in Info_ /\ Len(w) = Len(v) + Len(u)
    BY <1>3, <1>4, <1>5, Joined, Zenon
  <2> QED BY ONLY <1>3, <1>5, <2>1
<1>7. At(bytes, p, w) /\ At(bytes, p + 6, t)
  BY <1>1, <1>4, <1>6, AtJoin
<1>8. At(bytes, p, v) /\ At(bytes, p + 4, u)
  BY <1>3, <1>4, <1>5, <1>7, AtJoin
<1>9. At(bytes, p, r) /\ At(bytes, p + 2, s)
  BY <1>2, <1>4, <1>8, AtJoin
<1>10. /\ Len(bytes) \in Nat /\ p + 2 \in Nat /\ p + 4 \in Nat
       /\ p + 2 <= Len(bytes) /\ (p + 2) + 2 <= Len(bytes) /\ (p + 4) + 2 <= Len(bytes)
  BY BytesTyped
<1>11. u2(p) = x
  BY <1>1, <1>9, <1>10, ReadTwo
<1>12. u2(p + 2) = y
  BY <1>1, <1>9, <1>10, ReadTwo
<1>13. u2(p + 4) = z
  BY <1>1, <1>8, <1>10, ReadTwo
<1> QED BY <1>7, <1>11, <1>12, <1>13

LEMMA NextFour ==
  ASSUME Typed, NEW p \in Nat, NEW n \in Nat, n < Word * Word, NEW t \in Info_,
         At(bytes, p, U4(n) \o t), p + 4 <= Len(bytes)
  PROVE  u4(p) = n /\ At(bytes, p + 4, t)
<1>1. U4(n) \in Info_ /\ Len(U4(n)) = 4
  BY U4Typed
<1>2. At(bytes, p, U4(n)) /\ At(bytes, p + 4, t)
  BY <1>1, AtJoin
<1> QED BY <1>2, ReadFour

-----------------------------------------------------------------------------
\* Tables: the number of their entries, and one entry after the other.
Table_ == Seq(Info_)

LEMMA RestOf ==
  ASSUME NEW s \in Table_
  PROVE  /\ Len(s) \in Nat
         /\ \A i \in 0 .. Len(s) : Rest(s, i) \in Info_
         /\ \A i \in 1 .. Len(s) : s[i] \in Info_ /\ Rest(s, i - 1) = s[i] \o Rest(s, i)
         /\ Rest(s, 0) = FlattenSeq(s) /\ Rest(s, Len(s)) = <<>>
<1>1. s \in Seq(Seq(Int)) /\ Len(s) \in Nat
  BY DEF Table_, Info_
<1>2. \A i \in 0 .. Len(s) : Rest(s, i) \in Seq(Int)
  BY <1>1, RestTyped
<1>3. \A i \in 1 .. Len(s) : s[i] \in Seq(Int) /\ Rest(s, i - 1) = s[i] \o Rest(s, i)
  BY <1>1, RestFirst
<1>4. Rest(s, 0) = FlattenSeq(s) /\ Rest(s, Len(s)) = <<>>
  BY <1>1, RestAll, RestNone
<1> QED BY <1>1, <1>2, <1>3, <1>4 DEF Info_

LEMMA SizedTyped ==
  ASSUME NEW s \in Table_
  PROVE  Sized(s) \in Info_ /\ Sized(s) = U2(Len(s)) \o Rest(s, 0) /\ FlattenSeq(s) = Rest(s, 0)
<1>1. Len(s) \in Nat /\ Rest(s, 0) \in Info_ /\ FlattenSeq(s) = Rest(s, 0)
  BY RestOf
<1>2. U2(Len(s)) \in Info_
  BY <1>1, U2Typed
<1>3. U2(Len(s)) \o Rest(s, 0) \in Info_
  BY <1>1, <1>2, Joined
<1> QED BY <1>1, <1>3 DEF Sized

LEMMA TableStarts ==
  ASSUME Typed, NEW p \in Nat, NEW s \in Table_, NEW t \in Info_,
         At(bytes, p, Sized(s) \o t), p + 2 <= Len(bytes)
  PROVE  u2(p) = Len(s) /\ At(bytes, p + 2, Rest(s, 0) \o t)
<1>1. PICK n, u, v : n = Len(s) /\ u = U2(n) /\ v = Rest(s, 0)
  OBVIOUS
<1>2. n \in Int /\ v \in Info_ /\ Sized(s) = u \o v
  <2>1. n \in Int /\ v \in Info_
    BY <1>1, RestOf
  <2>2. Sized(s) = u \o v
    BY <1>1, SizedTyped, Zenon
  <2> QED BY <2>1, <2>2
<1>3. u \in Info_
  BY <1>1, <1>2, U2Typed
<1>4. (u \o v) \o t = u \o (v \o t) /\ v \o t \in Info_
  BY <1>2, <1>3, JoinedThree
<1>5. At(bytes, p, U2(n) \o (v \o t))
  BY <1>1, <1>2, <1>4
<1> QED BY <1>1, <1>2, <1>4, <1>5, NextTwo

\* The next entry of a table that is being read.
LEMMA NextEntry ==
  ASSUME NEW b, NEW p \in Nat, NEW s \in Table_, NEW i \in 1 .. Len(s), NEW t \in Info_
  PROVE  /\ s[i] \in Info_ /\ Rest(s, i) \o t \in Info_
         /\ At(b, p, Rest(s, i - 1) \o t) <=> At(b, p, s[i] \o (Rest(s, i) \o t))
<1>1. PICK u, v : u = s[i] /\ v = Rest(s, i)
  OBVIOUS
<1>2. u \in Info_ /\ v \in Info_ /\ Rest(s, i - 1) = u \o v
  <2>1. i \in 0 .. Len(s)
    BY RestOf
  <2>2. u \in Info_ /\ v \in Info_
    BY <1>1, <2>1, RestOf
  <2>3. Rest(s, i - 1) = u \o v
    BY <1>1, RestOf, Zenon
  <2> QED BY <2>2, <2>3
<1>3. (u \o v) \o t = u \o (v \o t) /\ v \o t \in Info_
  BY <1>2, JoinedThree
<1> QED BY <1>1, <1>2, <1>3

LEMMA TableEnds ==
  ASSUME NEW s \in Table_, NEW t \in Info_
  PROVE  Rest(s, Len(s)) \o t = t
BY RestOf, JoinedNone

-----------------------------------------------------------------------------
\* Where constants stand in the file.
Longs(c, n) == {k \in 1 .. n - 1 : c.constants[k].tag = Long}

LEMMA IndexNat ==
  ASSUME NEW c, NEW n \in Nat
  PROVE  /\ IsFiniteSet(Longs(c, n)) /\ Cardinality(Longs(c, n)) \in Nat
         /\ Index(c, n) = n + Cardinality(Longs(c, n)) /\ Index(c, n) \in Nat /\ Index(c, n) >= n
<1>1. IsFiniteSet(1 .. n - 1)
  BY FS_Interval
<1>2. IsFiniteSet(Longs(c, n))
  BY <1>1, FS_Subset DEF Longs
<1>3. Cardinality(Longs(c, n)) \in Nat
  BY <1>2, FS_CardinalityType
<1>4. Index(c, n) = n + Cardinality(Longs(c, n))
  BY DEF Index, Longs
<1> QED BY <1>2, <1>3, <1>4

LEMMA IndexFirst ==
  ASSUME NEW c
  PROVE  Index(c, 0) = 0 /\ Index(c, 1) = 1
<1>1. Longs(c, 0) = {} /\ Longs(c, 1) = {}
  BY DEF Longs
<1>2. Cardinality({}) = 0
  BY FS_EmptySet
<1>3. Index(c, 0) = 0 + Cardinality(Longs(c, 0)) /\ Index(c, 1) = 1 + Cardinality(Longs(c, 1))
  BY IndexNat
<1> QED BY <1>1, <1>2, <1>3

LEMMA IndexNext ==
  ASSUME NEW c, NEW n \in Nat, n >= 1
  PROVE  Index(c, n + 1) = Index(c, n) + (IF c.constants[n].tag = Long THEN 2 ELSE 1)
<1>1. PICK S, T : S = Longs(c, n) /\ T = Longs(c, n + 1)
  OBVIOUS
<1>2. /\ IsFiniteSet(S) /\ Cardinality(S) \in Nat /\ Index(c, n) = n + Cardinality(S)
      /\ Index(c, n + 1) = n + 1 + Cardinality(T)
  BY <1>1, IndexNat
<1>3. n \notin S
  BY <1>1 DEF Longs
<1>4. CASE c.constants[n].tag = Long
  <2>1. T = S \cup {n}
    BY <1>1, <1>4 DEF Longs
  <2>2. Cardinality(T) = Cardinality(S) + 1
    BY <1>2, <1>3, <2>1, FS_AddElement
  <2> QED BY <1>2, <1>4, <2>2
<1>5. CASE c.constants[n].tag # Long
  <2>1. T = S
    BY <1>1, <1>5 DEF Longs
  <2> QED BY <1>2, <1>5, <2>1
<1> QED BY <1>4, <1>5

LEMMA IndexIncreases ==
  ASSUME NEW c, NEW m \in Nat, NEW n \in Nat, m < n
  PROVE  Index(c, m) < Index(c, n)
<1>1. PICK S, T : S = Longs(c, m) /\ T = Longs(c, n)
  OBVIOUS
<1>2. /\ IsFiniteSet(T) /\ Cardinality(S) \in Nat /\ Cardinality(T) \in Nat
      /\ Index(c, m) = m + Cardinality(S) /\ Index(c, n) = n + Cardinality(T)
  BY <1>1, IndexNat
<1>3. S \subseteq T
  BY <1>1 DEF Longs
<1>4. Cardinality(S) <= Cardinality(T)
  BY <1>2, <1>3, FS_Subset
<1> QED BY <1>2, <1>4

LEMMA IndexOrder ==
  ASSUME NEW c, NEW m \in Nat, NEW n \in Nat
  PROVE  /\ Index(c, m) = Index(c, n) <=> m = n
         /\ Index(c, m) < Index(c, n) <=> m < n
<1>1. Index(c, m) \in Nat /\ Index(c, n) \in Nat
  BY IndexNat
<1>2. CASE m < n
  BY <1>1, <1>2, IndexIncreases
<1>3. CASE n < m
  BY <1>1, <1>3, IndexIncreases
<1>4. CASE m = n
  BY <1>1, <1>4
<1> QED BY <1>2, <1>3, <1>4

-----------------------------------------------------------------------------
\* What the encodings of a class that can be written are made of.
LEMMA IndexOfConstant ==
  ASSUME NEW c, NEW n \in Nat
  PROVE  Index(c, n) \in Nat /\ Index(c, n) \in Int
BY IndexNat

LEMMA ConstantsTyped ==
  ASSUME NEW c, Formed(c), NEW n \in DOMAIN c.constants
  PROVE  /\ DOMAIN c.constants = 1 .. Len(c.constants) /\ Len(c.constants) \in Nat
         /\ n \in 1 .. Len(c.constants) /\ n \in Nat
         /\ c.constants[n].tag \in 0 .. Base - 1 /\ c.constants[n].data \in Info_
         /\ ConstantFormed(c, c.constants[n])
<1>1. /\ c.constants \in Seq([tag : U1s, data : Seq(Int)])
      /\ \A m \in DOMAIN c.constants : ConstantFormed(c, c.constants[m])
  BY DEF Formed
<1>2. DOMAIN c.constants = 1 .. Len(c.constants) /\ Len(c.constants) \in Nat
  BY <1>1
<1>3. c.constants[n].tag \in U1s /\ c.constants[n].data \in Seq(Int)
  BY <1>1 DEF ConstantFormed
<1> QED BY <1>1, <1>2, <1>3 DEF U1s, Info_

\* The bytes of a constant: its tag, and then by tag.
DataIs(c, k, t) ==
    /\ k.tag = Utf8 => t = Counted(k.data)
    /\ k.tag = Integer => Len(t) = 4
    /\ k.tag = Long => Len(t) = 8
    /\ k.tag = MethodHandle => Len(t) = 3
    /\ k.tag \in {Class, String} => t = U2(Index(c, k.data[1])) /\ k.data[1] \in Nat
    /\ k.tag = InvokeDynamic =>
         /\ t = U2(k.data[1]) \o U2(Index(c, k.data[2]))
         /\ k.data[1] \in Nat /\ k.data[2] \in Nat
    /\ k.tag \in {FieldRef, MethodRef, InterfaceMethodref, NameAndType} =>
         /\ t = U2(Index(c, k.data[1])) \o U2(Index(c, k.data[2]))
         /\ k.data[1] \in Nat /\ k.data[2] \in Nat

LEMMA ConstantEncoded ==
  ASSUME NEW c, Formed(c), NEW n \in DOMAIN c.constants, NEW k, k = c.constants[n]
  PROVE  DataBytes(c, k) \in Info_ /\ DataIs(c, k, DataBytes(c, k))
<1> USE DEF Utf8, Integer, Long, Class, String, FieldRef, MethodRef, InterfaceMethodref,
            NameAndType, MethodHandle, InvokeDynamic
<1>1. /\ DOMAIN c.constants \subseteq Nat /\ k.tag \in Int /\ k.data \in Info_
      /\ ConstantFormed(c, k)
  BY ConstantsTyped
<1>2. k.data \in Seq(Int) /\ Len(k.data) \in Nat
  BY <1>1 DEF Info_
<1>3. CASE k.tag = Utf8
  <2>1. U2(Len(k.data)) \in Info_
    BY <1>2, U2Typed
  <2>2. Counted(k.data) \in Info_
    BY <1>1, <2>1, Joined DEF Counted
  <2>3. DataBytes(c, k) = Counted(k.data)
    BY <1>3 DEF DataBytes
  <2> QED BY <1>3, <2>2, <2>3 DEF DataIs
<1>4. CASE k.tag = Integer
  <2>1. k.data[1] \in Int
    BY <1>1, <1>2, <1>4 DEF ConstantFormed
  <2>2. U4(k.data[1]) \in Info_ /\ Len(U4(k.data[1])) = 4
    BY <2>1, U4Typed
  <2>3. DataBytes(c, k) = U4(k.data[1])
    BY <1>4 DEF DataBytes
  <2> QED BY <1>4, <2>2, <2>3 DEF DataIs
<1>5. CASE k.tag = Long
  <2>1. k.data[1] \in Int /\ k.data[2] \in Int
    BY <1>1, <1>2, <1>5 DEF ConstantFormed
  <2>2. PICK s, t : s = U4(k.data[1]) /\ t = U4(k.data[2])
    OBVIOUS
  <2>3. s \in Info_ /\ Len(s) = 4 /\ t \in Info_ /\ Len(t) = 4
    BY <2>1, <2>2, U4Typed
  <2>4. s \o t \in Info_ /\ Len(s \o t) = 8
    <3>1. s \o t \in Info_ /\ Len(s \o t) = Len(s) + Len(t)
      BY <2>3, Joined, Zenon
    <3> QED BY ONLY <2>3, <3>1
  <2>5. DataBytes(c, k) = s \o t
    BY <1>5, <2>2 DEF DataBytes
  <2>6. PICK u : u = s \o t
    OBVIOUS
  <2>7. DataIs(c, k, u)
    BY ONLY <1>5, <2>4, <2>6 DEF DataIs
  <2> QED BY ONLY <2>4, <2>5, <2>6, <2>7
<1>6. CASE k.tag = MethodHandle
  <2>1. k.data[1] \in Int /\ k.data[2] \in Nat
    BY <1>1, <1>2, <1>6 DEF ConstantFormed
  <2>2. Index(c, k.data[2]) \in Int
    BY <2>1, IndexOfConstant
  <2>3. PICK s, t : s = <<k.data[1]>> /\ t = U2(Index(c, k.data[2]))
    OBVIOUS
  <2>4. s \in Info_ /\ Len(s) = 1
    BY <2>1, <2>3 DEF Info_
  <2>5. t \in Info_ /\ Len(t) = 2
    BY <2>2, <2>3, U2Typed
  <2>6. s \o t \in Info_ /\ Len(s \o t) = 3
    <3>1. s \o t \in Info_ /\ Len(s \o t) = Len(s) + Len(t)
      BY <2>4, <2>5, Joined, Zenon
    <3> QED BY ONLY <2>4, <2>5, <3>1
  <2>7. DataBytes(c, k) = s \o t
    BY <1>6, <2>3 DEF DataBytes
  <2>8. PICK u : u = s \o t
    OBVIOUS
  <2>9. DataIs(c, k, u)
    BY ONLY <1>6, <2>6, <2>8 DEF DataIs
  <2> QED BY ONLY <2>6, <2>7, <2>8, <2>9
<1>7. CASE k.tag = InvokeDynamic
  <2>1. k.data[1] \in Nat /\ k.data[2] \in Nat
    BY <1>1, <1>2, <1>7 DEF ConstantFormed, Refer
  <2>2. Index(c, k.data[2]) \in Int
    BY <2>1, IndexOfConstant
  <2>3. U2(k.data[1]) \in Info_ /\ U2(Index(c, k.data[2])) \in Info_
    BY <2>1, <2>2, U2Typed
  <2>4. U2(k.data[1]) \o U2(Index(c, k.data[2])) \in Info_
    BY <2>3, Joined
  <2>5. DataBytes(c, k) = U2(k.data[1]) \o U2(Index(c, k.data[2]))
    BY <1>7 DEF DataBytes
  <2>6. PICK t : t = U2(k.data[1]) \o U2(Index(c, k.data[2]))
    OBVIOUS
  <2>7. DataIs(c, k, t)
    BY ONLY <1>7, <2>1, <2>6 DEF DataIs
  <2> QED BY ONLY <2>4, <2>5, <2>6, <2>7
<1>8. CASE k.tag \in {Class, String}
  <2>1. k.data[1] \in Nat
    BY <1>1, <1>2, <1>8 DEF ConstantFormed, Refer
  <2>2. Index(c, k.data[1]) \in Int
    BY <2>1, IndexOfConstant
  <2>3. U2(Index(c, k.data[1])) \in Info_
    BY <2>2, U2Typed
  <2>4. DataBytes(c, k) = U2(Index(c, k.data[1]))
    BY <1>8 DEF DataBytes
  <2>5. PICK t : t = U2(Index(c, k.data[1]))
    OBVIOUS
  <2>6. k.tag \notin {1, 3, 5, 9, 10, 11, 12, 15, 18}
    BY ONLY <1>8
  <2>7. DataIs(c, k, t)
    BY ONLY <2>1, <2>5, <2>6 DEF DataIs
  <2> QED BY ONLY <2>3, <2>4, <2>5, <2>7
<1>9. CASE k.tag \in {FieldRef, MethodRef, InterfaceMethodref, NameAndType}
  <2>1. k.data[1] \in Nat /\ k.data[2] \in Nat
    <3>1. k.data[1] \in DOMAIN c.constants /\ k.data[2] \in DOMAIN c.constants
      BY <1>1, <1>9 DEF ConstantFormed, Refer
    <3> QED BY <1>1, <3>1
  <2>2. Index(c, k.data[1]) \in Int /\ Index(c, k.data[2]) \in Int
    BY <2>1, IndexOfConstant
  <2>3. U2(Index(c, k.data[1])) \in Info_ /\ U2(Index(c, k.data[2])) \in Info_
    BY <2>2, U2Typed
  <2>4. U2(Index(c, k.data[1])) \o U2(Index(c, k.data[2])) \in Info_
    BY <2>3, Joined
  <2>5. DataBytes(c, k) = U2(Index(c, k.data[1])) \o U2(Index(c, k.data[2]))
    BY <1>9 DEF DataBytes
  <2>6. PICK t : t = U2(Index(c, k.data[1])) \o U2(Index(c, k.data[2]))
    OBVIOUS
  <2>7. k.tag \notin {1, 3, 5, 7, 8, 15, 18}
    BY ONLY <1>9
  <2>8. DataIs(c, k, t)
    BY ONLY <2>1, <2>6, <2>7 DEF DataIs
  <2> QED BY ONLY <2>4, <2>5, <2>6, <2>8
<1>10. CASE k.tag \notin {Utf8, Integer, Long, MethodHandle, InvokeDynamic, Class, String,
                         FieldRef, MethodRef, InterfaceMethodref, NameAndType}
  <2>1. DataBytes(c, k) = k.data
    BY <1>10 DEF DataBytes
  <2>2. DataIs(c, k, k.data)
    BY <1>10 DEF DataIs
  <2> QED BY <1>1, <2>1, <2>2
<1> QED BY <1>3, <1>4, <1>5, <1>6, <1>7, <1>8, <1>9, <1>10


LEMMA SeqOfSubset ==
  ASSUME NEW S, NEW T, S \subseteq T
  PROVE  Seq(S) \subseteq Seq(T)
<1>1. ASSUME NEW s \in Seq(S)
      PROVE  s \in Seq(T)
  <2>1. Len(s) \in Nat /\ s = [i \in 1 .. Len(s) |-> s[i]] /\ \A i \in 1 .. Len(s) : s[i] \in T
    OBVIOUS
  <2> QED BY <2>1
<1> QED BY <1>1

LEMMA Tabled ==
  ASSUME NEW n \in Nat, NEW f, f = [i \in 1 .. n |-> f[i]], \A i \in 1 .. n : f[i] \in Info_
  PROVE  f \in Table_ /\ Len(f) = n
BY DEF Table_

LEMMA Bytes1 ==
  ASSUME NEW n \in Int
  PROVE  <<n>> \in Info_ /\ Len(<<n>>) = 1 /\ <<n>>[1] = n
BY DEF Info_

LEMMA PoolEncoded ==
  ASSUME NEW c, Formed(c)
  PROVE  /\ ConstantsOf(c) \in Table_ /\ Len(ConstantsOf(c)) = Len(c.constants)
         /\ Len(c.constants) \in Nat
         /\ \A n \in 1 .. Len(c.constants) : ConstantsOf(c)[n] = ConstantBytes(c, c.constants[n])
<1>1. DOMAIN c.constants = 1 .. Len(c.constants) /\ Len(c.constants) \in Nat
  BY DEF Formed
<1>2. PICK n, f : n = Len(c.constants) /\ f = ConstantsOf(c)
  OBVIOUS
<1>3. f = [i \in 1 .. n |-> ConstantBytes(c, c.constants[i])]
  BY <1>1, <1>2 DEF ConstantsOf
<1>4. ASSUME NEW i \in 1 .. n
      PROVE  ConstantBytes(c, c.constants[i]) \in Info_
  <2>1. PICK k, t : k = c.constants[i] /\ t = DataBytes(c, k)
    OBVIOUS
  <2>2. i \in DOMAIN c.constants
    BY <1>1, <1>2
  <2>3. k.tag \in Int
    BY <2>1, <2>2, ConstantsTyped
  <2>4. t \in Info_
    BY <2>1, <2>2, ConstantEncoded
  <2>5. <<k.tag>> \o t \in Info_
    BY <2>3, <2>4, Bytes1, Joined
  <2> QED BY <2>1, <2>5 DEF ConstantBytes
<1>5. f \in Table_ /\ Len(f) = n
  <2>1. n \in Nat /\ f = [i \in 1 .. n |-> f[i]] /\ \A i \in 1 .. n : f[i] \in Info_
    BY <1>1, <1>2, <1>3, <1>4
  <2> QED BY ONLY <2>1, Tabled
<1> QED BY <1>1, <1>2, <1>3, <1>5

LEMMA IndicesEncoded ==
  ASSUME NEW c, NEW s \in Seq(Nat)
  PROVE  /\ IndicesOf(c, s) \in Table_ /\ Len(IndicesOf(c, s)) = Len(s) /\ Len(s) \in Nat
         /\ \A i \in 1 .. Len(s) : IndicesOf(c, s)[i] = U2(Index(c, s[i])) /\ s[i] \in Nat
<1>1. PICK n, f : n = Len(s) /\ f = IndicesOf(c, s)
  OBVIOUS
<1>2. n \in Nat /\ DOMAIN s = 1 .. n /\ \A i \in 1 .. n : s[i] \in Nat
  BY <1>1
<1>3. f = [i \in 1 .. n |-> U2(Index(c, s[i]))]
  BY <1>1, <1>2 DEF IndicesOf
<1>4. ASSUME NEW i \in 1 .. n
      PROVE  U2(Index(c, s[i])) \in Info_
  BY <1>2, IndexOfConstant, U2Typed
<1>5. f \in Table_ /\ Len(f) = n
  <2>1. n \in Nat /\ f = [i \in 1 .. n |-> f[i]] /\ \A i \in 1 .. n : f[i] \in Info_
    BY <1>2, <1>3, <1>4
  <2> QED BY ONLY <2>1, Tabled
<1> QED BY <1>1, <1>2, <1>3, <1>5

\* A bootstrap method, by the numbers of constants.
Bootstraps_ == [ref : Nat, arguments : Seq(Nat)]

LEMMA BootstrapsEncoded ==
  ASSUME NEW c, NEW s \in Seq(Bootstraps_)
  PROVE  /\ BootstrapsOf(c, s) \in Table_ /\ Len(BootstrapsOf(c, s)) = Len(s) /\ Len(s) \in Nat
         /\ \A i \in 1 .. Len(s) :
              /\ s[i].ref \in Nat /\ s[i].arguments \in Seq(Nat)
              /\ BootstrapsOf(c, s)[i] = U2(Index(c, s[i].ref)) \o Sized(IndicesOf(c, s[i].arguments))
<1>1. PICK n, f : n = Len(s) /\ f = BootstrapsOf(c, s)
  OBVIOUS
<1>2. /\ n \in Nat /\ DOMAIN s = 1 .. n
      /\ \A i \in 1 .. n : s[i].ref \in Nat /\ s[i].arguments \in Seq(Nat)
  <2>1. n \in Nat /\ DOMAIN s = 1 .. n /\ \A i \in 1 .. n : s[i] \in Bootstraps_
    BY <1>1
  <2> QED BY <2>1 DEF Bootstraps_
<1>3. f = [i \in 1 .. n |-> U2(Index(c, s[i].ref)) \o Sized(IndicesOf(c, s[i].arguments))]
  BY <1>1, <1>2 DEF BootstrapsOf
<1>4. ASSUME NEW i \in 1 .. n
      PROVE  U2(Index(c, s[i].ref)) \o Sized(IndicesOf(c, s[i].arguments)) \in Info_
  <2>1. U2(Index(c, s[i].ref)) \in Info_
    BY <1>2, IndexOfConstant, U2Typed
  <2>2. IndicesOf(c, s[i].arguments) \in Table_
    BY <1>2, IndicesEncoded
  <2>3. Sized(IndicesOf(c, s[i].arguments)) \in Info_
    BY <2>2, SizedTyped
  <2> QED BY <2>1, <2>3, Joined
<1>5. f \in Table_ /\ Len(f) = n
  <2>1. n \in Nat /\ f = [i \in 1 .. n |-> f[i]] /\ \A i \in 1 .. n : f[i] \in Info_
    BY <1>2, <1>3, <1>4
  <2> QED BY ONLY <2>1, Tabled
<1> QED BY <1>1, <1>2, <1>3, <1>5

LEMMA AttributeFormed ==
  ASSUME NEW c, Formed(c), NEW a \in Attributes_(c)
  PROVE  /\ a.name \in Nat /\ a.name \in DOMAIN c.constants
         /\ Content(c, a) \in Info_ /\ Len(Content(c, a)) \in Nat
         /\ Len(Content(c, a)) < Word * Word
         /\ a.kind = "Code" =>
              /\ a.max_stack \in Int /\ a.max_locals \in Int /\ a.code \in Info_ /\ a.rest \in Info_
              /\ a.code \in Seq(U1s)
              /\ Content(c, a) = U2(a.max_stack) \o U2(a.max_locals) \o U4(Len(a.code)) \o a.code \o a.rest
         /\ a.kind = "BootstrapMethods" =>
              a.methods \in Seq(Bootstraps_) /\ Content(c, a) = Sized(BootstrapsOf(c, a.methods))
<1>1. DOMAIN c.constants \subseteq Nat
  <2>1. DOMAIN c.constants = 1 .. Len(c.constants) /\ Len(c.constants) \in Nat
    BY DEF Formed
  <2> QED BY <2>1
<1>2. U1s \subseteq Int /\ U2s \subseteq Int
  BY WordNat DEF U1s, U2s
<1>3. Seq(U1s) \subseteq Info_
  BY <1>2, SeqOfSubset DEF Info_
<1>4. Len(Content(c, a)) < Word * Word
  BY DEF Attributes_
<1>5. CASE a \in [kind : {"Code"}, name : DOMAIN c.constants, max_stack : U2s, max_locals : U2s,
                  code : Seq(U1s), rest : Seq(U1s)]
  <2>1. /\ a.kind = "Code" /\ a.name \in DOMAIN c.constants
        /\ a.max_stack \in Int /\ a.max_locals \in Int /\ a.code \in Info_ /\ a.rest \in Info_
        /\ a.code \in Seq(U1s)
    BY <1>2, <1>3, <1>5
  <2>2. PICK r, s, u, v, w : /\ r = U2(a.max_stack) /\ s = U2(a.max_locals) /\ u = U4(Len(a.code))
                             /\ v = a.code /\ w = a.rest
    OBVIOUS
  <2>3. Len(v) \in Int
    BY <2>1, <2>2 DEF Info_
  <2>4. r \in Info_ /\ s \in Info_ /\ u \in Info_ /\ v \in Info_ /\ w \in Info_
    BY <2>1, <2>2, <2>3, U2Typed, U4Typed
  <2>5. r \o s \in Info_
    BY ONLY <2>4, Joined
  <2>6. (r \o s) \o u \in Info_
    BY ONLY <2>4, <2>5, Joined
  <2>7. ((r \o s) \o u) \o v \in Info_
    BY ONLY <2>4, <2>6, Joined
  <2>8. (((r \o s) \o u) \o v) \o w \in Info_
    BY ONLY <2>4, <2>7, Joined
  <2>9. Content(c, a) = U2(a.max_stack) \o U2(a.max_locals) \o U4(Len(a.code)) \o a.code \o a.rest
    BY <2>1 DEF Content
  <2>10. Content(c, a) \in Info_ /\ Len(Content(c, a)) \in Nat
    <3>1. Content(c, a) \in Info_
      BY <2>2, <2>8, <2>9
    <3> QED BY <3>1 DEF Info_
  <2> QED BY <1>1, <1>4, <2>1, <2>9, <2>10
<1>6. CASE a \in [kind : {"BootstrapMethods"}, name : DOMAIN c.constants,
                  methods : Seq([ref : DOMAIN c.constants, arguments : Seq(DOMAIN c.constants)])]
  <2>1. /\ a.kind = "BootstrapMethods" /\ a.name \in DOMAIN c.constants
        /\ a.methods \in Seq([ref : DOMAIN c.constants, arguments : Seq(DOMAIN c.constants)])
    BY <1>6
  <2>2. a.methods \in Seq(Bootstraps_)
    <3>1. Seq(DOMAIN c.constants) \subseteq Seq(Nat)
      BY <1>1
    <3>2. [ref : DOMAIN c.constants, arguments : Seq(DOMAIN c.constants)] \subseteq Bootstraps_
      BY <1>1, <3>1 DEF Bootstraps_
    <3> QED BY <2>1, <3>2, SeqOfSubset
  <2>3. Content(c, a) = Sized(BootstrapsOf(c, a.methods))
    BY <2>1 DEF Content
  <2>4. Content(c, a) \in Info_ /\ Len(Content(c, a)) \in Nat
    <3>1. BootstrapsOf(c, a.methods) \in Table_
      BY <2>2, BootstrapsEncoded
    <3>2. Content(c, a) \in Info_
      BY <2>3, <3>1, SizedTyped
    <3> QED BY <3>2 DEF Info_
  <2> QED BY <1>1, <1>4, <2>1, <2>2, <2>3, <2>4
<1>7. CASE a \in [kind : {"other"}, name : DOMAIN c.constants, rest : Seq(U1s)]
  <2>1. a.kind = "other" /\ a.name \in DOMAIN c.constants /\ a.rest \in Info_
    BY <1>3, <1>7
  <2>2. Content(c, a) = a.rest
    BY <2>1 DEF Content
  <2>3. Content(c, a) \in Info_ /\ Len(Content(c, a)) \in Nat
    BY <2>1, <2>2 DEF Info_
  <2> QED BY <1>1, <1>4, <2>1, <2>3
<1> QED BY <1>5, <1>6, <1>7 DEF Attributes_

LEMMA AttributesEncoded ==
  ASSUME NEW c, Formed(c), NEW s \in Seq(Attributes_(c))
  PROVE  /\ AttributesOf(c, s) \in Table_ /\ Len(AttributesOf(c, s)) = Len(s) /\ Len(s) \in Nat
         /\ \A i \in 1 .. Len(s) :
              /\ s[i] \in Attributes_(c)
              /\ AttributesOf(c, s)[i] = U2(Index(c, s[i].name)) \o U4(Len(Content(c, s[i]))) \o Content(c, s[i])
<1>1. PICK n, f : n = Len(s) /\ f = AttributesOf(c, s)
  OBVIOUS
<1>2. n \in Nat /\ DOMAIN s = 1 .. n /\ \A i \in 1 .. n : s[i] \in Attributes_(c)
  BY <1>1
<1>3. f = [i \in 1 .. n |->
             U2(Index(c, s[i].name)) \o U4(Len(Content(c, s[i]))) \o Content(c, s[i])]
  BY <1>1, <1>2 DEF AttributesOf
<1>4. ASSUME NEW i \in 1 .. n
      PROVE  U2(Index(c, s[i].name)) \o U4(Len(Content(c, s[i]))) \o Content(c, s[i]) \in Info_
  <2>1. PICK a : a = s[i]
    OBVIOUS
  <2>2. a.name \in Nat /\ Content(c, a) \in Info_ /\ Len(Content(c, a)) \in Nat
    BY <1>2, <2>1, AttributeFormed
  <2>3. PICK u, v, w : u = U2(Index(c, a.name)) /\ v = U4(Len(Content(c, a))) /\ w = Content(c, a)
    OBVIOUS
  <2>4. u \in Info_ /\ v \in Info_ /\ w \in Info_
    BY <2>2, <2>3, IndexOfConstant, U2Typed, U4Typed
  <2>5. u \o v \in Info_
    BY ONLY <2>4, Joined
  <2>6. (u \o v) \o w \in Info_
    BY ONLY <2>4, <2>5, Joined
  <2> QED BY <2>1, <2>3, <2>6
<1>5. f \in Table_ /\ Len(f) = n
  <2>1. n \in Nat /\ f = [i \in 1 .. n |-> f[i]] /\ \A i \in 1 .. n : f[i] \in Info_
    BY <1>2, <1>3, <1>4
  <2> QED BY ONLY <2>1, Tabled
<1> QED BY <1>1, <1>2, <1>3, <1>5

LEMMA MembersEncoded ==
  ASSUME NEW c, Formed(c), NEW s \in Seq(Members_(c))
  PROVE  /\ MembersOf(c, s) \in Table_ /\ Len(MembersOf(c, s)) = Len(s) /\ Len(s) \in Nat
         /\ \A i \in 1 .. Len(s) :
              /\ s[i].access \in Int /\ s[i].name \in Nat /\ s[i].desc \in Nat
              /\ s[i].name \in DOMAIN c.constants /\ s[i].desc \in DOMAIN c.constants
              /\ s[i].attributes \in Seq(Attributes_(c))
              /\ MembersOf(c, s)[i] = U2(s[i].access) \o U2(Index(c, s[i].name)) \o U2(Index(c, s[i].desc))
                                      \o Sized(AttributesOf(c, s[i].attributes))
<1>1. PICK n, f : n = Len(s) /\ f = MembersOf(c, s)
  OBVIOUS
<1>2. /\ n \in Nat /\ DOMAIN s = 1 .. n
      /\ \A i \in 1 .. n : /\ s[i].access \in Int /\ s[i].name \in Nat /\ s[i].desc \in Nat
                           /\ s[i].name \in DOMAIN c.constants /\ s[i].desc \in DOMAIN c.constants
                           /\ s[i].attributes \in Seq(Attributes_(c))
  <2>1. n \in Nat /\ DOMAIN s = 1 .. n /\ \A i \in 1 .. n : s[i] \in Members_(c)
    BY <1>1
  <2>2. U2s \subseteq Int
    BY WordNat DEF U2s
  <2>3. DOMAIN c.constants \subseteq Nat
    <3>1. DOMAIN c.constants = 1 .. Len(c.constants) /\ Len(c.constants) \in Nat
      BY DEF Formed
    <3> QED BY <3>1
  <2> QED BY <2>1, <2>2, <2>3 DEF Members_
<1>3. f = [i \in 1 .. n |-> U2(s[i].access) \o U2(Index(c, s[i].name)) \o U2(Index(c, s[i].desc))
                            \o Sized(AttributesOf(c, s[i].attributes))]
  BY <1>1, <1>2 DEF MembersOf
<1>4. ASSUME NEW i \in 1 .. n
      PROVE  U2(s[i].access) \o U2(Index(c, s[i].name)) \o U2(Index(c, s[i].desc))
             \o Sized(AttributesOf(c, s[i].attributes)) \in Info_
  <2>1. PICK t, u, v, w : /\ t = U2(s[i].access) /\ u = U2(Index(c, s[i].name))
                          /\ v = U2(Index(c, s[i].desc)) /\ w = Sized(AttributesOf(c, s[i].attributes))
    OBVIOUS
  <2>2. t \in Info_ /\ u \in Info_ /\ v \in Info_
    BY <1>2, <2>1, IndexOfConstant, U2Typed
  <2>3. w \in Info_
    <3>1. AttributesOf(c, s[i].attributes) \in Table_
      BY <1>2, AttributesEncoded
    <3> QED BY <2>1, <3>1, SizedTyped
  <2>4. t \o u \in Info_
    BY ONLY <2>2, Joined
  <2>5. (t \o u) \o v \in Info_
    BY ONLY <2>2, <2>4, Joined
  <2>6. ((t \o u) \o v) \o w \in Info_
    BY ONLY <2>3, <2>5, Joined
  <2> QED BY <2>1, <2>6
<1>5. f \in Table_ /\ Len(f) = n
  <2>1. n \in Nat /\ f = [i \in 1 .. n |-> f[i]] /\ \A i \in 1 .. n : f[i] \in Info_
    BY <1>2, <1>3, <1>4
  <2> QED BY ONLY <2>1, Tabled
<1> QED BY <1>1, <1>2, <1>3, <1>5

\* The numbers a class refers to its constants by.
LEMMA ClassEncoded ==
  ASSUME NEW c, Formed(c)
  PROVE  /\ c.access \in Int /\ c.this \in Nat /\ c.super \in Nat /\ c.interfaces \in Seq(Nat)
         /\ c.fields \in Seq(Members_(c)) /\ c.methods \in Seq(Members_(c))
         /\ c.attributes \in Seq(Attributes_(c))
         /\ {FromAttributes(c), FromMethods(c), FromFields(c), FromInterfaces(c), FromInfo(c),
             FromPool(c)} \subseteq Info_
         /\ FromAttributes(c) = Sized(AttributesOf(c, c.attributes))
<1>1. DOMAIN c.constants = 1 .. Len(c.constants) /\ Len(c.constants) \in Nat
  BY DEF Formed
<1>2. c.access \in Int /\ c.this \in Nat /\ c.super \in Nat /\ c.interfaces \in Seq(Nat)
  <2>1. c.access \in U2s /\ c.this \in DOMAIN c.constants /\ c.super \in 0 .. Len(c.constants)
        /\ c.interfaces \in Seq(DOMAIN c.constants)
    BY DEF Formed, Refer
  <2>2. U2s \subseteq Int
    BY WordNat DEF U2s
  <2>3. Seq(DOMAIN c.constants) \subseteq Seq(Nat)
    <3>1. DOMAIN c.constants \subseteq Nat
      BY <1>1
    <3> QED BY <3>1, SeqOfSubset
  <2>4. c.access \in Int /\ c.interfaces \in Seq(Nat)
    BY ONLY <2>1, <2>2, <2>3
  <2>5. c.this \in Nat /\ c.super \in Nat
    BY <1>1, <2>1
  <2> QED BY <2>4, <2>5
<1>3. /\ c.fields \in Seq(Members_(c)) /\ c.methods \in Seq(Members_(c))
      /\ c.attributes \in Seq(Attributes_(c))
  BY DEF Formed
<1>4. /\ ConstantsOf(c) \in Table_ /\ IndicesOf(c, c.interfaces) \in Table_
      /\ MembersOf(c, c.fields) \in Table_ /\ MembersOf(c, c.methods) \in Table_
      /\ AttributesOf(c, c.attributes) \in Table_
  BY <1>2, <1>3, PoolEncoded, IndicesEncoded, MembersEncoded, AttributesEncoded
<1>5. FromAttributes(c) \in Info_
  BY <1>4, SizedTyped DEF FromAttributes
<1>6. FromMethods(c) \in Info_
  BY <1>4, <1>5, SizedTyped, Joined DEF FromMethods
<1>7. FromFields(c) \in Info_
  BY <1>4, <1>6, SizedTyped, Joined DEF FromFields
<1>8. FromInterfaces(c) \in Info_
  BY <1>4, <1>7, SizedTyped, Joined DEF FromInterfaces
<1>9. FromInfo(c) \in Info_
  <2>1. PICK r, s, u, v : /\ r = U2(c.access) /\ s = U2(Index(c, c.this))
                          /\ u = U2(Index(c, c.super)) /\ v = FromInterfaces(c)
    OBVIOUS
  <2>2. r \in Info_ /\ s \in Info_ /\ u \in Info_ /\ v \in Info_
    BY <1>2, <1>8, <2>1, IndexOfConstant, U2Typed
  <2>3. r \o s \in Info_
    BY ONLY <2>2, Joined
  <2>4. (r \o s) \o u \in Info_
    BY ONLY <2>2, <2>3, Joined
  <2>5. ((r \o s) \o u) \o v \in Info_
    BY ONLY <2>2, <2>4, Joined
  <2> QED BY <2>1, <2>5 DEF FromInfo
<1>10. FromPool(c) \in Info_
  <2>1. Slots(c) \in Int
    BY <1>1, IndexOfConstant DEF Slots
  <2>2. U2(Slots(c)) \in Info_
    BY <2>1, U2Typed
  <2>3. FlattenSeq(ConstantsOf(c)) \in Info_
    <3>1. 0 \in 0 .. Len(ConstantsOf(c))
      BY <1>4, RestOf
    <3> QED BY <1>4, <3>1, RestOf
  <2>4. FlattenSeq(ConstantsOf(c)) \o FromInfo(c) \in Info_
    BY <1>9, <2>3, Joined
  <2> QED BY <2>2, <2>4, Joined DEF FromPool
<1> QED BY <1>2, <1>3, <1>5, <1>6, <1>7, <1>8, <1>9, <1>10 DEF FromAttributes

-----------------------------------------------------------------------------
\* What has been read of class c agrees with it, and what comes next in the
\* file is the rest of it.
InfoIs(c, k, i) ==
    /\ i # NULL
    /\ k.tag = Utf8 => i = k.data
    /\ k.tag \in {Class, String} => i = <<Index(c, k.data[1])>>
    /\ k.tag = InvokeDynamic => i = <<k.data[1], Index(c, k.data[2])>>
    /\ k.tag \in {FieldRef, MethodRef, InterfaceMethodref, NameAndType} =>
         i = <<Index(c, k.data[1]), Index(c, k.data[2])>>

\* The first n constants have been read, and the slots behind longs are empty.
PoolUpto(c, n) ==
    /\ count = Slots(c) - 1 /\ Len(cp) = Index(c, n + 1) - 1
    /\ \A k \in 1 .. n : /\ cp[Index(c, k)].tag = c.constants[k].tag
                         /\ InfoIs(c, c.constants[k], cp[Index(c, k)].info)
    /\ \A i \in 1 .. Len(cp) : (\E k \in 1 .. n : i = Index(c, k)) \/ cp[i].info = NULL

PoolAgrees(c) ==
    /\ phase = "constants" =>
         \E n \in 0 .. Len(c.constants) - 1 :
           PoolUpto(c, n) /\ At(bytes, pos, Rest(ConstantsOf(c), n) \o FromInfo(c))
    /\ phase \notin BeforePool \cup {"constants"} => PoolUpto(c, Len(c.constants))

InfoAgrees(c) ==
    phase \notin BeforePool \cup {"constants", "class_info"} =>
      /\ clazz.access_flags = c.access /\ clazz.this_class = Index(c, c.this)
      /\ clazz.super_class = Index(c, c.super)

\* n of the m entries of a table have been read, in the phases before its loop,
\* at a turn of the loop, within a turn, and afterwards.
Filled(n, m, before, turn, within) ==
    /\ phase \in before => n = 0
    /\ phase = turn => n + left = m
    /\ phase = within => n + left = m + 1
    /\ phase \notin before \cup {turn, within} => n = m

InterfacesAgree(c) ==
    /\ Filled(Len(clazz.interfaces), Len(c.interfaces), BeforeInterfaces, "interfaces", "none")
    /\ \A i \in 1 .. Len(clazz.interfaces) : clazz.interfaces[i] = Index(c, c.interfaces[i])

NamesRead(c, m, r) ==
    r.name = Text(c, m.name) /\ r.descriptor = Text(c, m.desc) /\ Refer(c, m.name, Utf8)

FieldsAgree(c) ==
    /\ Filled(Len(clazz.fields), Len(c.fields), BeforeFields, "fields", "field_attributes")
    /\ \A i \in 1 .. Len(clazz.fields) : NamesRead(c, c.fields[i], clazz.fields[i])

\* The code is that of the first Code among the first j attributes s.
CodeUpto(s, j, code) ==
    \/ code = NoCode /\ \A i \in 1 .. j : s[i].kind # "Code"
    \/ \E i \in 1 .. j :
         /\ s[i].kind = "Code" /\ \A k \in 1 .. i - 1 : s[k].kind # "Code"
         /\ code = [max_stack |-> s[i].max_stack, max_locals |-> s[i].max_locals, code |-> s[i].code]

\* The attributes of method i that have been read.
Passed(c, i) ==
    LET all == Len(c.methods[i].attributes)
    IN  IF phase = "method_attributes" /\ i = Len(clazz.methods) THEN all - attributes ELSE all

MethodsAgree(c) ==
    /\ Filled(Len(clazz.methods), Len(c.methods), BeforeMethods, "methods", "method_attributes")
    /\ \A i \in 1 .. Len(clazz.methods) :
         /\ NamesRead(c, c.methods[i], clazz.methods[i])
         /\ clazz.methods[i].access_flag = c.methods[i].access
         /\ CodeUpto(c.methods[i].attributes, Passed(c, i), clazz.methods[i].code)

\* The arguments of bootstrap method i that have been read.
Given(c, i) ==
    LET all == Len(BootstrapMethodsOf(c)[i].arguments)
    IN  IF phase = "bootstrap_arguments" /\ i = Len(clazz.bootstrap.methods)
        THEN all - arguments ELSE all

HasBootstraps(c) == OfKind(c.attributes, "BootstrapMethods") # {}

BootstrapsAgree(c) ==
    /\ Filled(Len(clazz.bootstrap.methods), Len(BootstrapMethodsOf(c)),
              BeforeBootstrap \cup {"bootstrap_count"}, "bootstrap_methods", "bootstrap_arguments")
    /\ phase \notin BeforeBootstrap \cup {"bootstrap_count"} => (clazz.bootstrap.found <=> HasBootstraps(c))
    /\ phase = "bootstrap_count" => HasBootstraps(c)
    /\ \A i \in 1 .. Len(clazz.bootstrap.methods) :
         LET b == BootstrapMethodsOf(c)[i]
             r == clazz.bootstrap.methods[i]
         IN  /\ r.ref = Index(c, b.ref) /\ Len(r.arguments) = Given(c, i)
             /\ \A k \in 1 .. Given(c, i) : r.arguments[k] = Index(c, b.arguments[k])

\* The attributes of the last of n members are being read.
MemberAhead(c, members, n, after) ==
    LET s == members[n].attributes
    IN  /\ n \in 1 .. Len(members) /\ attributes \in 1 .. Len(s)
        /\ At(bytes, pos, Rest(AttributesOf(c, s), Len(s) - attributes)
                          \o (Rest(MembersOf(c, members), n) \o after))

AttributesAhead(c) ==
    LET n == Len(c.attributes) - left
    IN  /\ left \in 1 .. Len(c.attributes)
        /\ \A i \in 1 .. n : c.attributes[i].kind # "BootstrapMethods"
        /\ At(bytes, pos, Rest(AttributesOf(c, c.attributes), n) \o <<>>)

ArgumentsAhead(c) ==
    LET all == BootstrapMethodsOf(c)
        n == Len(clazz.bootstrap.methods)
        s == all[n].arguments
    IN  /\ n \in 1 .. Len(all) /\ arguments \in 1 .. Len(s)
        /\ At(bytes, pos, Rest(IndicesOf(c, s), Len(s) - arguments)
                          \o (Rest(BootstrapsOf(c, all), n) \o <<>>))

Ahead(c) ==
    /\ phase = "header" => At(bytes, pos, Encode(c))
    /\ phase = "constant_pool" => At(bytes, pos, FromPool(c))
    /\ phase = "class_info" => At(bytes, pos, FromInfo(c))
    /\ phase = "interfaces_count" => At(bytes, pos, FromInterfaces(c))
    /\ phase = "interfaces" =>
         At(bytes, pos, Rest(IndicesOf(c, c.interfaces), Len(clazz.interfaces)) \o FromFields(c))
    /\ phase = "fields_count" => At(bytes, pos, FromFields(c))
    /\ phase = "fields" =>
         At(bytes, pos, Rest(MembersOf(c, c.fields), Len(clazz.fields)) \o FromMethods(c))
    /\ phase = "field_attributes" => MemberAhead(c, c.fields, Len(clazz.fields), FromMethods(c))
    /\ phase = "methods_count" => At(bytes, pos, FromMethods(c))
    /\ phase = "methods" =>
         At(bytes, pos, Rest(MembersOf(c, c.methods), Len(clazz.methods)) \o FromAttributes(c))
    /\ phase = "method_attributes" => MemberAhead(c, c.methods, Len(clazz.methods), FromAttributes(c))
    /\ phase = "attributes_count" => At(bytes, pos, FromAttributes(c))
    /\ phase = "class_attributes" => AttributesAhead(c)
    /\ phase = "bootstrap_count" => At(bytes, pos, Sized(BootstrapsOf(c, BootstrapMethodsOf(c))) \o <<>>)
    /\ phase = "bootstrap_methods" =>
         At(bytes, pos, Rest(BootstrapsOf(c, BootstrapMethodsOf(c)), Len(clazz.bootstrap.methods)) \o <<>>)
    /\ phase = "bootstrap_arguments" => ArgumentsAhead(c)

Agree(c) ==
    /\ PoolAgrees(c) /\ InfoAgrees(c) /\ InterfacesAgree(c) /\ FieldsAgree(c)
    /\ MethodsAgree(c) /\ BootstrapsAgree(c) /\ Ahead(c)

-----------------------------------------------------------------------------
\* What a step leaves alone still agrees.
BeforeInfo == BeforePool \cup {"constants", "class_info"}

LEMMA SameBytes ==
  ASSUME file' = file
  PROVE  bytes' = bytes
BY DEF bytes

LEMMA PoolKept ==
  ASSUME NEW c, PoolAgrees(c), cp' = cp, count' = count,
         phase \notin BeforePool \cup {"constants"}, phase' \notin BeforePool \cup {"constants"}
  PROVE  PoolAgrees(c)'
<1>1. PoolUpto(c, Len(c.constants))
  BY DEF PoolAgrees
<1>2. PoolUpto(c, Len(c.constants))'
  BY <1>1 DEF PoolUpto
<1> QED BY <1>2 DEF PoolAgrees, BeforePool

LEMMA InfoKept ==
  ASSUME NEW c, InfoAgrees(c), clazz'.access_flags = clazz.access_flags,
         clazz'.this_class = clazz.this_class, clazz'.super_class = clazz.super_class,
         phase \in BeforeInfo => phase' \in BeforeInfo
  PROVE  InfoAgrees(c)'
BY DEF InfoAgrees, BeforeInfo

\* A table of which no entry is read in this step.
Beside(before, turn, within) ==
    \/ phase \in before /\ phase' \in before
    \/ phase \notin before \cup {turn, within} /\ phase' \notin before \cup {turn, within}

LEMMA FilledKept ==
  ASSUME NEW n, NEW m, NEW before, NEW turn, NEW within, Filled(n, m, before, turn, within),
         Beside(before, turn, within), turn \notin before, within \notin before
  PROVE  /\ phase' \in before => n = 0
         /\ phase' = turn => n + left' = m
         /\ phase' = within => n + left' = m + 1
         /\ phase' \notin before \cup {turn, within} => n = m
BY DEF Filled, Beside

LEMMA InterfacesKept ==
  ASSUME NEW c, InterfacesAgree(c), clazz'.interfaces = clazz.interfaces,
         Beside(BeforeInterfaces, "interfaces", "none")
  PROVE  InterfacesAgree(c)'
<1>1. "interfaces" \notin BeforeInterfaces /\ "none" \notin BeforeInterfaces
  BY DEF BeforeInterfaces, BeforePool
<1>2. Filled(Len(clazz.interfaces), Len(c.interfaces), BeforeInterfaces, "interfaces", "none")'
  <2>1. PICK n, m : n = Len(clazz.interfaces) /\ m = Len(c.interfaces)
    OBVIOUS
  <2>2. Filled(n, m, BeforeInterfaces, "interfaces", "none")
    BY <2>1 DEF InterfacesAgree
  <2>3. Filled(n, m, BeforeInterfaces, "interfaces", "none")'
    BY <1>1, <2>2, FilledKept DEF Filled
  <2> QED BY <2>1, <2>3 DEF Filled
<1> QED BY <1>2 DEF InterfacesAgree

LEMMA FieldsKept ==
  ASSUME NEW c, FieldsAgree(c), clazz'.fields = clazz.fields,
         Beside(BeforeFields, "fields", "field_attributes")
  PROVE  FieldsAgree(c)'
<1>1. "fields" \notin BeforeFields /\ "field_attributes" \notin BeforeFields
  BY DEF BeforeFields, BeforeInterfaces, BeforePool
<1>2. Filled(Len(clazz.fields), Len(c.fields), BeforeFields, "fields", "field_attributes")'
  <2>1. PICK n, m : n = Len(clazz.fields) /\ m = Len(c.fields)
    OBVIOUS
  <2>2. Filled(n, m, BeforeFields, "fields", "field_attributes")
    BY <2>1 DEF FieldsAgree
  <2>3. Filled(n, m, BeforeFields, "fields", "field_attributes")'
    BY <1>1, <2>2, FilledKept DEF Filled
  <2> QED BY <2>1, <2>3 DEF Filled
<1> QED BY <1>2 DEF FieldsAgree, NamesRead

LEMMA MethodsKept ==
  ASSUME NEW c, MethodsAgree(c), clazz'.methods = clazz.methods,
         Beside(BeforeMethods, "methods", "method_attributes")
  PROVE  MethodsAgree(c)'
<1>1. "methods" \notin BeforeMethods /\ "method_attributes" \notin BeforeMethods
  BY DEF BeforeMethods, BeforeFields, BeforeInterfaces, BeforePool
<1>2. Filled(Len(clazz.methods), Len(c.methods), BeforeMethods, "methods", "method_attributes")'
  <2>1. PICK n, m : n = Len(clazz.methods) /\ m = Len(c.methods)
    OBVIOUS
  <2>2. Filled(n, m, BeforeMethods, "methods", "method_attributes")
    BY <2>1 DEF MethodsAgree
  <2>3. Filled(n, m, BeforeMethods, "methods", "method_attributes")'
    BY <1>1, <2>2, FilledKept DEF Filled
  <2> QED BY <2>1, <2>3 DEF Filled
<1>3. phase # "method_attributes" /\ phase' # "method_attributes"
  BY <1>1 DEF Beside
<1>4. \A i : Passed(c, i)' = Passed(c, i)
  BY <1>3 DEF Passed
<1> QED BY <1>2, <1>4 DEF MethodsAgree, NamesRead

LEMMA BootstrapsKept ==
  ASSUME NEW c, BootstrapsAgree(c), clazz'.bootstrap = clazz.bootstrap, phase' # "bootstrap_count",
         Beside(BeforeBootstrap \cup {"bootstrap_count"}, "bootstrap_methods", "bootstrap_arguments")
  PROVE  BootstrapsAgree(c)'
<1>1. PICK B : B = BeforeBootstrap \cup {"bootstrap_count"}
  OBVIOUS
<1>2. "bootstrap_methods" \notin B /\ "bootstrap_arguments" \notin B
  BY <1>1 DEF BeforeBootstrap, BeforeMethods, BeforeFields, BeforeInterfaces, BeforePool
<1>3. Filled(Len(clazz.bootstrap.methods), Len(BootstrapMethodsOf(c)),
             BeforeBootstrap \cup {"bootstrap_count"}, "bootstrap_methods", "bootstrap_arguments")'
  <2>1. PICK n, m : n = Len(clazz.bootstrap.methods) /\ m = Len(BootstrapMethodsOf(c))
    OBVIOUS
  <2>2. Filled(n, m, B, "bootstrap_methods", "bootstrap_arguments")
    BY <1>1, <2>1 DEF BootstrapsAgree
  <2>3. Filled(n, m, B, "bootstrap_methods", "bootstrap_arguments")'
    <3>1. Beside(B, "bootstrap_methods", "bootstrap_arguments")
      BY <1>1
    <3> QED BY <1>2, <2>2, <3>1, FilledKept DEF Filled
  <2> QED BY <1>1, <2>1, <2>3 DEF Filled
<1>4. phase # "bootstrap_arguments" /\ phase' # "bootstrap_arguments"
  BY <1>1, <1>2 DEF Beside
<1>5. \A i : Given(c, i)' = Given(c, i)
  BY <1>4 DEF Given
<1>6. phase' \notin BeforeBootstrap \cup {"bootstrap_count"} => (clazz.bootstrap.found <=> HasBootstraps(c))
  BY <1>1, <1>2 DEF BootstrapsAgree, Beside
<1> QED BY <1>3, <1>5, <1>6 DEF BootstrapsAgree


\* The phases, by the tables that are still to be read.
LEMMA Sides ==
  /\ phase \in BeforeInterfaces /\ phase' \in BeforeInterfaces =>
       Beside(BeforeInterfaces, "interfaces", "none")
  /\ phase \in BeforeFields /\ phase' \in BeforeFields => Beside(BeforeFields, "fields", "field_attributes")
  /\ phase \in BeforeMethods /\ phase' \in BeforeMethods =>
       Beside(BeforeMethods, "methods", "method_attributes")
  /\ phase \in BeforeBootstrap /\ phase' \in BeforeBootstrap =>
       Beside(BeforeBootstrap \cup {"bootstrap_count"}, "bootstrap_methods", "bootstrap_arguments")
BY DEF Beside

\* The same before any table is read.
LEMMA Untouched ==
  ASSUME NEW c, Agree(c), clazz' = clazz, phase \in BeforeInfo, phase' \in BeforeInfo
  PROVE  /\ InfoAgrees(c)' /\ InterfacesAgree(c)' /\ FieldsAgree(c)' /\ MethodsAgree(c)'
         /\ BootstrapsAgree(c)'
<1>1. /\ phase \in BeforeInfo /\ phase' \in BeforeInfo
      /\ phase \in BeforeInterfaces /\ phase' \in BeforeInterfaces
      /\ phase \in BeforeFields /\ phase' \in BeforeFields
      /\ phase \in BeforeMethods /\ phase' \in BeforeMethods
      /\ phase \in BeforeBootstrap /\ phase' \in BeforeBootstrap /\ phase' # "bootstrap_count"
  BY DEF BeforeInfo, BeforeBootstrap, BeforeMethods, BeforeFields, BeforeInterfaces, BeforePool
<1>2. InfoAgrees(c)'
  BY <1>1, InfoKept DEF Agree
<1>3. InterfacesAgree(c)' /\ FieldsAgree(c)' /\ MethodsAgree(c)' /\ BootstrapsAgree(c)'
  BY <1>1, Sides, InterfacesKept, FieldsKept, MethodsKept, BootstrapsKept DEF Agree
<1> QED BY <1>2, <1>3

LEMMA get_class_header_Agrees ==
  ASSUME ReadingInv, NEW c, Formed(c), Agree(c), get_class_header
  PROVE  Agree(c)'
<1>1. /\ phase = "header" /\ phase' = "constant_pool" /\ pos' = pos + 8 /\ pos \in Nat
      /\ file' = file /\ clazz' = clazz /\ bytes' = bytes
  BY SameBytes DEF get_class_header, In, ReadingInv, Typed
<1>2. At(bytes, pos, Header \o FromPool(c))
  BY <1>1 DEF Agree, Ahead, Encode
<1>3. Header \in Info_ /\ Len(Header) = 8
  <2>1. PICK r, s, t : r = <<12, 10, 15, 14>> /\ s = U2(0) /\ t = U2(17)
    OBVIOUS
  <2>2. r \in Info_ /\ Len(r) = 4
    BY <2>1 DEF Info_
  <2>3. s \in Info_ /\ Len(s) = 2 /\ t \in Info_ /\ Len(t) = 2
    BY <2>1, U2Typed
  <2>4. r \o s \in Info_ /\ Len(r \o s) = Len(r) + Len(s)
    BY <2>2, <2>3, Joined, Zenon
  <2>5. (r \o s) \o t \in Info_ /\ Len((r \o s) \o t) = Len(r \o s) + Len(t)
    BY <2>3, <2>4, Joined, Zenon
  <2>6. PICK u : u = (r \o s) \o t
    OBVIOUS
  <2>7. u \in Info_ /\ Len(u) = 8
    BY ONLY <2>2, <2>3, <2>4, <2>5, <2>6
  <2>8. Header = u
    BY <2>1, <2>6 DEF Header
  <2> QED BY <2>7, <2>8
<1>4. FromPool(c) \in Info_
  BY ClassEncoded
<1>5. At(bytes, pos + 8, FromPool(c))
  BY <1>1, <1>2, <1>3, <1>4, AtJoin
<1>6. Ahead(c)'
  BY <1>1, <1>5 DEF Ahead
<1>7. PoolAgrees(c)'
  BY <1>1 DEF PoolAgrees, BeforePool
<1>8. phase \in BeforeInfo /\ phase' \in BeforeInfo
  BY <1>1 DEF BeforeInfo, BeforePool
<1> QED BY <1>1, <1>6, <1>7, <1>8, Untouched DEF Agree

LEMMA get_constant_pool_Agrees ==
  ASSUME ReadingInv, NEW c, Formed(c), Agree(c), get_constant_pool
  PROVE  Agree(c)'
<1>1. /\ phase = "constant_pool" /\ count' = (u2(pos) - 1) % Word /\ pos' = pos + 2 /\ pos \in Nat
      /\ phase' = IF count' = 0 THEN "class_info" ELSE "constants"
      /\ file' = file /\ clazz' = clazz /\ cp' = cp /\ bytes' = bytes /\ cp = <<>>
  BY SameBytes DEF get_constant_pool, In, ReadingInv, Typed, Phased, BeforePool
<1>2. pos + 2 <= Len(bytes)
  <2>1. Needed = 2
    BY <1>1 DEF Needed
  <2> QED BY <2>1 DEF get_constant_pool, In, Has
<1>3. PICK n, m, t : n = Len(c.constants) /\ m = Slots(c) /\ t = FlattenSeq(ConstantsOf(c)) \o FromInfo(c)
  OBVIOUS
<1>4. ConstantsOf(c) \in Table_ /\ n \in Nat /\ n >= 1 /\ Len(ConstantsOf(c)) = n
  <2>1. c.this \in DOMAIN c.constants /\ DOMAIN c.constants = 1 .. n
    BY <1>3 DEF Formed, Refer
  <2>2. ConstantsOf(c) \in Table_ /\ n \in Nat /\ Len(ConstantsOf(c)) = n
    BY <1>3, PoolEncoded
  <2> QED BY <2>1, <2>2
<1>5. t \in Info_ /\ t = Rest(ConstantsOf(c), 0) \o FromInfo(c)
  <2>1. Rest(ConstantsOf(c), 0) \in Info_ /\ FlattenSeq(ConstantsOf(c)) = Rest(ConstantsOf(c), 0)
    BY <1>4, RestOf
  <2>2. FromInfo(c) \in Info_
    BY ClassEncoded
  <2>3. FlattenSeq(ConstantsOf(c)) \o FromInfo(c) \in Info_
    BY <2>1, <2>2, Joined
  <2> QED BY <1>3, <2>1, <2>3
<1>6. m \in Int /\ m >= n + 1
  <2>1. Index(c, n + 1) \in Nat /\ Index(c, n + 1) >= n + 1
    BY <1>4, IndexNat
  <2> QED BY <1>3, <1>4, <2>1 DEF Slots
<1>7. u2(pos) = m /\ At(bytes, pos + 2, t)
  <2>1. At(bytes, pos, U2(m) \o t)
    BY <1>1, <1>3 DEF Agree, Ahead, FromPool
  <2> QED BY <1>1, <1>2, <1>5, <1>6, <2>1, NextTwo DEF ReadingInv
<1>8. count' = m - 1
  <2>1. u2(pos) \in 0 .. Word - 1
    BY <1>1, <1>2, Reads DEF ReadingInv
  <2>2. m - 1 \in 0 .. Word - 1
    BY <1>4, <1>6, <1>7, <2>1, WordNat
  <2> QED BY <1>1, <1>7, <2>2, WordNat
<1>9. phase' = "constants"
  BY <1>1, <1>4, <1>6, <1>8
<1>10. PoolUpto(c, 0)'
  <2>1. Len(cp') = Index(c, 0 + 1) - 1
    BY <1>1, IndexFirst
  <2>2. count' = Slots(c) - 1
    BY <1>3, <1>8
  <2>3. 1 .. 0 = {} /\ Len(cp') = 0
    BY <1>1
  <2> QED BY <2>1, <2>2, <2>3 DEF PoolUpto
<1>11. PoolAgrees(c)'
  <2>1. 0 \in 0 .. Len(c.constants) - 1
    BY <1>3, <1>4
  <2>2. At(bytes', pos', Rest(ConstantsOf(c), 0) \o FromInfo(c))
    BY <1>1, <1>5, <1>7
  <2>3. phase' \notin BeforePool
    BY <1>9 DEF BeforePool
  <2> QED BY <1>9, <1>10, <2>1, <2>2, <2>3 DEF PoolAgrees
<1>12. Ahead(c)'
  BY <1>9 DEF Ahead
<1>13. phase \in BeforeInfo /\ phase' \in BeforeInfo
  BY <1>1, <1>9 DEF BeforeInfo, BeforePool
<1> QED BY <1>1, <1>11, <1>12, <1>13, Untouched DEF Agree

-----------------------------------------------------------------------------
\* A constant is read back from its bytes.
LEMMA NextPair ==
  ASSUME Typed, NEW p \in Nat, NEW x \in Int, NEW y \in Int, NEW t \in Info_,
         At(bytes, p, (U2(x) \o U2(y)) \o t), p + 4 <= Len(bytes)
  PROVE  u2(p) = x /\ u2(p + 2) = y /\ At(bytes, p + 4, t)
<1>1. PICK r, s : r = U2(x) /\ s = U2(y)
  OBVIOUS
<1>2. r \in Info_ /\ s \in Info_ /\ Len(r) = 2
  BY <1>1, U2Typed
<1>3. (r \o s) \o t = r \o (s \o t) /\ s \o t \in Info_
  BY <1>2, JoinedThree
<1>4. /\ Len(bytes) \in Nat /\ p + 2 \in Nat /\ p + 2 <= Len(bytes) /\ (p + 2) + 2 <= Len(bytes)
      /\ (p + 2) + 2 = p + 4
  BY BytesTyped
<1>5. u2(p) = x /\ At(bytes, p + 2, s \o t)
  BY <1>1, <1>3, <1>4, NextTwo
<1>6. u2(p + 2) = y /\ At(bytes, (p + 2) + 2, t)
  BY <1>1, <1>4, <1>5, NextTwo
<1> QED BY <1>4, <1>5, <1>6

LEMMA TextDecoded ==
  ASSUME Typed, NEW p \in Nat, NEW s \in Info_, NEW t \in Info_, At(bytes, p, Counted(s) \o t),
         p + 2 <= Len(bytes), p + 2 + u2(p) <= Len(bytes)
  PROVE  u2(p) = Len(s) /\ Bytes(p + 2, u2(p)) = s /\ Counted(s) \in Info_ /\ Len(Counted(s)) = 2 + Len(s)
<1>1. PICK n, r : n = Len(s) /\ r = U2(n)
  OBVIOUS
<1>2. n \in Nat /\ n \in Int
  BY <1>1 DEF Info_
<1>3. r \in Info_ /\ Len(r) = 2
  BY <1>1, <1>2, U2Typed
<1>4. (r \o s) \o t = r \o (s \o t) /\ s \o t \in Info_
  BY <1>3, JoinedThree
<1>5. u2(p) = n /\ At(bytes, p + 2, s \o t)
  BY <1>1, <1>2, <1>4, NextTwo DEF Counted
<1>6. At(bytes, p + 2, s)
  BY <1>5, AtJoin
<1>7. Bytes(p + 2, n) = s
  <2>1. p + 2 \in Nat /\ p + 2 + n <= Len(bytes) /\ s \in Seq(Int)
    BY <1>5 DEF Info_
  <2> QED BY <1>1, <1>6, <2>1, ReadBytes
<1>8. r \o s \in Info_ /\ Len(r \o s) = Len(r) + Len(s)
  BY <1>3, Joined, Zenon
<1>9. Counted(s) = r \o s
  BY <1>1 DEF Counted
<1>10. Len(Counted(s)) = 2 + n
  BY ONLY <1>1, <1>3, <1>8, <1>9
<1> QED BY <1>1, <1>5, <1>7, <1>8, <1>9, <1>10

LEMMA ConstantDecoded ==
  ASSUME Typed, In("constants"), NEW c, NEW k, NEW t \in Info_, k.tag \in Int, k.data \in Info_,
         DataBytes(c, k) \in Info_, DataIs(c, k, DataBytes(c, k)),
         At(bytes, pos, ConstantBytes(c, k) \o t), u1(pos) \in Tags
  PROVE  /\ u1(pos) = k.tag /\ InfoIs(c, k, Info)
         /\ At(bytes, pos + Needed, t)
<1>1. /\ pos \in Nat /\ Len(bytes) \in Nat /\ pos + 1 <= Len(bytes) /\ Needed = ConstantLength
      /\ pos + Needed <= Len(bytes) /\ ConstantLength \in Nat /\ pos + 1 \in Nat
      /\ pos + ConstantLength <= Len(bytes)
  BY ConstantRead, BytesTyped DEF Typed
<1>2. PICK f, s : f = <<k.tag>> /\ s = DataBytes(c, k)
  OBVIOUS
<1>3. f \in Info_ /\ Len(f) = 1 /\ f[1] = k.tag /\ s \in Info_ /\ Len(s) \in Nat
  BY <1>2, Bytes1 DEF Info_
<1>4. f \o s \in Info_ /\ Len(f \o s) = Len(f) + Len(s)
  BY <1>3, Joined, Zenon
<1>5. ConstantBytes(c, k) = f \o s
  BY <1>2 DEF ConstantBytes
<1>6. At(bytes, pos, f) /\ At(bytes, pos + 1, s)  /\ At(bytes, pos + 1, s \o t)
  <2>1. (f \o s) \o t = f \o (s \o t) /\ s \o t \in Info_
    <3>1. f \in Info_ /\ s \in Info_ /\ t \in Info_
      BY <1>3
    <3> QED BY ONLY <3>1, JoinedThree
  <2>2. At(bytes, pos, f) /\ At(bytes, pos + 1, s \o t)
    BY <1>1, <1>3, <1>5, <2>1, AtJoin
  <2> QED BY <1>1, <1>3, <2>2, AtJoin
<1>7. At(bytes, pos + (1 + Len(s)), t)
  <2>1. At(bytes, pos + Len(f \o s), t)
    BY <1>1, <1>4, <1>5, AtJoin
  <2> QED BY <1>3, <1>4, <2>1
<1>8. u1(pos) = k.tag
  <2>1. f[1] = bytes[pos + 1]
    BY <1>1, <1>3, <1>6 DEF At
  <2> QED BY <1>3, <2>1 DEF u1
<1>9. Info # NULL
  BY <1>8, InfoRead
<1>10. k.tag \in Tags
  BY <1>8
<1>11. ConstantLength = 1 + Len(s) /\ InfoIs(c, k, Info)
  <2> USE DEF Utf8, Integer, Long, Class, String, FieldRef, MethodRef, InterfaceMethodref,
              NameAndType, MethodHandle, InvokeDynamic
  <2>1. CASE k.tag = Utf8
    <3>1. s = Counted(k.data)
      BY <1>2, <2>1 DEF DataIs
    <3>2. ConstantLength = IF pos + 3 <= Len(bytes) THEN 3 + u2(pos + 1) ELSE 3
      BY <1>1, <1>8, <2>1 DEF ConstantLength, Has, Tags
    <3>3. pos + 3 <= Len(bytes) /\ (pos + 1) + 2 = pos + 3 /\ pos + 1 \in Nat
      BY <1>1, <3>2
    <3>4. u2(pos + 1) \in Nat
      BY <1>1, <3>3, Reads, WordNat
    <3>5. (pos + 1) + 2 + u2(pos + 1) <= Len(bytes)
      BY <1>1, <3>2, <3>3, <3>4
    <3>6. /\ u2(pos + 1) = Len(k.data) /\ Bytes(pos + 3, u2(pos + 1)) = k.data
          /\ Len(s) = 2 + Len(k.data)
      BY <1>1, <1>6, <3>1, <3>3, <3>5, TextDecoded
    <3>7. Info = Bytes(pos + 3, u2(pos + 1))
      BY <1>8, <2>1 DEF Info
    <3>8. ConstantLength = 1 + Len(s)
      BY <1>3, <3>2, <3>3, <3>4, <3>6
    <3> QED BY <1>9, <2>1, <3>6, <3>7, <3>8 DEF InfoIs
  <2>2. CASE k.tag = Integer
    <3>1. Len(s) = 4
      BY <1>2, <2>2 DEF DataIs
    <3>2. ConstantLength = 5
      BY <1>1, <1>8, <2>2 DEF ConstantLength, Has, Parts, Tags
    <3> QED BY <1>9, <2>2, <3>1, <3>2 DEF InfoIs
  <2>3. CASE k.tag = Long
    <3>1. Len(s) = 8
      BY <1>2, <2>3 DEF DataIs
    <3>2. ConstantLength = 9
      BY <1>1, <1>8, <2>3 DEF ConstantLength, Has, Parts, Tags
    <3> QED BY <1>9, <2>3, <3>1, <3>2 DEF InfoIs
  <2>4. CASE k.tag = MethodHandle
    <3>1. Len(s) = 3
      BY <1>2, <2>4 DEF DataIs
    <3>2. ConstantLength = 4
      BY <1>1, <1>8, <2>4 DEF ConstantLength, Has, Parts, Tags
    <3> QED BY <1>9, <2>4, <3>1, <3>2 DEF InfoIs
  <2>5. CASE k.tag \in {Class, String}
    <3>1. PICK x : x = Index(c, k.data[1])
      OBVIOUS
    <3>2. x \in Int /\ s = U2(x)
      BY <1>2, <2>5, <3>1, IndexOfConstant DEF DataIs
    <3>3. Parts(u1(pos)) = <<2>>
      BY <1>8, <2>5 DEF Parts
    <3>4. ConstantLength = 3
      BY <1>1, <1>8, <2>5, <3>3 DEF ConstantLength, Has, Tags
    <3>5. Len(s) = 2
      BY <3>2, U2Typed
    <3>6. u2(pos + 1) = x
      <4>1. (pos + 1) + 2 <= Len(bytes)
        BY <1>1, <3>4
      <4> QED BY <1>1, <1>6, <3>2, <4>1, ReadTwo
    <3>7. Info = <<u2(pos + 1)>>
      <4>1. Info = [j \in 1 .. 1 |-> PartAt(pos + 1 + 0, 2)]
        BY <1>8, <2>5, <3>3 DEF Info
      <4>2. PartAt(pos + 1 + 0, 2) = u2(pos + 1 + 0)
        BY DEF PartAt
      <4>3. pos + 1 + 0 = pos + 1
        BY <1>1
      <4> QED BY <4>1, <4>2, <4>3
    <3> QED BY <1>9, <2>5, <3>1, <3>4, <3>5, <3>6, <3>7 DEF InfoIs
  <2>6. CASE k.tag \in {FieldRef, MethodRef, InterfaceMethodref, NameAndType, InvokeDynamic}
    <3>1. PICK x, y : /\ x = IF k.tag = InvokeDynamic THEN k.data[1] ELSE Index(c, k.data[1])
                      /\ y = Index(c, k.data[2])
      OBVIOUS
    <3>2. x \in Int /\ y \in Int /\ s = U2(x) \o U2(y)
      <4>1. k.data[1] \in Nat /\ k.data[2] \in Nat
        BY <2>6 DEF DataIs
      <4>2. x \in Int /\ y \in Int
        BY <3>1, <4>1, IndexOfConstant
      <4>3. CASE k.tag = InvokeDynamic
        <5>1. x = k.data[1]
          BY <3>1, <4>3
        <5> QED BY <1>2, <3>1, <4>2, <4>3, <5>1 DEF DataIs
      <4>4. CASE k.tag # InvokeDynamic
        <5>1. x = Index(c, k.data[1])
          BY <3>1, <4>4
        <5> QED BY <1>2, <2>6, <3>1, <4>2, <4>4, <5>1 DEF DataIs
      <4> QED BY <4>3, <4>4
    <3>3. Parts(u1(pos)) = <<2, 2>>
      BY <1>8, <2>6 DEF Parts
    <3>4. ConstantLength = 5
      BY <1>1, <1>8, <2>6, <3>3 DEF ConstantLength, Has, Tags
    <3>5. Len(s) = 4
      <4>1. U2(x) \in Info_ /\ U2(y) \in Info_ /\ Len(U2(x)) = 2 /\ Len(U2(y)) = 2
        BY <3>2, U2Typed
      <4>2. Len(U2(x) \o U2(y)) = Len(U2(x)) + Len(U2(y))
        BY <4>1, Joined, Zenon
      <4> QED BY ONLY <3>2, <4>1, <4>2
    <3>6. u2(pos + 1) = x /\ u2((pos + 1) + 2) = y
      <4>1. (pos + 1) + 4 <= Len(bytes)
        BY <1>1, <3>4
      <4> QED BY <1>1, <1>6, <3>2, <4>1, NextPair
    <3>7. Info = <<u2(pos + 1), u2((pos + 1) + 2)>>
      <4>1. Info = [j \in 1 .. 2 |-> PartAt(pos + 1 + (IF j = 1 THEN 0 ELSE 2), 2)]
        BY <1>8, <2>6, <3>3 DEF Info
      <4>2. PartAt(pos + 1 + 0, 2) = u2(pos + 1 + 0) /\ PartAt(pos + 1 + 2, 2) = u2(pos + 1 + 2)
        BY DEF PartAt
      <4>3. pos + 1 + 0 = pos + 1 /\ pos + 1 + 2 = (pos + 1) + 2
        BY <1>1
      <4> QED BY <4>1, <4>2, <4>3
    <3>8. Info = <<x, y>>
      BY <3>6, <3>7
    <3> QED BY <1>9, <2>6, <3>1, <3>4, <3>5, <3>8 DEF InfoIs
  <2> QED BY <1>10, <2>1, <2>2, <2>3, <2>4, <2>5, <2>6 DEF Tags
<1> QED BY <1>1, <1>7, <1>8, <1>11

\* The pool with one more constant, and with the slot behind it if it is a long.
LEMMA PoolGrows ==
  ASSUME Typed, NEW c, NEW n \in Nat, PoolUpto(c, n), NEW k, k = c.constants[n + 1],
         NEW e \in Constant_, e.tag = k.tag, InfoIs(c, k, e.info), NEW b \in Constant_, b.info = NULL,
         cp' = cp \o (<<e>> \o IF k.tag = Long THEN <<b>> ELSE <<>>), count' = count
  PROVE  PoolUpto(c, n + 1)'
<1>1. PICK t, v, l, m : /\ t = (IF k.tag = Long THEN <<b>> ELSE <<>>) /\ v = cp' /\ l = Len(cp)
                        /\ m = n + 1
  OBVIOUS
<1>2. t \in Seq(Constant_) /\ Len(t) = IF k.tag = Long THEN 1 ELSE 0
  BY <1>1
<1>3. \A j \in 1 .. Len(t) : t[j] = b
  BY <1>1, <1>2
<1>4. PICK u : u = <<e>> \o t
  OBVIOUS
<1>5. /\ u \in Seq(Constant_) /\ Len(u) = 1 + Len(t) /\ u[1] = e
      /\ \A j \in 1 .. Len(t) : u[1 + j] = t[j]
  <2>1. <<e>> \in Seq(Constant_) /\ Len(<<e>>) = 1 /\ <<e>>[1] = e
    OBVIOUS
  <2> QED BY <1>2, <1>4, <2>1, ConcatElements
<1>6. /\ l \in Nat /\ v \in Seq(Constant_) /\ Len(v) = l + Len(u)
      /\ \A j \in 1 .. l : v[j] = cp[j]
      /\ \A j \in 1 .. Len(u) : v[l + j] = u[j]
  <2>1. cp \in Seq(Constant_) /\ v = cp \o u
    BY <1>1, <1>4 DEF Typed
  <2> QED BY <1>1, <1>5, <2>1, ConcatElements
<1>7. l + 1 = Index(c, m) /\ Index(c, m + 1) = Index(c, m) + 1 + Len(t) /\ Len(v) = Index(c, m + 1) - 1
  <2>1. l = Index(c, m) - 1 /\ Index(c, m) \in Nat
    BY <1>1, IndexNat DEF PoolUpto
  <2>2. Index(c, m + 1) = Index(c, m) + (IF k.tag = Long THEN 2 ELSE 1)
    <3>1. k = c.constants[m] /\ m \in Nat /\ m >= 1
      BY <1>1
    <3> QED BY <3>1, IndexNext
  <2>3. PICK a, z, g, w : a = Index(c, m) /\ z = Index(c, m + 1) /\ g = Len(t) /\ w = Len(v)
    OBVIOUS
  <2>4. /\ a \in Nat /\ l = a - 1 /\ z = a + (IF k.tag = Long THEN 2 ELSE 1)
        /\ g = IF k.tag = Long THEN 1 ELSE 0
    BY ONLY <1>2, <2>1, <2>2, <2>3
  <2>5. w = l + (1 + g)
    BY ONLY <1>5, <1>6, <2>3
  <2>6. l + 1 = a /\ z = a + 1 + g /\ w = z - 1
    BY ONLY <2>4, <2>5
  <2> QED BY ONLY <2>3, <2>6
<1>8. v[l + 1] = e
  <2>1. 1 \in 1 .. Len(u)
    BY <1>2, <1>5
  <2> QED BY <1>5, <1>6, <2>1
<1>9. ASSUME NEW j \in 1 .. m
      PROVE  v[Index(c, j)].tag = c.constants[j].tag /\ InfoIs(c, c.constants[j], v[Index(c, j)].info)
  <2>1. CASE j = m
    BY <1>1, <1>7, <1>8, <2>1
  <2>2. CASE j # m
    <3>1. j \in 1 .. n /\ j < m /\ j \in Nat /\ m \in Nat
      BY <1>1, <2>2
    <3>2. Index(c, j) \in 1 .. l
      <4>1. Index(c, j) \in Nat /\ Index(c, j) >= j /\ Index(c, j) < Index(c, m)
        BY <3>1, IndexNat, IndexIncreases
      <4> QED BY <1>6, <1>7, <3>1, <4>1
    <3> QED BY <1>6, <3>1, <3>2 DEF PoolUpto
  <2> QED BY <2>1, <2>2
<1>10. ASSUME NEW i \in 1 .. Len(v)
       PROVE  (\E j \in 1 .. m : i = Index(c, j)) \/ v[i].info = NULL
  <2>1. CASE i \in 1 .. l
    <3>1. (\E j \in 1 .. n : i = Index(c, j)) \/ cp[i].info = NULL
      BY <1>1, <2>1 DEF PoolUpto
    <3>2. 1 .. n \subseteq 1 .. m
      BY <1>1
    <3> QED BY <1>6, <2>1, <3>1, <3>2
  <2>2. CASE i = l + 1
    <3>1. m \in 1 .. m
      BY <1>1
    <3> QED BY <1>7, <2>2, <3>1
  <2>3. CASE i \notin 1 .. l /\ i # l + 1
    <3>1. PICK j : j = i - l - 1
      OBVIOUS
    <3>2. j \in 1 .. Len(t) /\ 1 + j \in 1 .. Len(u) /\ l + (1 + j) = i
      BY <1>2, <1>5, <1>6, <2>3, <3>1
    <3>3. v[i] = t[j]
      BY <1>5, <1>6, <3>2
    <3> QED BY <1>3, <3>2, <3>3
  <2> QED BY <2>1, <2>2, <2>3
<1>11. count' = Slots(c) - 1
  BY DEF PoolUpto
<1> QED BY <1>1, <1>7, <1>9, <1>10, <1>11 DEF PoolUpto

LEMMA read_constant_Agrees ==
  ASSUME ReadingInv, NEW c, Formed(c), Agree(c), read_constant
  PROVE  Agree(c)'
<1>1. /\ phase = "constants" /\ In("constants") /\ u1(pos) \in Tags
      /\ phase' = IF Len(cp') = count THEN "class_info" ELSE phase
      /\ pos' = pos + Needed /\ pos \in Nat /\ Typed
      /\ file' = file /\ clazz' = clazz /\ count' = count /\ bytes' = bytes
  BY SameBytes DEF read_constant, In, ReadingInv, Typed
<1>2. PICK l, s, f : l = Len(c.constants) /\ s = ConstantsOf(c) /\ f = FromInfo(c)
  OBVIOUS
<1>3. l \in Nat /\ s \in Table_ /\ Len(s) = l /\ f \in Info_ /\ DOMAIN c.constants = 1 .. l
  <2>1. l \in Nat /\ s \in Table_ /\ Len(s) = l
    BY <1>2, PoolEncoded
  <2>2. f \in Info_
    BY <1>2, ClassEncoded
  <2>3. DOMAIN c.constants = 1 .. l
    BY <1>2 DEF Formed
  <2> QED BY <2>1, <2>2, <2>3
<1>4. PICK n \in 0 .. l - 1 : PoolUpto(c, n) /\ At(bytes, pos, Rest(s, n) \o f)
  BY <1>1, <1>2 DEF Agree, PoolAgrees, BeforePool
<1>5. PICK m, k, t : m = n + 1 /\ k = c.constants[m] /\ t = Rest(s, m) \o f
  OBVIOUS
<1>6. n \in Nat /\ m \in 1 .. l /\ m - 1 = n /\ m \in Nat
  BY <1>3, <1>4, <1>5
<1>7. s[m] = ConstantBytes(c, k) /\ t \in Info_ /\ At(bytes, pos, ConstantBytes(c, k) \o t)
  <2>1. s[m] = ConstantBytes(c, k)
    BY <1>2, <1>5, <1>6, PoolEncoded
  <2>2. t \in Info_ /\ At(bytes, pos, s[m] \o t)
    BY <1>1, <1>3, <1>4, <1>5, <1>6, NextEntry
  <2> QED BY <2>1, <2>2
<1>8. u1(pos) = k.tag /\ InfoIs(c, k, Info) /\ At(bytes, pos', t)
  <2>1. /\ k.tag \in Int /\ k.data \in Info_ /\ DataBytes(c, k) \in Info_
        /\ DataIs(c, k, DataBytes(c, k))
    BY <1>3, <1>5, <1>6, ConstantsTyped, ConstantEncoded
  <2> QED BY <1>1, <1>7, <2>1, ConstantDecoded
<1>9. PoolUpto(c, m)'
  <2>1. PICK junk \in JunkTags :
          cp' = cp \o (<<[tag |-> u1(pos), info |-> Info]>>
                       \o IF u1(pos) = Long THEN <<[tag |-> junk, info |-> NULL]>> ELSE <<>>)
    BY DEF read_constant
  <2>2. PICK e, b : e = [tag |-> u1(pos), info |-> Info] /\ b = [tag |-> junk, info |-> NULL]
    OBVIOUS
  <2>3. e \in Constant_ /\ e.tag = k.tag /\ InfoIs(c, k, e.info)
    BY <1>1, <1>8, <2>2, InfoRead DEF Constant_
  <2>4. b \in Constant_ /\ b.info = NULL
    BY <2>2 DEF Constant_, Info_, NULL
  <2>5. cp' = cp \o (<<e>> \o IF k.tag = Long THEN <<b>> ELSE <<>>)
    BY <1>8, <2>1, <2>2
  <2>6. PoolUpto(c, n + 1)'
    BY <1>1, <1>4, <1>5, <1>6, <2>3, <2>4, <2>5, PoolGrows
  <2> QED BY <1>5, <2>6
<1>10. Len(cp') = count <=> m = l
  <2>1. Len(cp') = Index(c, m + 1) - 1 /\ count = Index(c, l + 1) - 1
    BY <1>1, <1>2, <1>9 DEF PoolUpto, Slots
  <2>2. m + 1 \in Nat /\ l + 1 \in Nat
    BY <1>3, <1>6
  <2>3. Index(c, m + 1) \in Nat /\ Index(c, l + 1) \in Nat
    BY <2>2, IndexNat
  <2>4. Index(c, m + 1) = Index(c, l + 1) <=> m + 1 = l + 1
    BY <2>2, IndexOrder
  <2> QED BY <1>3, <1>6, <2>1, <2>3, <2>4
<1>11. CASE m = l
  <2>1. phase' = "class_info"
    BY <1>1, <1>10, <1>11
  <2>2. t = f
    BY <1>3, <1>5, <1>11, TableEnds
  <2>3. Ahead(c)'
    BY <1>1, <1>2, <1>8, <2>1, <2>2 DEF Ahead
  <2>4. PoolAgrees(c)'
    <3>1. PoolUpto(c, Len(c.constants))'
      BY <1>2, <1>9, <1>11
    <3> QED BY <2>1, <3>1 DEF PoolAgrees
  <2>5. phase \in BeforeInfo /\ phase' \in BeforeInfo
    BY <1>1, <2>1 DEF BeforeInfo
  <2> QED BY <1>1, <2>3, <2>4, <2>5, Untouched DEF Agree
<1>12. CASE m # l
  <2>1. phase' = "constants"
    BY <1>1, <1>10, <1>12
  <2>2. Ahead(c)'
    BY <2>1 DEF Ahead
  <2>3. PoolAgrees(c)'
    <3>1. m \in 0 .. Len(c.constants) - 1
      BY <1>2, <1>3, <1>6, <1>12
    <3>2. At(bytes', pos', Rest(ConstantsOf(c), m) \o FromInfo(c))
      BY <1>1, <1>2, <1>5, <1>8
    <3> QED BY <1>9, <2>1, <3>1, <3>2 DEF PoolAgrees, BeforePool
  <2>4. phase \in BeforeInfo /\ phase' \in BeforeInfo
    BY <1>1, <2>1 DEF BeforeInfo
  <2> QED BY <1>1, <2>2, <2>3, <2>4, Untouched DEF Agree
<1> QED BY <1>11, <1>12

-----------------------------------------------------------------------------
\* The steps behind the pool.
Stopped == {"abort", "error_exit", "undefined"}

LEMMA get_class_info_Agrees ==
  ASSUME ReadingInv, NEW c, Formed(c), Agree(c), get_class_info
  PROVE  Agree(c)'
<1>1. /\ phase = "class_info" /\ phase' = "interfaces_count" /\ pos' = pos + 6 /\ pos \in Nat
      /\ clazz' = [clazz EXCEPT !.access_flags = u2(pos), !.this_class = u2(pos + 2),
                                !.super_class = u2(pos + 4)]
      /\ file' = file /\ cp' = cp /\ count' = count /\ bytes' = bytes /\ Typed /\ clazz \in ClassFile_
  BY SameBytes DEF get_class_info, In, ReadingInv, Typed
<1>2. pos + 6 <= Len(bytes)
  <2>1. Needed = 6
    BY <1>1 DEF Needed
  <2> QED BY <2>1 DEF get_class_info, In, Has
<1>3. PICK x, y, z, t : /\ x = c.access /\ y = Index(c, c.this) /\ z = Index(c, c.super)
                        /\ t = FromInterfaces(c)
  OBVIOUS
<1>4. x \in Int /\ y \in Int /\ z \in Int /\ t \in Info_
  BY <1>3, ClassEncoded, IndexOfConstant
<1>5. At(bytes, pos, U2(x) \o U2(y) \o U2(z) \o t)
  BY <1>1, <1>3 DEF Agree, Ahead, FromInfo
<1>6. u2(pos) = x /\ u2(pos + 2) = y /\ u2(pos + 4) = z /\ At(bytes, pos + 6, t)
  BY <1>1, <1>2, <1>4, <1>5, NextThree
<1>7. /\ clazz'.access_flags = x /\ clazz'.this_class = y /\ clazz'.super_class = z
      /\ clazz'.interfaces = clazz.interfaces /\ clazz'.fields = clazz.fields
      /\ clazz'.methods = clazz.methods /\ clazz'.bootstrap = clazz.bootstrap
  BY <1>1, <1>6 DEF ClassFile_
<1>8. /\ phase \in BeforeInterfaces /\ phase' \in BeforeInterfaces
      /\ phase \in BeforeFields /\ phase' \in BeforeFields
      /\ phase \in BeforeMethods /\ phase' \in BeforeMethods
      /\ phase \in BeforeBootstrap /\ phase' \in BeforeBootstrap /\ phase' # "bootstrap_count"
      /\ phase \notin BeforePool \cup {"constants"} /\ phase' \notin BeforePool \cup {"constants"}
  BY <1>1 DEF BeforeBootstrap, BeforeMethods, BeforeFields, BeforeInterfaces, BeforePool
<1>9. InterfacesAgree(c)' /\ FieldsAgree(c)' /\ MethodsAgree(c)' /\ BootstrapsAgree(c)'
  BY <1>7, <1>8, Sides, InterfacesKept, FieldsKept, MethodsKept, BootstrapsKept DEF Agree
<1>10. PoolAgrees(c)'
  BY <1>1, <1>8, PoolKept DEF Agree
<1>11. InfoAgrees(c)'
  BY <1>3, <1>7 DEF InfoAgrees
<1>12. Ahead(c)'
  BY <1>1, <1>3, <1>6 DEF Ahead
<1> QED BY <1>9, <1>10, <1>11, <1>12 DEF Agree

\* The loop over a table is entered, and an entry read in a turn of it, in the
\* first step of a turn, or in the last.
LEMMA Entered ==
  ASSUME NEW n, NEW m \in Nat, NEW before, NEW turn, NEW within, NEW after,
         Filled(n, m, before, turn, within), phase \in before, Loop(m, turn, after),
         turn \notin before, after \notin before \cup {turn, within}, turn # within
  PROVE  /\ n = 0 /\ Filled(n, m, before, turn, within)'
         /\ (m = 0 /\ phase' = after) \/ (m # 0 /\ phase' = turn)
BY DEF Filled, Loop

LEMMA Added ==
  ASSUME NEW n \in Nat, NEW m \in Nat, NEW before, NEW turn, NEW within, NEW after,
         Filled(n, m, before, turn, within), phase = turn, left \in Nat, left # 0,
         left' = left - 1, phase' = (IF left = 1 THEN after ELSE turn),
         turn \notin before, after \notin before \cup {turn, within}, turn # within
  PROVE  /\ n + 1 \in 1 .. m /\ Filled(n + 1, m, before, turn, within)'
         /\ (n + 1 = m /\ phase' = after) \/ (n + 1 # m /\ phase' = turn)
BY DEF Filled

LEMMA Begun ==
  ASSUME NEW n \in Nat, NEW m \in Nat, NEW before, NEW turn, NEW within,
         Filled(n, m, before, turn, within), phase = turn, left \in Nat, left # 0,
         left' = left, phase' = within, within \notin before, turn # within
  PROVE  n + 1 \in 1 .. m /\ Filled(n + 1, m, before, turn, within)'
BY DEF Filled

LEMMA Completed ==
  ASSUME NEW n \in Nat, NEW m \in Nat, NEW before, NEW turn, NEW within, NEW after,
         Filled(n, m, before, turn, within), phase = within, left \in Nat, left # 0,
         left' = left - 1, phase' = (IF left = 1 THEN after ELSE turn),
         turn \notin before, after \notin before \cup {turn, within}, turn # within
  PROVE  /\ Filled(n, m, before, turn, within)'
         /\ (n = m /\ phase' = after) \/ (n # m /\ phase' = turn)
BY DEF Filled

LEMMA Twos ==
  ASSUME ReadingInv, NEW p, In(p),
         p \in {"interfaces_count", "interfaces", "fields_count", "methods_count", "attributes_count",
                "bootstrap_count", "bootstrap_arguments"}
  PROVE  pos \in Nat /\ pos + 2 <= Len(bytes) /\ Typed
<1>1. Needed = 2
  BY DEF Needed, In
<1> QED BY <1>1 DEF In, Has, ReadingInv, Typed

LEMMA get_interface_Agrees ==
  ASSUME ReadingInv, NEW c, Formed(c), Agree(c), get_interface
  PROVE  Agree(c)'
<1>1. /\ phase = "interfaces_count" /\ Loop(u2(pos), "interfaces", "fields_count") /\ pos' = pos + 2
      /\ pos \in Nat /\ pos + 2 <= Len(bytes) /\ Typed
      /\ file' = file /\ cp' = cp /\ count' = count /\ clazz' = clazz /\ bytes' = bytes
  BY SameBytes, Twos DEF get_interface, In
<1>2. PICK m, s, f : m = Len(c.interfaces) /\ s = IndicesOf(c, c.interfaces) /\ f = FromFields(c)
  OBVIOUS
<1>3. s \in Table_ /\ Len(s) = m /\ m \in Nat /\ f \in Info_
  <2>1. c.interfaces \in Seq(Nat) /\ f \in Info_
    BY <1>2, ClassEncoded
  <2> QED BY <1>2, <2>1, IndicesEncoded
<1>4. u2(pos) = m /\ At(bytes, pos + 2, Rest(s, 0) \o f)
  <2>1. At(bytes, pos, Sized(s) \o f)
    BY <1>1, <1>2 DEF Agree, Ahead, FromInterfaces
  <2> QED BY <1>1, <1>3, <2>1, TableStarts
<1>5. PICK n : n = Len(clazz.interfaces)
  OBVIOUS
<1>6. /\ n = 0 /\ Filled(n, m, BeforeInterfaces, "interfaces", "none")'
      /\ (m = 0 /\ phase' = "fields_count") \/ (m # 0 /\ phase' = "interfaces")
  <2>1. Filled(n, m, BeforeInterfaces, "interfaces", "none")
    BY <1>2, <1>5 DEF Agree, InterfacesAgree
  <2>2. /\ "interfaces" \notin BeforeInterfaces /\ phase \in BeforeInterfaces
        /\ "fields_count" \notin BeforeInterfaces \cup {"interfaces", "none"}
    BY <1>1 DEF BeforeInterfaces, BeforePool
  <2> QED BY <1>1, <1>3, <1>4, <2>1, <2>2, Entered
<1>7. InterfacesAgree(c)'
  <2>1. \A i \in 1 .. Len(clazz'.interfaces) : clazz'.interfaces[i] = Index(c, c.interfaces[i])
    BY <1>1 DEF Agree, InterfacesAgree
  <2> QED BY <1>1, <1>2, <1>5, <1>6, <2>1 DEF InterfacesAgree, Filled
<1>8. /\ phase \in BeforeFields /\ phase' \in BeforeFields
      /\ phase \in BeforeMethods /\ phase' \in BeforeMethods
      /\ phase \in BeforeBootstrap /\ phase' \in BeforeBootstrap /\ phase' # "bootstrap_count"
      /\ phase \notin BeforePool \cup {"constants"} /\ phase' \notin BeforePool \cup {"constants"}
      /\ phase \notin BeforeInfo
  BY <1>1, <1>6 DEF BeforeInfo, BeforeBootstrap, BeforeMethods, BeforeFields, BeforeInterfaces, BeforePool
<1>9. FieldsAgree(c)' /\ MethodsAgree(c)' /\ BootstrapsAgree(c)'
  BY <1>1, <1>8, Sides, FieldsKept, MethodsKept, BootstrapsKept DEF Agree
<1>10. PoolAgrees(c)' /\ InfoAgrees(c)'
  BY <1>1, <1>8, PoolKept, InfoKept DEF Agree
<1>11. Ahead(c)'
  <2>1. CASE phase' = "interfaces"
    BY <1>1, <1>2, <1>4, <1>5, <1>6, <2>1 DEF Ahead
  <2>2. CASE phase' = "fields_count"
    <3>1. m = 0
      BY <1>6, <2>2
    <3>2. At(bytes, pos + 2, f)
      BY <1>3, <1>4, <3>1, TableEnds
    <3> QED BY <1>1, <1>2, <2>2, <3>2 DEF Ahead
  <2> QED BY <1>6, <2>1, <2>2
<1> QED BY <1>7, <1>9, <1>10, <1>11 DEF Agree

\* A table with one more entry.
LEMMA Appended ==
  ASSUME NEW S, NEW t \in Seq(S), NEW e, NEW n, n = Len(t), NEW u, u = Append(t, e)
  PROVE  /\ n \in Nat /\ Len(u) = n + 1 /\ u[n + 1] = e
         /\ \A i \in 1 .. n : u[i] = t[i]
OBVIOUS

LEMMA read_interface_Agrees ==
  ASSUME ReadingInv, NEW c, Formed(c), Agree(c), read_interface
  PROVE  Agree(c)'
<1>1. /\ phase = "interfaces" /\ Turn("fields_count") /\ pos' = pos + 2
      /\ pos \in Nat /\ pos + 2 <= Len(bytes) /\ Typed
      /\ clazz' = [clazz EXCEPT !.interfaces = Append(@, u2(pos))] /\ clazz \in ClassFile_
      /\ file' = file /\ cp' = cp /\ count' = count /\ bytes' = bytes
      /\ left \in Nat /\ left # 0
  BY SameBytes, Twos DEF read_interface, In, ReadingInv, Typed, Phased, Loops
<1>2. /\ clazz'.interfaces = Append(clazz.interfaces, u2(pos)) /\ clazz.interfaces \in Seq(Nat)
      /\ clazz'.access_flags = clazz.access_flags /\ clazz'.this_class = clazz.this_class
      /\ clazz'.super_class = clazz.super_class /\ clazz'.fields = clazz.fields
      /\ clazz'.methods = clazz.methods /\ clazz'.bootstrap = clazz.bootstrap
  BY <1>1 DEF ClassFile_
<1>3. PICK m, s, f, n : /\ m = Len(c.interfaces) /\ s = IndicesOf(c, c.interfaces) /\ f = FromFields(c)
                        /\ n = Len(clazz.interfaces)
  OBVIOUS
<1>4. /\ s \in Table_ /\ Len(s) = m /\ m \in Nat /\ f \in Info_
      /\ \A i \in 1 .. m : s[i] = U2(Index(c, c.interfaces[i])) /\ c.interfaces[i] \in Nat
  <2>1. c.interfaces \in Seq(Nat) /\ f \in Info_
    BY <1>3, ClassEncoded
  <2> QED BY <1>3, <2>1, IndicesEncoded
<1>5. /\ n \in Nat /\ Len(clazz'.interfaces) = n + 1 /\ clazz'.interfaces[n + 1] = u2(pos)
      /\ \A i \in 1 .. n : clazz'.interfaces[i] = clazz.interfaces[i]
  BY <1>2, <1>3, Appended
<1>6. /\ n + 1 \in 1 .. m /\ Filled(n + 1, m, BeforeInterfaces, "interfaces", "none")'
      /\ (n + 1 = m /\ phase' = "fields_count") \/ (n + 1 # m /\ phase' = "interfaces")
  <2>1. Filled(n, m, BeforeInterfaces, "interfaces", "none")
    BY <1>3 DEF Agree, InterfacesAgree
  <2>2. /\ "interfaces" \notin BeforeInterfaces
        /\ "fields_count" \notin BeforeInterfaces \cup {"interfaces", "none"}
    BY DEF BeforeInterfaces, BeforePool
  <2>3. /\ left' = left - 1 /\ phase' = (IF left = 1 THEN "fields_count" ELSE "interfaces")
        /\ left \in Nat /\ left # 0 /\ phase = "interfaces"
    BY <1>1 DEF Turn
  <2>4. n \in Nat /\ m \in Nat /\ "interfaces" # "none"
    BY <1>4, <1>5
  <2> QED BY ONLY <2>1, <2>2, <2>3, <2>4, Added
<1>7. PICK k, x : k = n + 1 /\ x = Index(c, c.interfaces[k])
  OBVIOUS
<1>8. k \in 1 .. m /\ k - 1 = n /\ x \in Int /\ s[k] = U2(x)
  <2>1. k \in 1 .. m /\ k - 1 = n
    BY <1>5, <1>6, <1>7
  <2> QED BY <1>4, <1>7, <2>1, IndexOfConstant
<1>9. u2(pos) = x /\ At(bytes, pos + 2, Rest(s, k) \o f)
  <2>1. At(bytes, pos, Rest(s, n) \o f)
    BY <1>1, <1>3 DEF Agree, Ahead
  <2>2. At(bytes, pos, U2(x) \o (Rest(s, k) \o f)) /\ Rest(s, k) \o f \in Info_
    BY <1>1, <1>4, <1>8, <2>1, NextEntry
  <2> QED BY <1>1, <1>8, <2>2, NextTwo
<1>10. InterfacesAgree(c)'
  <2>1. ASSUME NEW i \in 1 .. k
        PROVE  clazz'.interfaces[i] = Index(c, c.interfaces[i])
    <3>1. CASE i = k
      BY <1>5, <1>7, <1>9, <3>1
    <3>2. CASE i # k
      <4>1. i \in 1 .. n
        BY <1>5, <1>7, <3>2
      <4> QED BY <1>3, <1>5, <4>1 DEF Agree, InterfacesAgree
    <3> QED BY <3>1, <3>2
  <2> QED BY <1>3, <1>5, <1>6, <1>7, <2>1 DEF InterfacesAgree, Filled
<1>11. /\ phase \in BeforeFields /\ phase' \in BeforeFields
       /\ phase \in BeforeMethods /\ phase' \in BeforeMethods
       /\ phase \in BeforeBootstrap /\ phase' \in BeforeBootstrap /\ phase' # "bootstrap_count"
       /\ phase \notin BeforePool \cup {"constants"} /\ phase' \notin BeforePool \cup {"constants"}
       /\ phase \notin BeforeInfo
  BY <1>1, <1>6 DEF BeforeInfo, BeforeBootstrap, BeforeMethods, BeforeFields, BeforeInterfaces, BeforePool
<1>12. FieldsAgree(c)' /\ MethodsAgree(c)' /\ BootstrapsAgree(c)'
  BY <1>2, <1>11, Sides, FieldsKept, MethodsKept, BootstrapsKept DEF Agree
<1>13. PoolAgrees(c)' /\ InfoAgrees(c)'
  BY <1>1, <1>2, <1>11, PoolKept, InfoKept DEF Agree
<1>14. Ahead(c)'
  <2>1. CASE phase' = "interfaces"
    BY <1>1, <1>3, <1>5, <1>7, <1>9, <2>1 DEF Ahead
  <2>2. CASE phase' = "fields_count"
    <3>1. k = m
      BY <1>6, <1>7, <2>2
    <3>2. At(bytes, pos + 2, f)
      BY <1>4, <1>9, <3>1, TableEnds
    <3> QED BY <1>1, <1>3, <2>2, <3>2 DEF Ahead
  <2> QED BY <1>6, <2>1, <2>2
<1> QED BY <1>10, <1>12, <1>13, <1>14 DEF Agree

\* Tables that have been read.
BehindInterfaces == phase \notin BeforeInterfaces \cup {"interfaces", "none"}
BehindFields == phase \notin BeforeFields \cup {"fields", "field_attributes"}
BehindMethods == phase \notin BeforeMethods \cup {"methods", "method_attributes"}

LEMMA SidesBehind ==
  /\ BehindInterfaces /\ BehindInterfaces' => Beside(BeforeInterfaces, "interfaces", "none")
  /\ BehindFields /\ BehindFields' => Beside(BeforeFields, "fields", "field_attributes")
  /\ BehindMethods /\ BehindMethods' => Beside(BeforeMethods, "methods", "method_attributes")
BY DEF Beside, BehindInterfaces, BehindFields, BehindMethods

LEMMA get_fields_Agrees ==
  ASSUME ReadingInv, NEW c, Formed(c), Agree(c), get_fields
  PROVE  Agree(c)'
<1>1. /\ phase = "fields_count" /\ Loop(u2(pos), "fields", "methods_count") /\ pos' = pos + 2
      /\ pos \in Nat /\ pos + 2 <= Len(bytes) /\ Typed
      /\ file' = file /\ cp' = cp /\ count' = count /\ clazz' = clazz /\ bytes' = bytes
  BY SameBytes, Twos DEF get_fields, In
<1>2. PICK m, s, f : m = Len(c.fields) /\ s = MembersOf(c, c.fields) /\ f = FromMethods(c)
  OBVIOUS
<1>3. s \in Table_ /\ Len(s) = m /\ m \in Nat /\ f \in Info_
  <2>1. c.fields \in Seq(Members_(c)) /\ f \in Info_
    BY <1>2, ClassEncoded
  <2> QED BY <1>2, <2>1, MembersEncoded
<1>4. u2(pos) = m /\ At(bytes, pos + 2, Rest(s, 0) \o f)
  <2>1. At(bytes, pos, Sized(s) \o f)
    BY <1>1, <1>2 DEF Agree, Ahead, FromFields
  <2> QED BY <1>1, <1>3, <2>1, TableStarts
<1>5. PICK n : n = Len(clazz.fields)
  OBVIOUS
<1>6. /\ n = 0 /\ Filled(n, m, BeforeFields, "fields", "field_attributes")'
      /\ (m = 0 /\ phase' = "methods_count") \/ (m # 0 /\ phase' = "fields")
  <2>1. Filled(n, m, BeforeFields, "fields", "field_attributes")
    BY <1>2, <1>5 DEF Agree, FieldsAgree
  <2>2. /\ "fields" \notin BeforeFields /\ phase \in BeforeFields
        /\ "methods_count" \notin BeforeFields \cup {"fields", "field_attributes"}
    BY <1>1 DEF BeforeFields, BeforeInterfaces, BeforePool
  <2> QED BY <1>1, <1>3, <1>4, <2>1, <2>2, Entered
<1>7. FieldsAgree(c)'
  <2>1. \A i \in 1 .. Len(clazz'.fields) : NamesRead(c, c.fields[i], clazz'.fields[i])
    BY <1>1 DEF Agree, FieldsAgree
  <2> QED BY <1>1, <1>2, <1>5, <1>6, <2>1 DEF FieldsAgree, Filled, NamesRead
<1>8. /\ BehindInterfaces /\ BehindInterfaces'
      /\ phase \in BeforeMethods /\ phase' \in BeforeMethods
      /\ phase \in BeforeBootstrap /\ phase' \in BeforeBootstrap /\ phase' # "bootstrap_count"
      /\ phase \notin BeforePool \cup {"constants"} /\ phase' \notin BeforePool \cup {"constants"}
      /\ phase \notin BeforeInfo
  BY <1>1, <1>6 DEF BeforeInfo, BeforeBootstrap, BeforeMethods, BeforeFields, BeforeInterfaces, BeforePool,
                    BehindInterfaces
<1>9. InterfacesAgree(c)' /\ MethodsAgree(c)' /\ BootstrapsAgree(c)'
  BY <1>1, <1>8, Sides, SidesBehind, InterfacesKept, MethodsKept, BootstrapsKept DEF Agree
<1>10. PoolAgrees(c)' /\ InfoAgrees(c)'
  BY <1>1, <1>8, PoolKept, InfoKept DEF Agree
<1>11. Ahead(c)'
  <2>1. CASE phase' = "fields"
    BY <1>1, <1>2, <1>4, <1>5, <1>6, <2>1 DEF Ahead
  <2>2. CASE phase' = "methods_count"
    <3>1. m = 0
      BY <1>6, <2>2
    <3>2. At(bytes, pos + 2, f)
      BY <1>3, <1>4, <3>1, TableEnds
    <3> QED BY <1>1, <1>2, <2>2, <3>2 DEF Ahead
  <2> QED BY <1>6, <2>1, <2>2
<1> QED BY <1>7, <1>9, <1>10, <1>11 DEF Agree

LEMMA get_methods_Agrees ==
  ASSUME ReadingInv, NEW c, Formed(c), Agree(c), get_methods
  PROVE  Agree(c)'
<1>1. /\ phase = "methods_count" /\ Loop(u2(pos), "methods", "attributes_count") /\ pos' = pos + 2
      /\ pos \in Nat /\ pos + 2 <= Len(bytes) /\ Typed
      /\ file' = file /\ cp' = cp /\ count' = count /\ clazz' = clazz /\ bytes' = bytes
  BY SameBytes, Twos DEF get_methods, In
<1>2. PICK m, s, f : m = Len(c.methods) /\ s = MembersOf(c, c.methods) /\ f = FromAttributes(c)
  OBVIOUS
<1>3. s \in Table_ /\ Len(s) = m /\ m \in Nat /\ f \in Info_
  <2>1. c.methods \in Seq(Members_(c)) /\ f \in Info_
    BY <1>2, ClassEncoded
  <2> QED BY <1>2, <2>1, MembersEncoded
<1>4. u2(pos) = m /\ At(bytes, pos + 2, Rest(s, 0) \o f)
  <2>1. At(bytes, pos, Sized(s) \o f)
    BY <1>1, <1>2 DEF Agree, Ahead, FromMethods
  <2> QED BY <1>1, <1>3, <2>1, TableStarts
<1>5. PICK n : n = Len(clazz.methods)
  OBVIOUS
<1>6. /\ n = 0 /\ Filled(n, m, BeforeMethods, "methods", "method_attributes")'
      /\ (m = 0 /\ phase' = "attributes_count") \/ (m # 0 /\ phase' = "methods")
  <2>1. Filled(n, m, BeforeMethods, "methods", "method_attributes")
    BY <1>2, <1>5 DEF Agree, MethodsAgree
  <2>2. /\ "methods" \notin BeforeMethods /\ phase \in BeforeMethods
        /\ "attributes_count" \notin BeforeMethods \cup {"methods", "method_attributes"}
    BY <1>1 DEF BeforeMethods, BeforeFields, BeforeInterfaces, BeforePool
  <2> QED BY <1>1, <1>3, <1>4, <2>1, <2>2, Entered
<1>7. MethodsAgree(c)'
  <2>1. Len(clazz'.methods) = 0 /\ 1 .. 0 = {}
    BY <1>1, <1>5, <1>6
  <2> QED BY <1>2, <1>5, <1>6, <2>1 DEF MethodsAgree, Filled
<1>8. /\ BehindInterfaces /\ BehindInterfaces' /\ BehindFields /\ BehindFields'
      /\ phase \in BeforeBootstrap /\ phase' \in BeforeBootstrap /\ phase' # "bootstrap_count"
      /\ phase \notin BeforePool \cup {"constants"} /\ phase' \notin BeforePool \cup {"constants"}
      /\ phase \notin BeforeInfo
  BY <1>1, <1>6 DEF BeforeInfo, BeforeBootstrap, BeforeMethods, BeforeFields, BeforeInterfaces, BeforePool,
                    BehindInterfaces, BehindFields
<1>9. InterfacesAgree(c)' /\ FieldsAgree(c)' /\ BootstrapsAgree(c)'
  BY <1>1, <1>8, Sides, SidesBehind, InterfacesKept, FieldsKept, BootstrapsKept DEF Agree
<1>10. PoolAgrees(c)' /\ InfoAgrees(c)'
  BY <1>1, <1>8, PoolKept, InfoKept DEF Agree
<1>11. Ahead(c)'
  <2>1. CASE phase' = "methods"
    BY <1>1, <1>2, <1>4, <1>5, <1>6, <2>1 DEF Ahead
  <2>2. CASE phase' = "attributes_count"
    <3>1. m = 0
      BY <1>6, <2>2
    <3>2. At(bytes, pos + 2, f)
      BY <1>3, <1>4, <3>1, TableEnds
    <3> QED BY <1>1, <1>2, <2>2, <3>2 DEF Ahead
  <2> QED BY <1>6, <2>1, <2>2
<1> QED BY <1>7, <1>9, <1>10, <1>11 DEF Agree

-----------------------------------------------------------------------------
\* A member up to its attributes, and an attribute.
LEMMA NextMember_ ==
  ASSUME Typed, NEW p \in Nat, NEW x \in Int, NEW y \in Int, NEW z \in Int, NEW s \in Table_,
         NEW t \in Info_, At(bytes, p, (U2(x) \o U2(y) \o U2(z) \o Sized(s)) \o t), p + 8 <= Len(bytes)
  PROVE  /\ u2(p) = x /\ u2(p + 2) = y /\ u2(p + 4) = z /\ u2(p + 6) = Len(s)
         /\ At(bytes, p + 8, Rest(s, 0) \o t)
<1>1. PICK u, w : u = (U2(x) \o U2(y)) \o U2(z) /\ w = Sized(s)
  OBVIOUS
<1>2. U2(x) \in Info_ /\ U2(y) \in Info_ /\ U2(z) \in Info_
  BY U2Typed
<1>3. U2(x) \o U2(y) \in Info_
  BY <1>2, Joined
<1>4. u \in Info_ /\ w \in Info_
  BY <1>1, <1>2, <1>3, Joined, SizedTyped
<1>5. (u \o w) \o t = u \o (w \o t) /\ w \o t \in Info_
  BY ONLY <1>4, t \in Info_, JoinedThree
<1>6. At(bytes, p, U2(x) \o U2(y) \o U2(z) \o (w \o t))
  BY <1>1, <1>5
<1>7. /\ Len(bytes) \in Nat /\ p + 6 \in Nat /\ p + 6 <= Len(bytes) /\ (p + 6) + 2 <= Len(bytes)
      /\ (p + 6) + 2 = p + 8
  BY BytesTyped
<1>8. u2(p) = x /\ u2(p + 2) = y /\ u2(p + 4) = z /\ At(bytes, p + 6, w \o t)
  BY <1>5, <1>6, <1>7, NextThree
<1>9. u2(p + 6) = Len(s) /\ At(bytes, (p + 6) + 2, Rest(s, 0) \o t)
  BY <1>1, <1>7, <1>8, TableStarts
<1> QED BY <1>7, <1>8, <1>9

LEMMA NextAttribute ==
  ASSUME Typed, NEW p \in Nat, NEW x \in Int, NEW u \in Info_, Len(u) < Word * Word, NEW t \in Info_,
         At(bytes, p, (U2(x) \o U4(Len(u)) \o u) \o t), p + 6 <= Len(bytes)
  PROVE  /\ u2(p) = x /\ u4(p + 2) = Len(u) /\ Len(u) \in Nat
         /\ At(bytes, p + 6, u \o t) /\ At(bytes, p + 6 + Len(u), t)
<1>1. PICK n, r, s : n = Len(u) /\ r = U2(x) /\ s = U4(n)
  OBVIOUS
<1>2. n \in Nat /\ n \in Int
  BY <1>1 DEF Info_
<1>3. r \in Info_ /\ s \in Info_
  BY <1>1, <1>2, U2Typed, U4Typed
<1>4. r \o s \in Info_ /\ u \o t \in Info_
  BY <1>3, Joined
<1>5. ((r \o s) \o u) \o t = (r \o s) \o (u \o t)
  <2>1. PICK v : v = r \o s
    OBVIOUS
  <2>2. v \in Info_
    BY ONLY <1>4, <2>1
  <2>3. Joint(Joint(v, u), t) = Joint(v, Joint(u, t))
    BY ONLY <2>2, u \in Info_, t \in Info_, JointRegrouped
  <2> QED BY ONLY <2>1, <2>3 DEF Joint
<1>6. (r \o s) \o (u \o t) = r \o (s \o (u \o t)) /\ s \o (u \o t) \in Info_
  <2>1. PICK v : v = u \o t
    OBVIOUS
  <2>2. (r \o s) \o v = r \o (s \o v) /\ s \o v \in Info_
    <3>1. v \in Info_
      BY ONLY <1>4, <2>1
    <3>2. (r \o s) \o v = r \o (s \o v)
      <4>1. Joint(Joint(r, s), v) = Joint(r, Joint(s, v))
        BY ONLY <1>3, <3>1, JointRegrouped
      <4> QED BY ONLY <4>1 DEF Joint
    <3>3. s \o v \in Info_
      BY ONLY <1>3, <3>1, Joined
    <3> QED BY <3>2, <3>3
  <2> QED BY <2>1, <2>2
<1>7. At(bytes, p, U2(x) \o (s \o (u \o t)))
  BY <1>1, <1>5, <1>6
<1>8. /\ Len(bytes) \in Nat /\ p + 2 \in Nat /\ p + 2 <= Len(bytes) /\ (p + 2) + 4 <= Len(bytes)
      /\ (p + 2) + 4 = p + 6 /\ p + 6 \in Nat
  BY BytesTyped
<1>9. u2(p) = x /\ At(bytes, p + 2, s \o (u \o t))
  BY <1>6, <1>7, <1>8, NextTwo
<1>10. u4(p + 2) = n /\ At(bytes, (p + 2) + 4, u \o t)
  BY <1>1, <1>2, <1>4, <1>8, <1>9, NextFour
<1>11. At(bytes, p + 6, u \o t) /\ At(bytes, p + 6 + Len(u), t)
  BY <1>8, <1>10, AtJoin
<1> QED BY <1>1, <1>2, <1>9, <1>10, <1>11

\* A text that a number of the class refers to.
LEMMA TextRead ==
  ASSUME NEW c, Formed(c), PoolUpto(c, Len(c.constants)), NEW k \in DOMAIN c.constants,
         Constant(Index(c, k), Utf8)
  PROVE  Refer(c, k, Utf8) /\ cp[Index(c, k)].info = Text(c, k)
<1>1. k \in 1 .. Len(c.constants)
  BY DEF Formed
<1>2. cp[Index(c, k)].tag = c.constants[k].tag /\ InfoIs(c, c.constants[k], cp[Index(c, k)].info)
  BY <1>1 DEF PoolUpto
<1>3. c.constants[k].tag = Utf8
  BY <1>2 DEF Constant
<1> QED BY <1>2, <1>3 DEF InfoIs, Refer, Text

LEMMA MemberBegins ==
  ASSUME Typed, NEW c, Formed(c), PoolUpto(c, Len(c.constants)), NEW members \in Seq(Members_(c)),
         NEW k \in 1 .. Len(members), NEW t \in Info_,
         At(bytes, pos, Rest(MembersOf(c, members), k - 1) \o t), pos + 8 <= Len(bytes), MemberNamed
  PROVE  /\ u2(pos) = members[k].access
         /\ member_name = Text(c, members[k].name) /\ member_descriptor = Text(c, members[k].desc)
         /\ Refer(c, members[k].name, Utf8)
         /\ u2(pos + 6) = Len(members[k].attributes)
         /\ At(bytes, pos + 8, Rest(AttributesOf(c, members[k].attributes), 0)
                               \o (Rest(MembersOf(c, members), k) \o t))
         /\ Len(members[k].attributes) = 0 => At(bytes, pos + 8, Rest(MembersOf(c, members), k) \o t)
<1>1. PICK m, s, y, z : /\ m = members[k] /\ s = AttributesOf(c, members[k].attributes)
                        /\ y = Index(c, members[k].name) /\ z = Index(c, members[k].desc)
  OBVIOUS
<1>2. /\ MembersOf(c, members) \in Table_ /\ k \in 1 .. Len(MembersOf(c, members))
      /\ m.access \in Int /\ m.name \in Nat /\ m.desc \in Nat
      /\ m.name \in DOMAIN c.constants /\ m.desc \in DOMAIN c.constants
      /\ m.attributes \in Seq(Attributes_(c))
      /\ MembersOf(c, members)[k] = U2(m.access) \o U2(y) \o U2(z) \o Sized(s)
  BY <1>1, MembersEncoded
<1>3. s \in Table_ /\ Len(s) = Len(m.attributes)
  BY <1>1, <1>2, AttributesEncoded
<1>4. y \in Int /\ z \in Int /\ pos \in Nat
  BY <1>1, <1>2, IndexOfConstant DEF Typed
<1>5. PICK r : r = Rest(MembersOf(c, members), k) \o t
  OBVIOUS
<1>6. r \in Info_ /\ At(bytes, pos, (U2(m.access) \o U2(y) \o U2(z) \o Sized(s)) \o r)
  <2>1. PICK e, v : e = MembersOf(c, members) /\ v = e[k]
    OBVIOUS
  <2>2. e \in Table_ /\ k \in 1 .. Len(e) /\ At(bytes, pos, Rest(e, k - 1) \o t)
    BY <1>2, <2>1
  <2>3. r \in Info_ /\ At(bytes, pos, v \o r)
    BY <1>4, <1>5, <2>1, <2>2, NextEntry
  <2> QED BY <1>2, <2>1, <2>3
<1>7. /\ u2(pos) = m.access /\ u2(pos + 2) = y /\ u2(pos + 4) = z /\ u2(pos + 6) = Len(s)
      /\ At(bytes, pos + 8, Rest(s, 0) \o r)
  BY <1>2, <1>3, <1>4, <1>6, NextMember_
<1>8. member_name = Text(c, m.name) /\ member_descriptor = Text(c, m.desc) /\ Refer(c, m.name, Utf8)
  <2>1. Constant(Index(c, m.name), Utf8) /\ Constant(Index(c, m.desc), Utf8)
    BY <1>1, <1>7 DEF MemberNamed
  <2>2. /\ cp[Index(c, m.name)].info = Text(c, m.name) /\ Refer(c, m.name, Utf8)
        /\ cp[Index(c, m.desc)].info = Text(c, m.desc)
    BY <1>2, <2>1, TextRead
  <2>3. member_name = cp[Index(c, m.name)].info /\ member_descriptor = cp[Index(c, m.desc)].info
    BY ONLY <1>1, <1>7 DEF member_name, member_descriptor
  <2> QED BY ONLY <2>2, <2>3
<1>9. Len(s) = 0 => At(bytes, pos + 8, r)
  BY <1>3, <1>6, <1>7, TableEnds
<1> QED BY <1>1, <1>3, <1>5, <1>7, <1>8, <1>9

LEMMA Eights ==
  ASSUME ReadingInv, NEW p, In(p), p \in {"fields", "methods"}
  PROVE  pos \in Nat /\ pos + 8 <= Len(bytes) /\ Typed /\ left \in Nat /\ left # 0
<1>1. Needed = 8 /\ phase = p
  BY DEF Needed, In
<1> QED BY <1>1 DEF In, Has, ReadingInv, Typed, Phased, Loops

LEMMA read_field_Agrees ==
  ASSUME ReadingInv, NEW c, Formed(c), Agree(c), read_field
  PROVE  Agree(c)'
<1>1. /\ phase = "fields" /\ MemberNamed /\ pos' = pos + 8 /\ attributes' = u2(pos + 6)
      /\ clazz' = [clazz EXCEPT !.fields =
                     Append(@, [name |-> member_name, descriptor |-> member_descriptor])]
      /\ IF attributes' = 0 THEN NextMember("fields", "methods_count")
         ELSE phase' = "field_attributes" /\ UNCHANGED left
      /\ pos \in Nat /\ pos + 8 <= Len(bytes) /\ Typed /\ clazz \in ClassFile_
      /\ file' = file /\ cp' = cp /\ count' = count /\ bytes' = bytes
      /\ left \in Nat /\ left # 0
  BY SameBytes, Eights DEF read_field, In, ReadingInv, Typed
<1>2. PICK m, e, f, n : /\ m = Len(c.fields) /\ f = FromMethods(c) /\ n = Len(clazz.fields)
                        /\ e = [name |-> member_name, descriptor |-> member_descriptor]
  OBVIOUS
<1>3. /\ clazz'.fields = Append(clazz.fields, e) /\ clazz.fields \in Seq(Field_)
      /\ clazz'.access_flags = clazz.access_flags /\ clazz'.this_class = clazz.this_class
      /\ clazz'.super_class = clazz.super_class /\ clazz'.interfaces = clazz.interfaces
      /\ clazz'.methods = clazz.methods /\ clazz'.bootstrap = clazz.bootstrap
  BY <1>1, <1>2 DEF ClassFile_
<1>4. m \in Nat /\ f \in Info_ /\ c.fields \in Seq(Members_(c)) /\ MembersOf(c, c.fields) \in Table_
      /\ Len(MembersOf(c, c.fields)) = m
  <2>1. c.fields \in Seq(Members_(c)) /\ f \in Info_
    BY <1>2, ClassEncoded
  <2> QED BY <1>2, <2>1, MembersEncoded
<1>5. /\ n \in Nat /\ Len(clazz'.fields) = n + 1 /\ clazz'.fields[n + 1] = e
      /\ \A i \in 1 .. n : clazz'.fields[i] = clazz.fields[i]
  BY <1>2, <1>3, Appended
<1>6. PICK k : k = n + 1
  OBVIOUS
<1>7. /\ k \in 1 .. m /\ Filled(k, m, BeforeFields, "fields", "field_attributes")'
      /\ \/ attributes' = 0 /\ k = m /\ phase' = "methods_count"
         \/ attributes' = 0 /\ k # m /\ phase' = "fields"
         \/ attributes' # 0 /\ phase' = "field_attributes"
  <2>1. Filled(n, m, BeforeFields, "fields", "field_attributes")
    BY <1>2 DEF Agree, FieldsAgree
  <2>2. /\ "fields" \notin BeforeFields /\ "field_attributes" \notin BeforeFields
        /\ "methods_count" \notin BeforeFields \cup {"fields", "field_attributes"}
        /\ "fields" # "field_attributes"
    BY DEF BeforeFields, BeforeInterfaces, BeforePool
  <2>3. n \in Nat /\ m \in Nat /\ left \in Nat /\ left # 0 /\ phase = "fields"
    BY <1>1, <1>4, <1>5
  <2>4. CASE attributes' = 0
    <3>1. left' = left - 1 /\ phase' = (IF left = 1 THEN "methods_count" ELSE "fields")
      BY <1>1, <2>4 DEF NextMember
    <3>2. /\ n + 1 \in 1 .. m /\ Filled(n + 1, m, BeforeFields, "fields", "field_attributes")'
          /\ (n + 1 = m /\ phase' = "methods_count") \/ (n + 1 # m /\ phase' = "fields")
      BY ONLY <2>1, <2>2, <2>3, <3>1, Added
    <3> QED BY <1>6, <2>4, <3>2
  <2>5. CASE attributes' # 0
    <3>1. left' = left /\ phase' = "field_attributes"
      BY <1>1, <2>5
    <3>2. n + 1 \in 1 .. m /\ Filled(n + 1, m, BeforeFields, "fields", "field_attributes")'
      BY ONLY <2>1, <2>2, <2>3, <3>1, Begun
    <3> QED BY <1>6, <2>5, <3>1, <3>2
  <2> QED BY <2>4, <2>5
<1>8. k - 1 = n /\ k \in 1 .. Len(c.fields)
  BY <1>2, <1>5, <1>6, <1>7
<1>9. PICK s : s = c.fields[k].attributes
  OBVIOUS
<1>10. PoolUpto(c, Len(c.constants))
  BY <1>1 DEF Agree, PoolAgrees, BeforePool
<1>11. /\ member_name = Text(c, c.fields[k].name) /\ member_descriptor = Text(c, c.fields[k].desc)
       /\ Refer(c, c.fields[k].name, Utf8)
       /\ attributes' = Len(s)
       /\ At(bytes, pos + 8, Rest(AttributesOf(c, s), 0) \o (Rest(MembersOf(c, c.fields), k) \o f))
       /\ Len(s) = 0 => At(bytes, pos + 8, Rest(MembersOf(c, c.fields), k) \o f)
  <2>1. At(bytes, pos, Rest(MembersOf(c, c.fields), k - 1) \o f)
    BY <1>1, <1>2, <1>8 DEF Agree, Ahead
  <2> QED BY <1>1, <1>4, <1>8, <1>9, <1>10, <2>1, MemberBegins
<1>12. FieldsAgree(c)'
  <2>1. ASSUME NEW i \in 1 .. k
        PROVE  NamesRead(c, c.fields[i], clazz'.fields[i])
    <3>1. CASE i = k
      BY <1>2, <1>5, <1>6, <1>11, <3>1 DEF NamesRead
    <3>2. CASE i # k
      <4>1. i \in 1 .. n
        BY <1>5, <1>6, <3>2
      <4> QED BY <1>2, <1>5, <4>1 DEF Agree, FieldsAgree
    <3> QED BY <3>1, <3>2
  <2>2. Len(clazz'.fields) = k
    BY <1>5, <1>6
  <2> QED BY <1>2, <1>7, <2>1, <2>2 DEF FieldsAgree, Filled, NamesRead
<1>13. /\ BehindInterfaces /\ BehindInterfaces'
       /\ phase \in BeforeMethods /\ phase' \in BeforeMethods
       /\ phase \in BeforeBootstrap /\ phase' \in BeforeBootstrap /\ phase' # "bootstrap_count"
       /\ phase \notin BeforePool \cup {"constants"} /\ phase' \notin BeforePool \cup {"constants"}
       /\ phase \notin BeforeInfo
  BY <1>1, <1>7 DEF BeforeInfo, BeforeBootstrap, BeforeMethods, BeforeFields, BeforeInterfaces,
                    BeforePool, BehindInterfaces
<1>14. InterfacesAgree(c)' /\ MethodsAgree(c)' /\ BootstrapsAgree(c)'
  BY <1>3, <1>13, Sides, SidesBehind, InterfacesKept, MethodsKept, BootstrapsKept DEF Agree
<1>15. PoolAgrees(c)' /\ InfoAgrees(c)'
  BY <1>1, <1>3, <1>13, PoolKept, InfoKept DEF Agree
<1>16. Ahead(c)'
  <2>1. Len(clazz'.fields) = k
    BY <1>5, <1>6
  <2>2. CASE attributes' = 0 /\ k # m /\ phase' = "fields"
    BY <1>1, <1>2, <1>11, <2>1, <2>2 DEF Ahead
  <2>3. CASE attributes' = 0 /\ k = m /\ phase' = "methods_count"
    <3>1. At(bytes, pos + 8, f)
      BY <1>4, <1>11, <2>3, TableEnds
    <3> QED BY <1>1, <1>2, <2>3, <3>1 DEF Ahead
  <2>4. CASE attributes' # 0 /\ phase' = "field_attributes"
    <3>1. Len(s) \in Nat
      BY <1>4, <1>8, <1>9, MembersEncoded, AttributesEncoded
    <3>2. attributes' \in 1 .. Len(s) /\ Len(s) - attributes' = 0
      BY <1>11, <2>4, <3>1
    <3>3. MemberAhead(c, c.fields, Len(clazz.fields), FromMethods(c))'
      BY <1>1, <1>2, <1>8, <1>9, <1>11, <2>1, <3>2 DEF MemberAhead
    <3> QED BY <2>4, <3>3 DEF Ahead
  <2> QED BY <1>7, <2>2, <2>3, <2>4
<1> QED BY <1>12, <1>14, <1>15, <1>16 DEF Agree

LEMMA AttributeBegins ==
  ASSUME Typed, NEW c, Formed(c), NEW s \in Seq(Attributes_(c)), NEW j \in 1 .. Len(s), NEW t \in Info_,
         At(bytes, pos, Rest(AttributesOf(c, s), j - 1) \o t), pos + 6 <= Len(bytes)
  PROVE  /\ u2(pos) = Index(c, s[j].name) /\ s[j].name \in DOMAIN c.constants
         /\ Rest(AttributesOf(c, s), j) \o t \in Info_
         /\ At(bytes, pos + 6, Content(c, s[j]) \o (Rest(AttributesOf(c, s), j) \o t))
         /\ At(bytes, attribute_end, Rest(AttributesOf(c, s), j) \o t)
         /\ j = Len(s) => At(bytes, attribute_end, t)
<1>1. PICK a, x, u, r : /\ a = s[j] /\ x = Index(c, s[j].name) /\ u = Content(c, s[j])
                        /\ r = Rest(AttributesOf(c, s), j) \o t
  OBVIOUS
<1>2. /\ AttributesOf(c, s) \in Table_ /\ Len(AttributesOf(c, s)) = Len(s) /\ a \in Attributes_(c)
      /\ AttributesOf(c, s)[j] = U2(x) \o U4(Len(u)) \o u
  BY <1>1, AttributesEncoded
<1>3. /\ a.name \in Nat /\ a.name \in DOMAIN c.constants /\ u \in Info_ /\ Len(u) \in Nat
      /\ Len(u) < Word * Word
  BY <1>1, <1>2, AttributeFormed
<1>4. x \in Int /\ pos \in Nat
  BY <1>1, <1>3, IndexOfConstant DEF Typed
<1>5. r \in Info_ /\ At(bytes, pos, (U2(x) \o U4(Len(u)) \o u) \o r)
  <2>1. PICK e, v : e = AttributesOf(c, s) /\ v = e[j]
    OBVIOUS
  <2>2. e \in Table_ /\ j \in 1 .. Len(e) /\ At(bytes, pos, Rest(e, j - 1) \o t)
    BY <1>2, <2>1
  <2>3. r \in Info_ /\ At(bytes, pos, v \o r)
    BY <1>1, <1>4, <2>1, <2>2, NextEntry
  <2> QED BY <1>2, <2>1, <2>3
<1>6. /\ u2(pos) = x /\ u4(pos + 2) = Len(u) /\ At(bytes, pos + 6, u \o r)
      /\ At(bytes, pos + 6 + Len(u), r)
  BY <1>3, <1>4, <1>5, NextAttribute
<1>7. attribute_end = pos + 6 + Len(u)
  BY <1>6 DEF attribute_end, Attribute
<1>8. j = Len(s) => r = t
  BY <1>1, <1>2, TableEnds
<1> QED BY <1>1, <1>3, <1>5, <1>6, <1>7, <1>8

LEMMA Sixes ==
  ASSUME ReadingInv, NEW p, In(p), p \in {"field_attributes", "method_attributes", "class_attributes"}
  PROVE  pos \in Nat /\ pos + 6 <= Len(bytes) /\ Typed /\ left \in Nat /\ left # 0
         /\ (p # "class_attributes" => attributes \in Nat /\ attributes # 0)
<1>1. phase = p /\ Has(Needed) /\ pos \in Nat /\ Len(bytes) \in Nat /\ Typed
  BY BytesTyped DEF In, ReadingInv, Typed
<1>2. pos + 6 <= Len(bytes)
  <2>1. CASE p # "method_attributes"
    <3>1. Needed = 6
      BY <1>1, <2>1 DEF Needed, Attribute
    <3> QED BY <1>1, <3>1 DEF Has
  <2>2. CASE p = "method_attributes"
    <3>1. Needed = IF Has(Attribute) /\ Constant(u2(pos), Utf8) /\ Named(CodeText)
                   THEN Attribute + 8 + (IF Has(Attribute + 8) THEN code_length ELSE 0)
                   ELSE Attribute
      BY <1>1, <2>2 DEF Needed
    <3>2. Has(Attribute)
      BY <1>1, <3>1
    <3> QED BY <1>1, <3>2 DEF Has, Attribute
  <2> QED BY <2>1, <2>2
<1> QED BY <1>1, <1>2 DEF ReadingInv, Typed, Phased, Loops

LEMMA read_field_attributes_Agrees ==
  ASSUME ReadingInv, NEW c, Formed(c), Agree(c), read_field_attributes
  PROVE  Agree(c)'
<1>1. /\ phase = "field_attributes" /\ pos' = attribute_end /\ attributes' = attributes - 1
      /\ IF attributes = 1 THEN NextMember("fields", "methods_count") ELSE UNCHANGED <<phase, left>>
      /\ pos \in Nat /\ pos + 6 <= Len(bytes) /\ Typed /\ attributes \in Nat /\ attributes # 0
      /\ file' = file /\ cp' = cp /\ count' = count /\ bytes' = bytes /\ clazz' = clazz
      /\ left \in Nat /\ left # 0
  BY SameBytes, Sixes DEF read_field_attributes, In
<1>2. PICK m, f, n, s : /\ m = Len(c.fields) /\ f = FromMethods(c) /\ n = Len(clazz.fields)
                        /\ s = c.fields[n].attributes
  OBVIOUS
<1>3. /\ n \in 1 .. m /\ attributes \in 1 .. Len(s)
      /\ At(bytes, pos, Rest(AttributesOf(c, s), Len(s) - attributes)
                        \o (Rest(MembersOf(c, c.fields), n) \o f))
  BY <1>1, <1>2 DEF Agree, Ahead, MemberAhead
<1>4. /\ m \in Nat /\ f \in Info_ /\ MembersOf(c, c.fields) \in Table_
      /\ Len(MembersOf(c, c.fields)) = m /\ s \in Seq(Attributes_(c)) /\ Len(s) \in Nat
  <2>1. c.fields \in Seq(Members_(c)) /\ f \in Info_
    BY <1>2, ClassEncoded
  <2> QED BY <1>2, <1>3, <2>1, MembersEncoded, AttributesEncoded
<1>5. PICK j, r : j = Len(s) - attributes + 1 /\ r = Rest(MembersOf(c, c.fields), n) \o f
  OBVIOUS
<1>6. j \in 1 .. Len(s) /\ Len(s) - attributes = j - 1 /\ r \in Info_ /\ (attributes = 1 <=> j = Len(s))
  <2>1. r \in Info_
    <3>1. n \in 0 .. Len(MembersOf(c, c.fields))
      BY <1>3, <1>4
    <3>2. Rest(MembersOf(c, c.fields), n) \in Info_
      BY <1>4, <3>1, RestOf
    <3> QED BY <1>4, <1>5, <3>2, Joined
  <2> QED BY <1>3, <1>4, <1>5, <2>1
<1>7. /\ At(bytes, attribute_end, Rest(AttributesOf(c, s), j) \o r)
      /\ j = Len(s) => At(bytes, attribute_end, r)
  <2>1. At(bytes, pos, Rest(AttributesOf(c, s), j - 1) \o r)
    BY <1>3, <1>5, <1>6
  <2> QED BY <1>1, <1>4, <1>6, <2>1, AttributeBegins
<1>8. /\ Filled(n, m, BeforeFields, "fields", "field_attributes")'
      /\ \/ attributes = 1 /\ n = m /\ phase' = "methods_count"
         \/ attributes = 1 /\ n # m /\ phase' = "fields"
         \/ attributes # 1 /\ phase' = "field_attributes"
  <2>1. Filled(n, m, BeforeFields, "fields", "field_attributes")
    BY <1>2 DEF Agree, FieldsAgree
  <2>2. /\ "fields" \notin BeforeFields /\ "field_attributes" \notin BeforeFields
        /\ "methods_count" \notin BeforeFields \cup {"fields", "field_attributes"}
        /\ "fields" # "field_attributes"
    BY DEF BeforeFields, BeforeInterfaces, BeforePool
  <2>3. n \in Nat /\ m \in Nat /\ left \in Nat /\ left # 0 /\ phase = "field_attributes"
    BY <1>1, <1>3, <1>4
  <2>4. CASE attributes = 1
    <3>1. left' = left - 1 /\ phase' = (IF left = 1 THEN "methods_count" ELSE "fields")
      BY <1>1, <2>4 DEF NextMember
    <3>2. /\ Filled(n, m, BeforeFields, "fields", "field_attributes")'
          /\ (n = m /\ phase' = "methods_count") \/ (n # m /\ phase' = "fields")
      BY ONLY <2>1, <2>2, <2>3, <3>1, Completed
    <3> QED BY <2>4, <3>2
  <2>5. CASE attributes # 1
    <3>1. left' = left /\ phase' = phase
      BY <1>1, <2>5
    <3>2. Filled(n, m, BeforeFields, "fields", "field_attributes")'
      BY ONLY <2>1, <3>1 DEF Filled
    <3> QED BY <2>3, <2>5, <3>1, <3>2
  <2> QED BY <2>4, <2>5
<1>9. FieldsAgree(c)'
  <2>1. \A i \in 1 .. Len(clazz'.fields) : NamesRead(c, c.fields[i], clazz'.fields[i])
    BY <1>1 DEF Agree, FieldsAgree
  <2> QED BY <1>1, <1>2, <1>8, <2>1 DEF FieldsAgree, Filled, NamesRead
<1>10. /\ BehindInterfaces /\ BehindInterfaces'
       /\ phase \in BeforeMethods /\ phase' \in BeforeMethods
       /\ phase \in BeforeBootstrap /\ phase' \in BeforeBootstrap /\ phase' # "bootstrap_count"
       /\ phase \notin BeforePool \cup {"constants"} /\ phase' \notin BeforePool \cup {"constants"}
       /\ phase \notin BeforeInfo
  BY <1>1, <1>8 DEF BeforeInfo, BeforeBootstrap, BeforeMethods, BeforeFields, BeforeInterfaces,
                    BeforePool, BehindInterfaces
<1>11. InterfacesAgree(c)' /\ MethodsAgree(c)' /\ BootstrapsAgree(c)'
  BY <1>1, <1>10, Sides, SidesBehind, InterfacesKept, MethodsKept, BootstrapsKept DEF Agree
<1>12. PoolAgrees(c)' /\ InfoAgrees(c)'
  BY <1>1, <1>10, PoolKept, InfoKept DEF Agree
<1>13. Ahead(c)'
  <2>1. CASE attributes = 1 /\ n # m /\ phase' = "fields"
    <3>1. At(bytes', pos', Rest(MembersOf(c, c.fields), Len(clazz'.fields)) \o FromMethods(c))
      BY <1>1, <1>2, <1>5, <1>6, <1>7, <2>1
    <3> QED BY <2>1, <3>1 DEF Ahead
  <2>2. CASE attributes = 1 /\ n = m /\ phase' = "methods_count"
    <3>1. r = f
      BY <1>4, <1>5, <2>2, TableEnds
    <3> QED BY <1>1, <1>2, <1>6, <1>7, <2>2, <3>1 DEF Ahead
  <2>3. CASE attributes # 1 /\ phase' = "field_attributes"
    <3>1. attributes' \in 1 .. Len(s) /\ Len(s) - attributes' = j
      BY <1>1, <1>3, <1>4, <1>5, <2>3
    <3>2. MemberAhead(c, c.fields, Len(clazz.fields), FromMethods(c))'
      BY <1>1, <1>2, <1>3, <1>5, <1>7, <3>1 DEF MemberAhead
    <3> QED BY <2>3, <3>2 DEF Ahead
  <2> QED BY <1>8, <2>1, <2>2, <2>3
<1> QED BY <1>9, <1>11, <1>12, <1>13 DEF Agree

LEMMA read_method_Agrees ==
  ASSUME ReadingInv, NEW c, Formed(c), Agree(c), read_method
  PROVE  Agree(c)'
<1>1. /\ phase = "methods" /\ MemberNamed /\ pos' = pos + 8 /\ attributes' = u2(pos + 6)
      /\ clazz' = [clazz EXCEPT !.methods =
                     Append(@, [name |-> member_name, descriptor |-> member_descriptor,
                                access_flag |-> u2(pos), code |-> NoCode])]
      /\ IF attributes' = 0 THEN NextMember("methods", "attributes_count")
         ELSE phase' = "method_attributes" /\ UNCHANGED left
      /\ pos \in Nat /\ pos + 8 <= Len(bytes) /\ Typed /\ clazz \in ClassFile_
      /\ file' = file /\ cp' = cp /\ count' = count /\ bytes' = bytes
      /\ left \in Nat /\ left # 0
  BY SameBytes, Eights DEF read_method, In, ReadingInv, Typed
<1>2. PICK m, e, f, n : /\ m = Len(c.methods) /\ f = FromAttributes(c) /\ n = Len(clazz.methods)
                        /\ e = [name |-> member_name, descriptor |-> member_descriptor,
                                access_flag |-> u2(pos), code |-> NoCode]
  OBVIOUS
<1>3. /\ clazz'.methods = Append(clazz.methods, e) /\ clazz.methods \in Seq(Method_)
      /\ clazz'.access_flags = clazz.access_flags /\ clazz'.this_class = clazz.this_class
      /\ clazz'.super_class = clazz.super_class /\ clazz'.interfaces = clazz.interfaces
      /\ clazz'.fields = clazz.fields /\ clazz'.bootstrap = clazz.bootstrap
  BY <1>1, <1>2 DEF ClassFile_
<1>4. m \in Nat /\ f \in Info_ /\ c.methods \in Seq(Members_(c)) /\ MembersOf(c, c.methods) \in Table_
      /\ Len(MembersOf(c, c.methods)) = m
  <2>1. c.methods \in Seq(Members_(c)) /\ f \in Info_
    BY <1>2, ClassEncoded
  <2> QED BY <1>2, <2>1, MembersEncoded
<1>5. /\ n \in Nat /\ Len(clazz'.methods) = n + 1 /\ clazz'.methods[n + 1] = e
      /\ \A i \in 1 .. n : clazz'.methods[i] = clazz.methods[i]
  BY <1>2, <1>3, Appended
<1>6. PICK k : k = n + 1
  OBVIOUS
<1>7. /\ k \in 1 .. m /\ Filled(k, m, BeforeMethods, "methods", "method_attributes")'
      /\ \/ attributes' = 0 /\ k = m /\ phase' = "attributes_count"
         \/ attributes' = 0 /\ k # m /\ phase' = "methods"
         \/ attributes' # 0 /\ phase' = "method_attributes"
  <2>1. Filled(n, m, BeforeMethods, "methods", "method_attributes")
    BY <1>2 DEF Agree, MethodsAgree
  <2>2. /\ "methods" \notin BeforeMethods /\ "method_attributes" \notin BeforeMethods
        /\ "attributes_count" \notin BeforeMethods \cup {"methods", "method_attributes"}
        /\ "methods" # "method_attributes"
    BY DEF BeforeMethods, BeforeFields, BeforeInterfaces, BeforePool
  <2>3. n \in Nat /\ m \in Nat /\ left \in Nat /\ left # 0 /\ phase = "methods"
    BY <1>1, <1>4, <1>5
  <2>4. CASE attributes' = 0
    <3>1. left' = left - 1 /\ phase' = (IF left = 1 THEN "attributes_count" ELSE "methods")
      BY <1>1, <2>4 DEF NextMember
    <3>2. /\ n + 1 \in 1 .. m /\ Filled(n + 1, m, BeforeMethods, "methods", "method_attributes")'
          /\ (n + 1 = m /\ phase' = "attributes_count") \/ (n + 1 # m /\ phase' = "methods")
      BY ONLY <2>1, <2>2, <2>3, <3>1, Added
    <3> QED BY <1>6, <2>4, <3>2
  <2>5. CASE attributes' # 0
    <3>1. left' = left /\ phase' = "method_attributes"
      BY <1>1, <2>5
    <3>2. n + 1 \in 1 .. m /\ Filled(n + 1, m, BeforeMethods, "methods", "method_attributes")'
      BY ONLY <2>1, <2>2, <2>3, <3>1, Begun
    <3> QED BY <1>6, <2>5, <3>1, <3>2
  <2> QED BY <2>4, <2>5
<1>8. k - 1 = n /\ k \in 1 .. Len(c.methods)
  BY <1>2, <1>5, <1>6, <1>7
<1>9. PICK s : s = c.methods[k].attributes
  OBVIOUS
<1>10. PoolUpto(c, Len(c.constants))
  BY <1>1 DEF Agree, PoolAgrees, BeforePool
<1>11. /\ u2(pos) = c.methods[k].access
       /\ member_name = Text(c, c.methods[k].name) /\ member_descriptor = Text(c, c.methods[k].desc)
       /\ Refer(c, c.methods[k].name, Utf8)
       /\ attributes' = Len(s)
       /\ At(bytes, pos + 8, Rest(AttributesOf(c, s), 0) \o (Rest(MembersOf(c, c.methods), k) \o f))
       /\ Len(s) = 0 => At(bytes, pos + 8, Rest(MembersOf(c, c.methods), k) \o f)
  <2>1. At(bytes, pos, Rest(MembersOf(c, c.methods), k - 1) \o f)
    BY <1>1, <1>2, <1>8 DEF Agree, Ahead
  <2> QED BY <1>1, <1>4, <1>8, <1>9, <1>10, <2>1, MemberBegins
<1>12. Len(s) \in Nat
  BY <1>4, <1>8, <1>9, MembersEncoded, AttributesEncoded
<1>13. Len(clazz'.methods) = k
  BY <1>5, <1>6
<1>14. MethodsAgree(c)'
  <2>1. ASSUME NEW i \in 1 .. k
        PROVE  /\ NamesRead(c, c.methods[i], clazz'.methods[i])
               /\ clazz'.methods[i].access_flag = c.methods[i].access
               /\ CodeUpto(c.methods[i].attributes, Passed(c, i)', clazz'.methods[i].code)
    <3>1. CASE i = k
      <4>1. clazz'.methods[i] = e
        BY <1>5, <1>6, <3>1
      <4>2. Passed(c, i)' = 0
        BY <1>7, <1>9, <1>11, <1>12, <1>13, <3>1 DEF Passed
      <4>3. CodeUpto(c.methods[i].attributes, 0, NoCode)
        <5>1. 1 .. 0 = {}
          OBVIOUS
        <5> QED BY <5>1 DEF CodeUpto
      <4> QED BY <1>2, <1>11, <3>1, <4>1, <4>2, <4>3 DEF NamesRead
    <3>2. CASE i # k
      <4>1. i \in 1 .. n /\ clazz'.methods[i] = clazz.methods[i]
        BY <1>5, <1>6, <3>2
      <4>2. Passed(c, i)' = Passed(c, i)
        BY <1>1, <1>13, <3>2 DEF Passed
      <4> QED BY <1>2, <4>1, <4>2 DEF Agree, MethodsAgree
    <3> QED BY <3>1, <3>2
  <2> QED BY <1>2, <1>7, <1>13, <2>1 DEF MethodsAgree, Filled, NamesRead
<1>15. /\ BehindInterfaces /\ BehindInterfaces' /\ BehindFields /\ BehindFields'
       /\ phase \in BeforeBootstrap /\ phase' \in BeforeBootstrap /\ phase' # "bootstrap_count"
       /\ phase \notin BeforePool \cup {"constants"} /\ phase' \notin BeforePool \cup {"constants"}
       /\ phase \notin BeforeInfo
  BY <1>1, <1>7 DEF BeforeInfo, BeforeBootstrap, BeforeMethods, BeforeFields, BeforeInterfaces,
                    BeforePool, BehindInterfaces, BehindFields
<1>16. InterfacesAgree(c)' /\ FieldsAgree(c)' /\ BootstrapsAgree(c)'
  BY <1>3, <1>15, Sides, SidesBehind, InterfacesKept, FieldsKept, BootstrapsKept DEF Agree
<1>17. PoolAgrees(c)' /\ InfoAgrees(c)'
  BY <1>1, <1>3, <1>15, PoolKept, InfoKept DEF Agree
<1>18. Ahead(c)'
  <2>1. CASE attributes' = 0 /\ k # m /\ phase' = "methods"
    BY <1>1, <1>2, <1>11, <1>13, <2>1 DEF Ahead
  <2>2. CASE attributes' = 0 /\ k = m /\ phase' = "attributes_count"
    <3>1. At(bytes, pos + 8, f)
      BY <1>4, <1>11, <2>2, TableEnds
    <3> QED BY <1>1, <1>2, <2>2, <3>1 DEF Ahead
  <2>3. CASE attributes' # 0 /\ phase' = "method_attributes"
    <3>1. attributes' \in 1 .. Len(s) /\ Len(s) - attributes' = 0
      BY <1>11, <1>12, <2>3
    <3>2. MemberAhead(c, c.methods, Len(clazz.methods), FromAttributes(c))'
      BY <1>1, <1>2, <1>8, <1>9, <1>11, <1>13, <3>1 DEF MemberAhead
    <3> QED BY <2>3, <3>2 DEF Ahead
  <2> QED BY <1>7, <2>1, <2>2, <2>3
<1> QED BY <1>14, <1>16, <1>17, <1>18 DEF Agree

-----------------------------------------------------------------------------
\* The code of a method.
LEMMA CodeDecoded ==
  ASSUME Typed, NEW p \in Nat, NEW x \in Int, NEW y \in Int, NEW u \in Info_, Len(u) < Word * Word,
         NEW v \in Info_, NEW t \in Info_, p + 8 <= Len(bytes), p + 8 + u4(p + 4) <= Len(bytes),
         At(bytes, p, (U2(x) \o U2(y) \o U4(Len(u)) \o u \o v) \o t)
  PROVE  u2(p) = x /\ u2(p + 2) = y /\ Bytes(p + 8, u4(p + 4)) = u
<1>1. PICK n, r, s : n = Len(u) /\ r = U2(x) \o U2(y) /\ s = U4(n)
  OBVIOUS
<1>2. n \in Nat /\ n \in Int
  BY <1>1 DEF Info_
<1>3. r \in Info_ /\ s \in Info_
  <2>1. U2(x) \in Info_ /\ U2(y) \in Info_
    BY U2Typed
  <2> QED BY <1>1, <1>2, <2>1, Joined, U4Typed
<1>4. PICK w, z, q : w = v \o t /\ z = u \o w /\ q = s \o z
  OBVIOUS
<1>5. w \in Info_
  BY <1>4, Joined
<1>6. z \in Info_
  BY <1>4, <1>5, Joined
<1>7. q \in Info_
  BY <1>3, <1>4, <1>6, Joined
<1>8. (((r \o s) \o u) \o v) \o t = r \o q
  <2>1. PICK a, b : a = r \o s /\ b = a \o u
    OBVIOUS
  <2>2. a \in Info_
    BY <1>3, <2>1, Joined
  <2>3. b \in Info_
    BY <2>1, <2>2, Joined
  <2>4. (b \o v) \o t = b \o w
    BY <1>4, <2>3, Regrouped
  <2>5. b \o w = a \o z
    BY <1>4, <1>5, <2>1, <2>2, Regrouped
  <2>6. a \o z = r \o q
    <3>1. (r \o s) \o z = r \o (s \o z)
      <4>1. Joint(Joint(r, s), z) = Joint(r, Joint(s, z))
        BY ONLY <1>3, <1>6, JointRegrouped
      <4> QED BY ONLY <4>1 DEF Joint
    <3> QED BY ONLY <1>4, <2>1, <3>1
  <2> QED BY <2>1, <2>4, <2>5, <2>6
<1>9. At(bytes, p, (U2(x) \o U2(y)) \o q)
  BY <1>1, <1>8
<1>10. /\ Len(bytes) \in Nat /\ p + 4 <= Len(bytes) /\ p + 4 \in Nat /\ (p + 4) + 4 <= Len(bytes)
       /\ (p + 4) + 4 = p + 8 /\ p + 8 \in Nat
  BY BytesTyped
<1>11. u2(p) = x /\ u2(p + 2) = y /\ At(bytes, p + 4, q)
  BY <1>7, <1>9, <1>10, NextPair
<1>12. u4(p + 4) = n /\ At(bytes, p + 8, z)
  BY <1>1, <1>2, <1>4, <1>6, <1>10, <1>11, NextFour
<1>13. At(bytes, p + 8, u)
  BY <1>4, <1>5, <1>10, <1>12, AtJoin
<1>14. Bytes(p + 8, n) = u
  <2>1. u \in Seq(Int) /\ p + 8 + Len(u) <= Len(bytes)
    BY <1>1, <1>12 DEF Info_
  <2> QED BY <1>1, <1>10, <1>13, <2>1, ReadBytes
<1> QED BY <1>11, <1>12, <1>14

\* Code that has been found is no NULL.
LEMMA CodeFound ==
  ASSUME NEW c, Formed(c), NEW s \in Seq(Attributes_(c)), NEW j \in Nat, j <= Len(s),
         NEW code, CodeUpto(s, j, code), code.code = NULL
  PROVE  code = NoCode /\ \A i \in 1 .. j : s[i].kind # "Code"
<1>1. ASSUME NEW i \in 1 .. j, s[i].kind = "Code", code.code = s[i].code
      PROVE  FALSE
  <2>1. i \in 1 .. Len(s)
    OBVIOUS
  <2>2. s[i] \in Attributes_(c)
    BY <2>1
  <2>3. s[i].code \in Seq(U1s)
    BY <1>1, <2>2, AttributeFormed
  <2>4. NULL \in Seq(U1s) /\ Len(NULL) = 2 /\ NULL[1] = -1
    BY <1>1, <2>3 DEF NULL
  <2>5. NULL[1] \in U1s
    <3>1. PICK w : w = NULL
      OBVIOUS
    <3>2. w \in Seq(U1s) /\ 1 \in 1 .. Len(w)
      <4>1. w \in Seq(U1s) /\ Len(w) = 2
        BY <2>4, <3>1
      <4> QED BY ONLY <4>1
    <3>3. w[1] \in U1s
      BY <3>2, ElementOfSeq
    <3> QED BY <3>1, <3>3
  <2> QED BY <2>4, <2>5, WordNat DEF U1s
<1> QED BY <1>1 DEF CodeUpto

LEMMA CodeShorter ==
  ASSUME NEW x \in Int, NEW y \in Int, NEW u \in Info_, NEW v \in Info_,
         Len(U2(x) \o U2(y) \o U4(Len(u)) \o u \o v) < Word * Word
  PROVE  Len(u) < Word * Word
<1>1. PICK n, r, b, a, w : /\ n = Len(u) /\ r = (U2(x) \o U2(y)) \o U4(n) /\ b = r \o u /\ a = b \o v
                           /\ w = Word * Word
  OBVIOUS
<1>2. r \in Info_
  <2>1. n \in Int
    BY <1>1 DEF Info_
  <2>2. U2(x) \in Info_ /\ U2(y) \in Info_ /\ U4(n) \in Info_
    BY <2>1, U2Typed, U4Typed
  <2>3. U2(x) \o U2(y) \in Info_
    BY ONLY <2>2, Joined
  <2> QED BY ONLY <1>1, <2>2, <2>3, Joined
<1>3. b \in Info_ /\ Len(r) \in Nat /\ n \in Nat /\ Len(b) = Len(r) + n
  BY <1>1, <1>2, Joined
<1>4. Len(v) \in Nat /\ Len(a) = Len(b) + Len(v)
  BY <1>1, <1>3, Joined
<1>5. Len(a) < w /\ w \in Nat
  BY <1>1, WordNat
<1>6. n < w
  BY ONLY <1>3, <1>4, <1>5
<1> QED BY <1>1, <1>6

LEMMA CodeThere ==
  ASSUME ReadingInv, read_method_attributes, Named(CodeText)
  PROVE  /\ pos + Attribute \in Nat /\ (pos + Attribute) + 8 <= Len(bytes)
         /\ (pos + Attribute) + 8 + u4((pos + Attribute) + 4) <= Len(bytes)
<1>1. /\ Constant(u2(pos), Utf8) /\ Has(Needed) /\ Len(bytes) \in Nat /\ pos \in Nat
      /\ phase = "method_attributes" /\ Typed /\ pos + 6 <= Len(bytes)
  BY BytesTyped, Sixes DEF read_method_attributes, In, ReadingInv, Typed
<1>2. Needed = IF Has(Attribute) /\ Constant(u2(pos), Utf8) /\ Named(CodeText)
               THEN Attribute + 8 + (IF Has(Attribute + 8) THEN code_length ELSE 0)
               ELSE Attribute
  BY <1>1 DEF Needed
<1>3. Has(Attribute)
  BY <1>1 DEF Has, Attribute
<1>4. Needed = Attribute + 8 + (IF Has(Attribute + 8) THEN code_length ELSE 0)
  BY <1>1, <1>2, <1>3
<1>5. Has(Attribute + 8)
  <2>1. CASE ~Has(Attribute + 8)
    <3>1. Needed = Attribute + 8
      BY <1>4, <2>1 DEF Attribute
    <3> QED BY <1>1, <2>1, <3>1
  <2> QED BY <2>1
<1>6. pos + 14 <= Len(bytes)
  BY <1>1, <1>5 DEF Has, Attribute
<1>7. code_length = u4((pos + Attribute) + 4) /\ code_length \in Nat
  <2>1. pos + 10 \in Nat /\ (pos + 10) + 4 <= Len(bytes) /\ pos + Attribute + 4 = pos + 10
    BY <1>1, <1>6 DEF Attribute
  <2> QED BY <1>1, <2>1, Reads DEF code_length
<1>8. pos + (6 + 8 + code_length) <= Len(bytes)
  BY <1>1, <1>4, <1>5 DEF Has, Attribute
<1>9. pos + 6 \in Nat /\ (pos + 6) + 8 <= Len(bytes) /\ (pos + 6) + 8 + code_length <= Len(bytes)
  BY ONLY <1>1, <1>6, <1>7, <1>8
<1> QED BY <1>7, <1>9 DEF Attribute

LEMMA read_method_attributes_Agrees ==
  ASSUME ReadingInv, NEW c, Formed(c), Agree(c), read_method_attributes
  PROVE  Agree(c)'
<1>1. /\ phase = "method_attributes" /\ pos' = attribute_end /\ attributes' = attributes - 1
      /\ IF attributes = 1 THEN NextMember("methods", "attributes_count") ELSE UNCHANGED <<phase, left>>
      /\ pos \in Nat /\ pos + 6 <= Len(bytes) /\ Typed /\ attributes \in Nat /\ attributes # 0
      /\ file' = file /\ cp' = cp /\ count' = count /\ bytes' = bytes /\ clazz \in ClassFile_
      /\ left \in Nat /\ left # 0 /\ Constant(u2(pos), Utf8)
  BY SameBytes, Sixes DEF read_method_attributes, In, ReadingInv, Typed
<1>2. PICK m, f, n, s : /\ m = Len(c.methods) /\ f = FromAttributes(c) /\ n = Len(clazz.methods)
                        /\ s = c.methods[n].attributes
  OBVIOUS
<1>3. /\ n \in 1 .. m /\ attributes \in 1 .. Len(s)
      /\ At(bytes, pos, Rest(AttributesOf(c, s), Len(s) - attributes)
                        \o (Rest(MembersOf(c, c.methods), n) \o f))
  BY <1>1, <1>2 DEF Agree, Ahead, MemberAhead
<1>4. /\ m \in Nat /\ f \in Info_ /\ MembersOf(c, c.methods) \in Table_
      /\ Len(MembersOf(c, c.methods)) = m /\ s \in Seq(Attributes_(c)) /\ Len(s) \in Nat
  <2>1. c.methods \in Seq(Members_(c)) /\ f \in Info_
    BY <1>2, ClassEncoded
  <2> QED BY <1>2, <1>3, <2>1, MembersEncoded, AttributesEncoded
<1>5. PICK j, r : j = Len(s) - attributes + 1 /\ r = Rest(MembersOf(c, c.methods), n) \o f
  OBVIOUS
<1>6. /\ j \in 1 .. Len(s) /\ Len(s) - attributes = j - 1 /\ r \in Info_ /\ (attributes = 1 <=> j = Len(s))
      /\ j - 1 \in Nat /\ j - 1 <= Len(s)
  <2>1. r \in Info_
    <3>1. n \in 0 .. Len(MembersOf(c, c.methods))
      BY <1>3, <1>4
    <3>2. Rest(MembersOf(c, c.methods), n) \in Info_
      BY <1>4, <3>1, RestOf
    <3> QED BY <1>4, <1>5, <3>2, Joined
  <2> QED BY <1>3, <1>4, <1>5, <2>1
<1>7. /\ u2(pos) = Index(c, s[j].name) /\ s[j].name \in DOMAIN c.constants
      /\ Rest(AttributesOf(c, s), j) \o r \in Info_
      /\ At(bytes, pos + 6, Content(c, s[j]) \o (Rest(AttributesOf(c, s), j) \o r))
      /\ At(bytes, attribute_end, Rest(AttributesOf(c, s), j) \o r)
      /\ j = Len(s) => At(bytes, attribute_end, r)
  <2>1. At(bytes, pos, Rest(AttributesOf(c, s), j - 1) \o r)
    BY <1>3, <1>5, <1>6
  <2> QED BY <1>1, <1>4, <1>6, <2>1, AttributeBegins
<1>8. /\ Filled(n, m, BeforeMethods, "methods", "method_attributes")'
      /\ \/ attributes = 1 /\ n = m /\ phase' = "attributes_count"
         \/ attributes = 1 /\ n # m /\ phase' = "methods"
         \/ attributes # 1 /\ phase' = "method_attributes"
  <2>1. Filled(n, m, BeforeMethods, "methods", "method_attributes")
    BY <1>2 DEF Agree, MethodsAgree
  <2>2. /\ "methods" \notin BeforeMethods /\ "method_attributes" \notin BeforeMethods
        /\ "attributes_count" \notin BeforeMethods \cup {"methods", "method_attributes"}
        /\ "methods" # "method_attributes"
    BY DEF BeforeMethods, BeforeFields, BeforeInterfaces, BeforePool
  <2>3. n \in Nat /\ m \in Nat /\ left \in Nat /\ left # 0 /\ phase = "method_attributes"
    BY <1>1, <1>3, <1>4
  <2>4. CASE attributes = 1
    <3>1. left' = left - 1 /\ phase' = (IF left = 1 THEN "attributes_count" ELSE "methods")
      BY <1>1, <2>4 DEF NextMember
    <3>2. /\ Filled(n, m, BeforeMethods, "methods", "method_attributes")'
          /\ (n = m /\ phase' = "attributes_count") \/ (n # m /\ phase' = "methods")
      BY ONLY <2>1, <2>2, <2>3, <3>1, Completed
    <3> QED BY <2>4, <3>2
  <2>5. CASE attributes # 1
    <3>1. left' = left /\ phase' = phase
      BY <1>1, <2>5
    <3>2. Filled(n, m, BeforeMethods, "methods", "method_attributes")'
      BY ONLY <2>1, <3>1 DEF Filled
    <3> QED BY <2>3, <2>5, <3>1, <3>2
  <2> QED BY <2>4, <2>5
<1>9. PICK old : old = clazz.methods[n]
  OBVIOUS
<1>10. /\ CodeUpto(s, j - 1, old.code) /\ NamesRead(c, c.methods[n], old)
       /\ old.access_flag = c.methods[n].access /\ old \in Method_
       /\ clazz.methods \in Seq(Method_)
  <2>1. Passed(c, n) = j - 1
    BY <1>1, <1>2, <1>6 DEF Passed
  <2>2. clazz.methods \in Seq(Method_)
    BY <1>1 DEF ClassFile_
  <2>3. old \in Method_
    BY <1>2, <1>3, <1>9, <2>2, ElementOfSeq
  <2> QED BY <1>2, <1>3, <1>9, <2>1, <2>2, <2>3 DEF Agree, MethodsAgree
<1>11. Named(CodeText) <=> s[j].kind = "Code"
  <2>1. PoolUpto(c, Len(c.constants))
    BY <1>1 DEF Agree, PoolAgrees, BeforePool
  <2>2. Refer(c, s[j].name, Utf8) /\ cp[u2(pos)].info = Text(c, s[j].name)
    BY <1>1, <1>7, <2>1, TextRead
  <2>3. NamedAsKind(c, s[j], "Code", CodeText)
    <3>1. n \in DOMAIN c.methods /\ j \in DOMAIN s
      <4>1. c.methods \in Seq(Members_(c))
        BY DEF Formed
      <4> QED BY <1>2, <1>3, <1>4, <1>6, <4>1
    <3> QED BY <1>2, <3>1 DEF Formed
  <2> QED BY <2>2, <2>3 DEF Named, NamedAsKind, Text
<1>12. PICK new : new = IF Named(CodeText)
                        THEN [old EXCEPT !.code =
                                [max_stack |-> u2(pos + Attribute), max_locals |-> u2(pos + Attribute + 2),
                                 code |-> Bytes(pos + Attribute + 8, code_length)]]
                        ELSE old
  OBVIOUS
<1>13. /\ clazz'.methods = [clazz.methods EXCEPT ![n] = new]
       /\ clazz'.access_flags = clazz.access_flags /\ clazz'.this_class = clazz.this_class
       /\ clazz'.super_class = clazz.super_class /\ clazz'.interfaces = clazz.interfaces
       /\ clazz'.fields = clazz.fields /\ clazz'.bootstrap = clazz.bootstrap
  <2>1. CASE Named(CodeText)
    <3>1. PICK code_ : code_ = [max_stack |-> u2(pos + Attribute), max_locals |-> u2(pos + Attribute + 2),
                                code |-> Bytes(pos + Attribute + 8, code_length)]
      OBVIOUS
    <3>2. clazz' = [clazz EXCEPT !.methods[n].code = code_]
      BY <1>2, <2>1, <3>1 DEF read_method_attributes, method
    <3>3. new = [old EXCEPT !.code = code_]
      BY <1>12, <2>1, <3>1
    <3> QED BY <1>1, <1>9, <3>2, <3>3 DEF ClassFile_
  <2>2. CASE ~Named(CodeText)
    <3>1. clazz' = clazz /\ new = clazz.methods[n]
      BY <1>9, <1>12, <2>2 DEF read_method_attributes
    <3> QED BY <1>10, <3>1
  <2> QED BY <2>1, <2>2
<1>14. /\ new.name = old.name /\ new.descriptor = old.descriptor /\ new.access_flag = old.access_flag
  BY <1>10, <1>12 DEF Method_
<1>15. CodeUpto(s, j, new.code)
  <2>1. CASE Named(CodeText)
    <3>1. s[j].kind = "Code"
      BY <1>11, <2>1
    <3>2. old.code = NoCode /\ \A i \in 1 .. j - 1 : s[i].kind # "Code"
      <4>1. old.code.code = NULL
        BY <1>2, <1>9, <2>1 DEF read_method_attributes, found_code, method
      <4> QED BY <1>4, <1>6, <1>10, <4>1, CodeFound
    <3>3. PICK a, x, y, u, v, p, t : /\ a = s[j] /\ x = a.max_stack /\ y = a.max_locals /\ u = a.code
                                     /\ v = a.rest /\ p = pos + Attribute
                                     /\ t = Rest(AttributesOf(c, s), j) \o r
      OBVIOUS
    <3>4. /\ x \in Int /\ y \in Int /\ u \in Info_ /\ v \in Info_
          /\ Content(c, a) = U2(x) \o U2(y) \o U4(Len(u)) \o u \o v
          /\ Len(Content(c, a)) < Word * Word
      <4>1. a \in Attributes_(c)
        BY <1>4, <1>6, <3>3, ElementOfSeq
      <4> QED BY <3>1, <3>3, <4>1, AttributeFormed
    <3>5. Len(u) < Word * Word
      BY <3>4, CodeShorter
    <3>6. At(bytes, p, (U2(x) \o U2(y) \o U4(Len(u)) \o u \o v) \o t)
      BY <1>7, <3>3, <3>4 DEF Attribute
    <3>7. p \in Nat /\ p + 8 <= Len(bytes) /\ p + 8 + u4(p + 4) <= Len(bytes)
      BY <2>1, <3>3, CodeThere
    <3>8. t \in Info_
      BY <1>7, <3>3
    <3>9. u2(p) = x /\ u2(p + 2) = y /\ Bytes(p + 8, u4(p + 4)) = u
      BY <1>1, <3>4, <3>5, <3>6, <3>7, <3>8, CodeDecoded
    <3>10. code_length = u4(p + 4)
      BY <3>3 DEF code_length
    <3>11. new.code = [max_stack |-> x, max_locals |-> y, code |-> u]
      BY <1>10, <1>12, <2>1, <3>3, <3>9, <3>10 DEF Method_
    <3>12. j \in 1 .. j
      BY <1>6
    <3> QED BY <3>1, <3>2, <3>3, <3>11, <3>12 DEF CodeUpto
  <2>2. CASE ~Named(CodeText)
    <3>1. s[j].kind # "Code" /\ new = old
      BY <1>11, <1>12, <2>2
    <3>2. 1 .. j = (1 .. j - 1) \cup {j}
      BY <1>6
    <3> QED BY <1>10, <3>1, <3>2 DEF CodeUpto
  <2> QED BY <2>1, <2>2
<1>16. /\ Len(clazz'.methods) = n /\ clazz'.methods[n] = new
       /\ \A i \in 1 .. n : i # n => clazz'.methods[i] = clazz.methods[i]
  BY <1>2, <1>3, <1>10, <1>13
<1>17. MethodsAgree(c)'
  <2>1. ASSUME NEW i \in 1 .. n
        PROVE  /\ NamesRead(c, c.methods[i], clazz'.methods[i])
               /\ clazz'.methods[i].access_flag = c.methods[i].access
               /\ CodeUpto(c.methods[i].attributes, Passed(c, i)', clazz'.methods[i].code)
    <3>1. CASE i = n
      <4>1. Passed(c, i)' = j
        <5>1. CASE attributes = 1
          <6>1. phase' # "method_attributes" /\ Len(s) = j
            BY <1>6, <1>8, <5>1
          <6> QED BY <1>2, <3>1, <6>1 DEF Passed
        <5>2. CASE attributes # 1
          <6>1. phase' = "method_attributes" /\ Len(s) - attributes' = j
            BY <1>1, <1>4, <1>5, <1>8, <5>2
          <6> QED BY <1>2, <1>16, <3>1, <6>1 DEF Passed
        <5> QED BY <5>1, <5>2
      <4> QED BY <1>2, <1>10, <1>14, <1>15, <1>16, <3>1, <4>1 DEF NamesRead
    <3>2. CASE i # n
      <4>1. Passed(c, i)' = Passed(c, i)
        BY <1>2, <1>16, <3>2 DEF Passed
      <4> QED BY <1>2, <1>16, <3>2, <4>1 DEF Agree, MethodsAgree
    <3> QED BY <3>1, <3>2
  <2> QED BY <1>2, <1>8, <1>16, <2>1 DEF MethodsAgree, Filled, NamesRead
<1>18. /\ BehindInterfaces /\ BehindInterfaces' /\ BehindFields /\ BehindFields'
       /\ phase \in BeforeBootstrap /\ phase' \in BeforeBootstrap /\ phase' # "bootstrap_count"
       /\ phase \notin BeforePool \cup {"constants"} /\ phase' \notin BeforePool \cup {"constants"}
       /\ phase \notin BeforeInfo
  BY <1>1, <1>8 DEF BeforeInfo, BeforeBootstrap, BeforeMethods, BeforeFields, BeforeInterfaces,
                    BeforePool, BehindInterfaces, BehindFields
<1>19. InterfacesAgree(c)' /\ FieldsAgree(c)' /\ BootstrapsAgree(c)'
  BY <1>13, <1>18, Sides, SidesBehind, InterfacesKept, FieldsKept, BootstrapsKept DEF Agree
<1>20. PoolAgrees(c)' /\ InfoAgrees(c)'
  BY <1>1, <1>13, <1>18, PoolKept, InfoKept DEF Agree
<1>21. Ahead(c)'
  <2>1. CASE attributes = 1 /\ n # m /\ phase' = "methods"
    <3>1. At(bytes', pos', Rest(MembersOf(c, c.methods), Len(clazz'.methods)) \o FromAttributes(c))
      BY <1>1, <1>2, <1>5, <1>6, <1>7, <1>16, <2>1
    <3> QED BY <2>1, <3>1 DEF Ahead
  <2>2. CASE attributes = 1 /\ n = m /\ phase' = "attributes_count"
    <3>1. r = f
      BY <1>4, <1>5, <2>2, TableEnds
    <3> QED BY <1>1, <1>2, <1>6, <1>7, <2>2, <3>1 DEF Ahead
  <2>3. CASE attributes # 1 /\ phase' = "method_attributes"
    <3>1. attributes' \in 1 .. Len(s) /\ Len(s) - attributes' = j
      BY <1>1, <1>3, <1>4, <1>5, <2>3
    <3>2. MemberAhead(c, c.methods, Len(clazz.methods), FromAttributes(c))'
      BY <1>1, <1>2, <1>3, <1>5, <1>7, <1>16, <3>1 DEF MemberAhead
    <3> QED BY <2>3, <3>2 DEF Ahead
  <2> QED BY <1>8, <2>1, <2>2, <2>3
<1> QED BY <1>17, <1>19, <1>20, <1>21 DEF Agree

-----------------------------------------------------------------------------
\* The attributes of the class, and its bootstrap methods.
BehindBootstrap ==
    phase \notin BeforeBootstrap \cup {"bootstrap_count", "bootstrap_methods", "bootstrap_arguments"}

Late == {"attributes_count", "class_attributes", "bootstrap_count", "bootstrap_methods",
         "bootstrap_arguments", "read", "loaded", "freeing", "freed"}

LEMMA LateKept ==
  ASSUME NEW c, Agree(c), cp' = cp, count' = count, phase \in Late, phase' \in Late,
         clazz'.access_flags = clazz.access_flags, clazz'.this_class = clazz.this_class,
         clazz'.super_class = clazz.super_class, clazz'.interfaces = clazz.interfaces,
         clazz'.fields = clazz.fields, clazz'.methods = clazz.methods
  PROVE  /\ PoolAgrees(c)' /\ InfoAgrees(c)' /\ InterfacesAgree(c)' /\ FieldsAgree(c)'
         /\ MethodsAgree(c)'
<1>1. /\ BehindInterfaces /\ BehindInterfaces' /\ BehindFields /\ BehindFields'
      /\ BehindMethods /\ BehindMethods'
      /\ phase \notin BeforePool \cup {"constants"} /\ phase' \notin BeforePool \cup {"constants"}
      /\ phase \notin BeforeInfo
  BY DEF Late, BeforeInfo, BeforeMethods, BeforeFields, BeforeInterfaces, BeforePool,
         BehindInterfaces, BehindFields, BehindMethods
<1>2. InterfacesAgree(c)' /\ FieldsAgree(c)' /\ MethodsAgree(c)'
  BY <1>1, SidesBehind, InterfacesKept, FieldsKept, MethodsKept DEF Agree
<1>3. PoolAgrees(c)' /\ InfoAgrees(c)'
  BY <1>1, PoolKept, InfoKept DEF Agree
<1> QED BY <1>2, <1>3

\* The first BootstrapMethods are the bootstrap methods of the class.
LEMMA FirstBootstraps ==
  ASSUME NEW c, Formed(c), NEW j \in 1 .. Len(c.attributes),
         c.attributes[j].kind = "BootstrapMethods",
         \A i \in 1 .. j - 1 : c.attributes[i].kind # "BootstrapMethods"
  PROVE  HasBootstraps(c) /\ BootstrapMethodsOf(c) = c.attributes[j].methods
<1>1. PICK K : K = OfKind(c.attributes, "BootstrapMethods")
  OBVIOUS
<1>2. c.attributes \in Seq(Attributes_(c)) /\ DOMAIN c.attributes = 1 .. Len(c.attributes)
      /\ Len(c.attributes) \in Nat
  BY DEF Formed
<1>3. j \in K /\ \A i \in K : i \in Nat /\ j <= i
  BY <1>1, <1>2 DEF OfKind
<1>4. Min(K) = j
  <2>1. \A i \in K : (\A k \in K : i <= k) => i = j
    BY <1>3
  <2> QED BY <1>3, <2>1 DEF Min
<1> QED BY <1>1, <1>3, <1>4 DEF HasBootstraps, BootstrapMethodsOf, FirstOf

LEMMA NoBootstraps ==
  ASSUME NEW c, Formed(c), \A i \in 1 .. Len(c.attributes) : c.attributes[i].kind # "BootstrapMethods"
  PROVE  ~HasBootstraps(c) /\ BootstrapMethodsOf(c) = <<>>
<1>1. DOMAIN c.attributes = 1 .. Len(c.attributes)
  BY DEF Formed
<1>2. OfKind(c.attributes, "BootstrapMethods") = {}
  BY <1>1 DEF OfKind
<1> QED BY <1>2 DEF HasBootstraps, BootstrapMethodsOf

LEMMA BootstrapsFormed ==
  ASSUME NEW c, Formed(c)
  PROVE  BootstrapMethodsOf(c) \in Seq(Bootstraps_)
<1>1. CASE ~HasBootstraps(c)
  <2>1. BootstrapMethodsOf(c) = <<>>
    BY <1>1 DEF HasBootstraps, BootstrapMethodsOf
  <2> QED BY <2>1
<1>2. CASE HasBootstraps(c)
  <2>1. PICK K : K = OfKind(c.attributes, "BootstrapMethods")
    OBVIOUS
  <2>2. DOMAIN c.attributes = 1 .. Len(c.attributes) /\ Len(c.attributes) \in Nat
        /\ c.attributes \in Seq(Attributes_(c))
    BY DEF Formed
  <2>3. K \in SUBSET Nat /\ K # {} /\ K \subseteq 1 .. Len(c.attributes)
        /\ \A i \in K : c.attributes[i].kind = "BootstrapMethods"
    BY <1>2, <2>1, <2>2 DEF HasBootstraps, OfKind
  <2>4. PICK j \in K : \A i \in K : j <= i
    BY <2>3, Least
  <2>5. j \in 1 .. Len(c.attributes) /\ c.attributes[j].kind = "BootstrapMethods"
    BY <2>3
  <2>6. ASSUME NEW i \in 1 .. j - 1
        PROVE  c.attributes[i].kind # "BootstrapMethods"
    <3>1. i \in DOMAIN c.attributes /\ ~(j <= i)
      BY <2>2, <2>5
    <3>2. i \notin K
      BY <2>4, <3>1
    <3> QED BY <2>1, <3>1, <3>2 DEF OfKind
  <2>7. BootstrapMethodsOf(c) = c.attributes[j].methods
    BY <2>5, <2>6, FirstBootstraps
  <2>8. c.attributes[j] \in Attributes_(c)
    BY <2>2, <2>5, ElementOfSeq
  <2> QED BY <2>5, <2>7, <2>8, AttributeFormed
<1> QED BY <1>1, <1>2

LEMMA WithoutBootstraps ==
  ASSUME ReadingInv, NEW c, Formed(c), ~HasBootstraps(c), phase \in BeforeBootstrap, phase' = "read",
         clazz' = clazz
  PROVE  BootstrapsAgree(c)'
<1>1. ~clazz.bootstrap.found /\ clazz.bootstrap.methods = <<>>
  BY DEF ReadingInv, Phased
<1>2. BootstrapMethodsOf(c) = <<>>
  BY DEF HasBootstraps, BootstrapMethodsOf
<1>3. phase' \notin BeforeBootstrap \cup {"bootstrap_count"}
  BY DEF BeforeBootstrap, BeforeMethods, BeforeFields, BeforeInterfaces, BeforePool
<1>4. Filled(Len(clazz.bootstrap.methods), Len(BootstrapMethodsOf(c)),
             BeforeBootstrap \cup {"bootstrap_count"}, "bootstrap_methods", "bootstrap_arguments")'
  <2>1. Len(clazz'.bootstrap.methods) = Len(BootstrapMethodsOf(c))
    BY <1>1, <1>2
  <2> QED BY <1>3, <2>1 DEF Filled
<1>5. 1 .. Len(clazz'.bootstrap.methods) = {}
  BY <1>1
<1> QED BY <1>1, <1>3, <1>4, <1>5 DEF BootstrapsAgree

LEMMA read_bootstrap_attribute_Agrees ==
  ASSUME ReadingInv, NEW c, Formed(c), Agree(c), read_bootstrap_attribute
  PROVE  Agree(c)'
<1>1. /\ phase = "attributes_count" /\ Loop(u2(pos), "class_attributes", "read") /\ pos' = pos + 2
      /\ pos \in Nat /\ pos + 2 <= Len(bytes) /\ Typed
      /\ file' = file /\ cp' = cp /\ count' = count /\ clazz' = clazz /\ bytes' = bytes
  BY SameBytes, Twos DEF read_bootstrap_attribute, In
<1>2. PICK m, s : m = Len(c.attributes) /\ s = AttributesOf(c, c.attributes)
  OBVIOUS
<1>3. s \in Table_ /\ Len(s) = m /\ m \in Nat
  <2>1. c.attributes \in Seq(Attributes_(c))
    BY ClassEncoded
  <2> QED BY <1>2, <2>1, AttributesEncoded
<1>4. u2(pos) = m /\ At(bytes, pos + 2, Rest(s, 0) \o <<>>)
  <2>1. PICK t : t = <<>>
    OBVIOUS
  <2>2. t \in Info_ /\ Sized(s) \o t = Sized(s)
    BY <1>3, <2>1, SizedTyped, JoinedNone
  <2>3. At(bytes, pos, Sized(s) \o t)
    BY <1>1, <1>2, <2>2, ClassEncoded DEF Agree, Ahead
  <2> QED BY <1>1, <1>3, <2>1, <2>2, <2>3, TableStarts
<1>5. left' = m /\ ((m = 0 /\ phase' = "read") \/ (m # 0 /\ phase' = "class_attributes"))
  BY <1>1, <1>4 DEF Loop
<1>6. phase \in Late /\ phase' \in Late
  BY <1>1, <1>5 DEF Late
<1>7. PoolAgrees(c)' /\ InfoAgrees(c)' /\ InterfacesAgree(c)' /\ FieldsAgree(c)' /\ MethodsAgree(c)'
  BY <1>1, <1>6, LateKept
<1>8. phase \in BeforeBootstrap
  BY <1>1 DEF BeforeBootstrap
<1>9. CASE m = 0 /\ phase' = "read"
  <2>1. ~HasBootstraps(c)
    <3>1. 1 .. Len(c.attributes) = {}
      BY <1>2, <1>9
    <3> QED BY <3>1, NoBootstraps
  <2>2. BootstrapsAgree(c)'
    BY <1>1, <1>8, <1>9, <2>1, WithoutBootstraps
  <2>3. Ahead(c)'
    BY <1>9 DEF Ahead
  <2> QED BY <1>7, <2>2, <2>3 DEF Agree
<1>10. CASE m # 0 /\ phase' = "class_attributes"
  <2>1. phase' \in BeforeBootstrap /\ phase' # "bootstrap_count"
    BY <1>10 DEF BeforeBootstrap
  <2>2. BootstrapsAgree(c)'
    BY <1>1, <1>8, <2>1, Sides, BootstrapsKept DEF Agree
  <2>3. AttributesAhead(c)'
    <3>1. left' \in 1 .. m /\ m - left' = 0 /\ 1 .. 0 = {}
      BY <1>3, <1>5, <1>10
    <3> QED BY <1>1, <1>2, <1>4, <3>1 DEF AttributesAhead
  <2>4. Ahead(c)'
    BY <1>10, <2>3 DEF Ahead
  <2> QED BY <1>7, <2>2, <2>4 DEF Agree
<1> QED BY <1>5, <1>9, <1>10

\* The attribute of the class that comes next.
LEMMA ClassAttributeBegins ==
  ASSUME ReadingInv, NEW c, Formed(c), Agree(c), In("class_attributes"), Constant(u2(pos), Utf8),
         NEW j, j = Len(c.attributes) - left + 1
  PROVE  /\ j \in 1 .. Len(c.attributes) /\ Len(c.attributes) \in Nat
         /\ \A i \in 1 .. j - 1 : c.attributes[i].kind # "BootstrapMethods"
         /\ Named(BootstrapText) <=> c.attributes[j].kind = "BootstrapMethods"
         /\ AttributesOf(c, c.attributes) \in Table_ /\ Len(AttributesOf(c, c.attributes)) = Len(c.attributes)
         /\ At(bytes, pos + 6, Content(c, c.attributes[j]) \o (Rest(AttributesOf(c, c.attributes), j) \o <<>>))
         /\ At(bytes, attribute_end, Rest(AttributesOf(c, c.attributes), j) \o <<>>)
<1>1. PICK s, t : s = c.attributes /\ t = <<>>
  OBVIOUS
<1>2. s \in Seq(Attributes_(c)) /\ Len(s) \in Nat /\ DOMAIN s = 1 .. Len(s)
  BY <1>1, ClassEncoded
<1>3. phase = "class_attributes" /\ pos \in Nat /\ pos + 6 <= Len(bytes) /\ Typed /\ left \in Nat /\ left # 0
  BY Sixes DEF In
<1>4. /\ left \in 1 .. Len(s) /\ \A i \in 1 .. Len(s) - left : s[i].kind # "BootstrapMethods"
      /\ At(bytes, pos, Rest(AttributesOf(c, s), Len(s) - left) \o t)
  BY <1>1, <1>3 DEF Agree, Ahead, AttributesAhead
<1>5. j \in 1 .. Len(s) /\ Len(s) - left = j - 1
  BY <1>1, <1>2, <1>4
<1>6. \A i \in 1 .. j - 1 : s[i].kind # "BootstrapMethods"
  BY <1>4, <1>5
<1>7. t \in Info_ /\ AttributesOf(c, s) \in Table_ /\ Len(AttributesOf(c, s)) = Len(s)
  <2>1. t \in Info_
    BY <1>1 DEF Info_
  <2> QED BY <1>2, <2>1, AttributesEncoded
<1>8. At(bytes, pos, Rest(AttributesOf(c, s), j - 1) \o t)
  BY <1>4, <1>5
<1>9. /\ u2(pos) = Index(c, s[j].name) /\ s[j].name \in DOMAIN c.constants
      /\ At(bytes, pos + 6, Content(c, s[j]) \o (Rest(AttributesOf(c, s), j) \o t))
      /\ At(bytes, attribute_end, Rest(AttributesOf(c, s), j) \o t)
  BY <1>2, <1>3, <1>5, <1>7, <1>8, AttributeBegins
<1>10. Named(BootstrapText) <=> s[j].kind = "BootstrapMethods"
  <2>1. PoolUpto(c, Len(c.constants))
    BY <1>3 DEF Agree, PoolAgrees, BeforePool
  <2>2. Refer(c, s[j].name, Utf8) /\ cp[u2(pos)].info = Text(c, s[j].name)
    BY <1>9, <2>1, TextRead
  <2>3. NamedAsKind(c, s[j], "BootstrapMethods", BootstrapText)
    BY <1>1, <1>2, <1>5 DEF Formed
  <2> QED BY <2>2, <2>3 DEF Named, NamedAsKind, Text
<1> QED BY <1>1, <1>2, <1>5, <1>6, <1>7, <1>9, <1>10

LEMMA skip_class_attribute_Agrees ==
  ASSUME ReadingInv, NEW c, Formed(c), Agree(c), skip_class_attribute
  PROVE  Agree(c)'
<1>1. /\ phase = "class_attributes" /\ In("class_attributes") /\ Constant(u2(pos), Utf8)
      /\ ~Named(BootstrapText) /\ Turn("read") /\ pos' = attribute_end
      /\ file' = file /\ cp' = cp /\ count' = count /\ clazz' = clazz /\ bytes' = bytes
      /\ left \in Nat /\ left # 0
  BY SameBytes, Sixes DEF skip_class_attribute, In
<1>2. PICK s, n, j : s = c.attributes /\ n = Len(s) /\ j = n - left + 1
  OBVIOUS
<1>3. /\ j \in 1 .. n /\ n \in Nat
      /\ \A i \in 1 .. j - 1 : s[i].kind # "BootstrapMethods"
      /\ s[j].kind # "BootstrapMethods"
      /\ At(bytes, attribute_end, Rest(AttributesOf(c, s), j) \o <<>>)
  BY <1>1, <1>2, ClassAttributeBegins
<1>4. \A i \in 1 .. j : s[i].kind # "BootstrapMethods"
  <2>1. 1 .. j = (1 .. j - 1) \cup {j}
    BY <1>3
  <2> QED BY <1>3, <2>1
<1>5. /\ left' = left - 1
      /\ (j = n /\ phase' = "read") \/ (j # n /\ phase' = "class_attributes")
  BY <1>1, <1>2, <1>3 DEF Turn
<1>6. phase \in Late /\ phase' \in Late /\ phase \in BeforeBootstrap
  BY <1>1, <1>5 DEF Late, BeforeBootstrap
<1>7. PoolAgrees(c)' /\ InfoAgrees(c)' /\ InterfacesAgree(c)' /\ FieldsAgree(c)' /\ MethodsAgree(c)'
  BY <1>1, <1>6, LateKept
<1>8. CASE j = n /\ phase' = "read"
  <2>1. ~HasBootstraps(c)
    BY <1>2, <1>4, <1>8, NoBootstraps
  <2>2. BootstrapsAgree(c)'
    BY <1>1, <1>6, <1>8, <2>1, WithoutBootstraps
  <2>3. Ahead(c)'
    BY <1>8 DEF Ahead
  <2> QED BY <1>7, <2>2, <2>3 DEF Agree
<1>9. CASE j # n /\ phase' = "class_attributes"
  <2>1. phase' \in BeforeBootstrap /\ phase' # "bootstrap_count"
    BY <1>9 DEF BeforeBootstrap
  <2>2. BootstrapsAgree(c)'
    BY <1>1, <1>6, <2>1, Sides, BootstrapsKept DEF Agree
  <2>3. AttributesAhead(c)'
    <3>1. left' \in 1 .. n /\ n - left' = j
      BY <1>1, <1>2, <1>3, <1>5, <1>9
    <3> QED BY <1>1, <1>2, <1>3, <1>4, <3>1 DEF AttributesAhead
  <2>4. Ahead(c)'
    BY <1>9, <2>3 DEF Ahead
  <2> QED BY <1>7, <2>2, <2>4 DEF Agree
<1> QED BY <1>5, <1>8, <1>9

LEMMA enter_bootstrap_methods_Agrees ==
  ASSUME ReadingInv, NEW c, Formed(c), Agree(c), enter_bootstrap_methods
  PROVE  Agree(c)'
<1>1. /\ phase = "class_attributes" /\ In("class_attributes") /\ Constant(u2(pos), Utf8)
      /\ Named(BootstrapText) /\ phase' = "bootstrap_count" /\ pos' = pos + 6
      /\ file' = file /\ cp' = cp /\ count' = count /\ clazz' = clazz /\ bytes' = bytes
      /\ left' = left /\ pos \in Nat
  BY SameBytes, Sixes DEF enter_bootstrap_methods, In, Attribute
<1>2. PICK s, j, a, t : /\ s = c.attributes /\ j = Len(s) - left + 1 /\ a = s[j]
                        /\ t = Rest(AttributesOf(c, s), j) \o <<>>
  OBVIOUS
<1>3. /\ j \in 1 .. Len(s)
      /\ \A i \in 1 .. j - 1 : s[i].kind # "BootstrapMethods"
      /\ a.kind = "BootstrapMethods"
      /\ At(bytes, pos + 6, Content(c, a) \o t)
      /\ AttributesOf(c, s) \in Table_ /\ Len(AttributesOf(c, s)) = Len(s) /\ Len(s) \in Nat
  BY <1>1, <1>2, ClassAttributeBegins
<1>4. HasBootstraps(c) /\ BootstrapMethodsOf(c) = a.methods
  BY <1>2, <1>3, FirstBootstraps
<1>5. Content(c, a) \in Info_ /\ Content(c, a) = Sized(BootstrapsOf(c, a.methods))
  <2>1. a \in Attributes_(c)
    BY <1>2, <1>3, ClassEncoded, ElementOfSeq
  <2> QED BY <1>3, <2>1, AttributeFormed
<1>6. t \in Info_
  <2>1. j \in 0 .. Len(AttributesOf(c, s))
    BY <1>3
  <2>2. Rest(AttributesOf(c, s), j) \in Info_
    BY <1>3, <2>1, RestOf
  <2> QED BY <1>2, <2>2, JoinedNone
<1>7. At(bytes, pos + 6, Sized(BootstrapsOf(c, BootstrapMethodsOf(c))) \o <<>>)
  <2>1. PICK p, v : p = pos + 6 /\ v = Content(c, a)
    OBVIOUS
  <2>2. p \in Nat /\ v \in Info_ /\ At(bytes, p, v \o t)
    BY <1>1, <1>3, <1>5, <2>1
  <2>3. At(bytes, p, v) /\ v \o <<>> = v
    BY <1>6, <2>2, AtJoin, JoinedNone
  <2> QED BY <1>4, <1>5, <2>1, <2>3
<1>8. phase \in Late /\ phase' \in Late /\ phase \in BeforeBootstrap
  BY <1>1 DEF Late, BeforeBootstrap
<1>9. PoolAgrees(c)' /\ InfoAgrees(c)' /\ InterfacesAgree(c)' /\ FieldsAgree(c)' /\ MethodsAgree(c)'
  BY <1>1, <1>8, LateKept
<1>10. BootstrapsAgree(c)'
  <2>1. clazz'.bootstrap.methods = <<>>
    BY <1>1, <1>8 DEF ReadingInv, Phased
  <2>2. Len(clazz'.bootstrap.methods) = 0 /\ 1 .. Len(clazz'.bootstrap.methods) = {}
    BY <2>1
  <2>3. Filled(Len(clazz.bootstrap.methods), Len(BootstrapMethodsOf(c)),
               BeforeBootstrap \cup {"bootstrap_count"}, "bootstrap_methods", "bootstrap_arguments")'
    BY <1>1, <2>2 DEF Filled
  <2> QED BY <1>1, <1>4, <2>2, <2>3 DEF BootstrapsAgree
<1>11. Ahead(c)'
  BY <1>1, <1>7 DEF Ahead
<1> QED BY <1>9, <1>10, <1>11 DEF Agree

\* No phase is both before and in the loop over bootstrap methods.
LEMMA BootstrapPhases ==
  LET before == BeforeBootstrap \cup {"bootstrap_count"} IN
  /\ "bootstrap_methods" \notin before /\ "bootstrap_arguments" \notin before
  /\ "read" \notin before \cup {"bootstrap_methods", "bootstrap_arguments"}
  /\ "bootstrap_methods" # "bootstrap_arguments" /\ "bootstrap_count" \in before
BY DEF BeforeBootstrap, BeforeMethods, BeforeFields, BeforeInterfaces, BeforePool

LEMMA num_bootstrap_methods_Agrees ==
  ASSUME ReadingInv, NEW c, Formed(c), Agree(c), num_bootstrap_methods
  PROVE  Agree(c)'
<1>1. /\ phase = "bootstrap_count" /\ Loop(u2(pos), "bootstrap_methods", "read") /\ pos' = pos + 2
      /\ pos \in Nat /\ pos + 2 <= Len(bytes) /\ Typed /\ clazz \in ClassFile_
      /\ clazz' = [clazz EXCEPT !.bootstrap = [found |-> TRUE, methods |-> <<>>]]
      /\ file' = file /\ cp' = cp /\ count' = count /\ bytes' = bytes
  BY SameBytes, Twos DEF num_bootstrap_methods, In, Typed
<1>2. /\ clazz'.bootstrap.found = TRUE /\ clazz'.bootstrap.methods = <<>>
      /\ clazz'.access_flags = clazz.access_flags /\ clazz'.this_class = clazz.this_class
      /\ clazz'.super_class = clazz.super_class /\ clazz'.interfaces = clazz.interfaces
      /\ clazz'.fields = clazz.fields /\ clazz'.methods = clazz.methods
  BY <1>1 DEF ClassFile_
<1>3. PICK all, m, s, B : /\ all = BootstrapMethodsOf(c) /\ m = Len(all) /\ s = BootstrapsOf(c, all)
                          /\ B = BeforeBootstrap \cup {"bootstrap_count"}
  OBVIOUS
<1>4. s \in Table_ /\ Len(s) = m /\ m \in Nat
  <2>1. all \in Seq(Bootstraps_)
    BY <1>3, BootstrapsFormed
  <2> QED BY <1>3, <2>1, BootstrapsEncoded
<1>5. u2(pos) = m /\ At(bytes, pos + 2, Rest(s, 0) \o <<>>)
  <2>1. PICK t : t = <<>>
    OBVIOUS
  <2>2. t \in Info_
    BY <2>1 DEF Info_
  <2>3. At(bytes, pos, Sized(s) \o t)
    BY <1>1, <1>3, <2>1 DEF Agree, Ahead
  <2> QED BY <1>1, <1>4, <2>1, <2>2, <2>3, TableStarts
<1>6. /\ Filled(0, m, B, "bootstrap_methods", "bootstrap_arguments")'
      /\ (m = 0 /\ phase' = "read") \/ (m # 0 /\ phase' = "bootstrap_methods")
  <2>1. Loop(m, "bootstrap_methods", "read")
    BY <1>1, <1>5
  <2> QED BY <1>3, <1>4, <2>1, BootstrapPhases DEF Loop, Filled
<1>7. BootstrapsAgree(c)'
  <2>1. Len(clazz'.bootstrap.methods) = 0 /\ 1 .. Len(clazz'.bootstrap.methods) = {}
    BY <1>2
  <2>2. HasBootstraps(c)
    BY <1>1 DEF Agree, BootstrapsAgree
  <2>3. Filled(Len(clazz.bootstrap.methods), Len(BootstrapMethodsOf(c)),
               BeforeBootstrap \cup {"bootstrap_count"}, "bootstrap_methods", "bootstrap_arguments")'
    BY <1>3, <1>6, <2>1 DEF Filled
  <2>4. phase' # "bootstrap_count"
    BY <1>6
  <2> QED BY <1>2, <2>1, <2>2, <2>3, <2>4 DEF BootstrapsAgree
<1>8. phase \in Late /\ phase' \in Late
  BY <1>1, <1>6 DEF Late
<1>9. PoolAgrees(c)' /\ InfoAgrees(c)' /\ InterfacesAgree(c)' /\ FieldsAgree(c)' /\ MethodsAgree(c)'
  BY <1>1, <1>2, <1>8, LateKept
<1>10. Ahead(c)'
  <2>1. CASE phase' = "bootstrap_methods"
    <3>1. Len(clazz'.bootstrap.methods) = 0
      BY <1>2
    <3> QED BY <1>1, <1>3, <1>5, <2>1, <3>1 DEF Ahead
  <2>2. CASE phase' = "read"
    BY <2>2 DEF Ahead
  <2> QED BY <1>6, <2>1, <2>2
<1> QED BY <1>7, <1>9, <1>10 DEF Agree

\* A bootstrap method up to its arguments.
LEMMA BootstrapBegins ==
  ASSUME Typed, NEW c, NEW all \in Seq(Bootstraps_), NEW k \in 1 .. Len(all), NEW t \in Info_,
         At(bytes, pos, Rest(BootstrapsOf(c, all), k - 1) \o t), pos + 4 <= Len(bytes)
  PROVE  /\ u2(pos) = Index(c, all[k].ref) /\ u2(pos + 2) = Len(all[k].arguments)
         /\ Len(all[k].arguments) \in Nat
         /\ At(bytes, pos + 4, Rest(IndicesOf(c, all[k].arguments), 0)
                               \o (Rest(BootstrapsOf(c, all), k) \o t))
         /\ Len(all[k].arguments) = 0 => At(bytes, pos + 4, Rest(BootstrapsOf(c, all), k) \o t)
<1>1. PICK x, s, e, r : /\ x = Index(c, all[k].ref) /\ s = IndicesOf(c, all[k].arguments)
                        /\ e = BootstrapsOf(c, all) /\ r = Rest(BootstrapsOf(c, all), k) \o t
  OBVIOUS
<1>2. /\ e \in Table_ /\ k \in 1 .. Len(e) /\ all[k].ref \in Nat /\ all[k].arguments \in Seq(Nat)
      /\ e[k] = U2(x) \o Sized(s)
  BY <1>1, BootstrapsEncoded
<1>3. s \in Table_ /\ Len(s) = Len(all[k].arguments) /\ Len(s) \in Nat
  BY <1>1, <1>2, IndicesEncoded
<1>4. x \in Int /\ pos \in Nat
  BY <1>1, <1>2, IndexOfConstant DEF Typed
<1>5. PICK u, w : u = U2(x) /\ w = Sized(s)
  OBVIOUS
<1>6. u \in Info_ /\ w \in Info_
  BY <1>3, <1>4, <1>5, U2Typed, SizedTyped
<1>7. r \in Info_ /\ At(bytes, pos, (u \o w) \o r)
  <2>1. PICK v : v = e[k]
    OBVIOUS
  <2>2. At(bytes, pos, Rest(e, k - 1) \o t)
    BY <1>1
  <2>3. r \in Info_ /\ At(bytes, pos, v \o r)
    BY <1>1, <1>2, <1>4, <2>1, <2>2, NextEntry
  <2> QED BY <1>2, <1>5, <2>1, <2>3
<1>8. (u \o w) \o r = u \o (w \o r) /\ w \o r \in Info_
  <2>1. Joint(Joint(u, w), r) = Joint(u, Joint(w, r))
    BY <1>6, <1>7, JointRegrouped
  <2>2. (u \o w) \o r = u \o (w \o r)
    BY ONLY <2>1 DEF Joint
  <2>3. w \o r \in Info_
    BY <1>6, <1>7, Joined
  <2> QED BY <2>2, <2>3
<1>9. /\ Len(bytes) \in Nat /\ pos + 2 \in Nat /\ pos + 2 <= Len(bytes) /\ (pos + 2) + 2 <= Len(bytes)
      /\ (pos + 2) + 2 = pos + 4
  BY <1>4, BytesTyped
<1>10. u2(pos) = x /\ At(bytes, pos + 2, w \o r)
  BY <1>4, <1>5, <1>7, <1>8, <1>9, NextTwo
<1>11. u2(pos + 2) = Len(s) /\ At(bytes, (pos + 2) + 2, Rest(s, 0) \o r)
  BY <1>3, <1>5, <1>7, <1>9, <1>10, TableStarts
<1>12. Len(s) = 0 => At(bytes, pos + 4, r)
  BY <1>3, <1>7, <1>9, <1>11, TableEnds
<1> QED BY <1>1, <1>3, <1>9, <1>10, <1>11, <1>12

\* What is known of one bootstrap method when g of its arguments have been read.
BootstrapUpto(c, b, r, g) ==
    /\ r.ref = Index(c, b.ref) /\ Len(r.arguments) = g
    /\ \A k \in 1 .. g : r.arguments[k] = Index(c, b.arguments[k])

LEMMA read_bootstrap_method_Agrees ==
  ASSUME ReadingInv, NEW c, Formed(c), Agree(c), read_bootstrap_method
  PROVE  Agree(c)'
<1>1. /\ phase = "bootstrap_methods" /\ pos' = pos + 4 /\ arguments' = u2(pos + 2)
      /\ clazz' = [clazz EXCEPT !.bootstrap.methods =
                     Append(@, [ref |-> u2(pos), arguments |-> <<>>])]
      /\ IF arguments' = 0 THEN NextMember("bootstrap_methods", "read")
         ELSE phase' = "bootstrap_arguments" /\ UNCHANGED left
      /\ pos \in Nat /\ Typed /\ clazz \in ClassFile_
      /\ file' = file /\ cp' = cp /\ count' = count /\ bytes' = bytes
      /\ left \in Nat /\ left # 0
  BY SameBytes DEF read_bootstrap_method, In, ReadingInv, Typed, Phased, Loops
<1>2. pos + 4 <= Len(bytes)
  <2>1. Needed = 4
    BY <1>1 DEF Needed
  <2> QED BY <2>1 DEF read_bootstrap_method, In, Has
<1>3. PICK all, m, n, e, B : /\ all = BootstrapMethodsOf(c) /\ m = Len(all)
                             /\ n = Len(clazz.bootstrap.methods)
                             /\ e = [ref |-> u2(pos), arguments |-> <<>>]
                             /\ B = BeforeBootstrap \cup {"bootstrap_count"}
  OBVIOUS
<1>4. /\ clazz'.bootstrap.methods = Append(clazz.bootstrap.methods, e)
      /\ clazz.bootstrap.methods \in Seq(BootstrapMethod_)
      /\ clazz'.bootstrap.found = clazz.bootstrap.found
      /\ clazz'.access_flags = clazz.access_flags /\ clazz'.this_class = clazz.this_class
      /\ clazz'.super_class = clazz.super_class /\ clazz'.interfaces = clazz.interfaces
      /\ clazz'.fields = clazz.fields /\ clazz'.methods = clazz.methods
  BY <1>1, <1>3 DEF ClassFile_, Bootstrap_
<1>5. /\ all \in Seq(Bootstraps_) /\ m \in Nat /\ BootstrapsOf(c, all) \in Table_
      /\ Len(BootstrapsOf(c, all)) = m
  <2>1. all \in Seq(Bootstraps_)
    BY <1>3, BootstrapsFormed
  <2> QED BY <1>3, <2>1, BootstrapsEncoded
<1>6. /\ n \in Nat /\ Len(clazz'.bootstrap.methods) = n + 1 /\ clazz'.bootstrap.methods[n + 1] = e
      /\ \A i \in 1 .. n : clazz'.bootstrap.methods[i] = clazz.bootstrap.methods[i]
  BY <1>3, <1>4, Appended
<1>7. PICK k : k = n + 1
  OBVIOUS
<1>8. /\ k \in 1 .. m /\ Filled(k, m, B, "bootstrap_methods", "bootstrap_arguments")'
      /\ \/ arguments' = 0 /\ k = m /\ phase' = "read"
         \/ arguments' = 0 /\ k # m /\ phase' = "bootstrap_methods"
         \/ arguments' # 0 /\ phase' = "bootstrap_arguments"
  <2>1. Filled(n, m, B, "bootstrap_methods", "bootstrap_arguments")
    BY <1>3 DEF Agree, BootstrapsAgree
  <2>2. /\ "bootstrap_methods" \notin B /\ "bootstrap_arguments" \notin B
        /\ "read" \notin B \cup {"bootstrap_methods", "bootstrap_arguments"}
        /\ "bootstrap_methods" # "bootstrap_arguments"
    BY <1>3, BootstrapPhases
  <2>3. n \in Nat /\ m \in Nat /\ left \in Nat /\ left # 0 /\ phase = "bootstrap_methods"
    BY <1>1, <1>5, <1>6
  <2>4. CASE arguments' = 0
    <3>1. left' = left - 1 /\ phase' = (IF left = 1 THEN "read" ELSE "bootstrap_methods")
      BY <1>1, <2>4 DEF NextMember
    <3>2. /\ n + 1 \in 1 .. m /\ Filled(n + 1, m, B, "bootstrap_methods", "bootstrap_arguments")'
          /\ (n + 1 = m /\ phase' = "read") \/ (n + 1 # m /\ phase' = "bootstrap_methods")
      BY ONLY <2>1, <2>2, <2>3, <3>1, Added
    <3> QED BY <1>7, <2>4, <3>2
  <2>5. CASE arguments' # 0
    <3>1. left' = left /\ phase' = "bootstrap_arguments"
      BY <1>1, <2>5
    <3>2. n + 1 \in 1 .. m /\ Filled(n + 1, m, B, "bootstrap_methods", "bootstrap_arguments")'
      BY ONLY <2>1, <2>2, <2>3, <3>1, Begun
    <3> QED BY <1>7, <2>5, <3>1, <3>2
  <2> QED BY <2>4, <2>5
<1>9. k - 1 = n /\ k \in 1 .. Len(all)
  BY <1>3, <1>6, <1>7, <1>8
<1>10. PICK s, t : s = all[k].arguments /\ t = <<>>
  OBVIOUS
<1>11. /\ u2(pos) = Index(c, all[k].ref) /\ arguments' = Len(s) /\ Len(s) \in Nat
       /\ At(bytes, pos + 4, Rest(IndicesOf(c, s), 0) \o (Rest(BootstrapsOf(c, all), k) \o <<>>))
       /\ Len(s) = 0 => At(bytes, pos + 4, Rest(BootstrapsOf(c, all), k) \o <<>>)
  <2>1. At(bytes, pos, Rest(BootstrapsOf(c, all), k - 1) \o t)
    BY <1>1, <1>3, <1>9, <1>10 DEF Agree, Ahead
  <2>2. t \in Info_
    BY <1>10 DEF Info_
  <2> QED BY <1>1, <1>2, <1>5, <1>9, <1>10, <2>1, <2>2, BootstrapBegins
<1>12. BootstrapsAgree(c)'
  <2>1. ASSUME NEW i \in 1 .. k
        PROVE  BootstrapUpto(c, all[i], clazz'.bootstrap.methods[i], Given(c, i)')
    <3>1. CASE i = k
      <4>1. Given(c, i)' = 0
        BY <1>3, <1>6, <1>7, <1>8, <1>10, <1>11, <3>1 DEF Given
      <4>2. e.ref = Index(c, all[k].ref) /\ Len(e.arguments) = 0 /\ 1 .. 0 = {}
        BY <1>3, <1>11
      <4> QED BY <1>6, <1>7, <3>1, <4>1, <4>2 DEF BootstrapUpto
    <3>2. CASE i # k
      <4>1. i \in 1 .. n /\ phase # "bootstrap_arguments"
        BY <1>1, <1>6, <1>7, <3>2
      <4>2. Given(c, i)' = Given(c, i)
        BY <1>6, <1>7, <3>2, <4>1 DEF Given
      <4>3. BootstrapUpto(c, all[i], clazz.bootstrap.methods[i], Given(c, i))
        BY <1>3, <4>1 DEF Agree, BootstrapsAgree, BootstrapUpto
      <4> QED BY <1>6, <4>1, <4>2, <4>3
    <3> QED BY <3>1, <3>2
  <2>2. Len(clazz'.bootstrap.methods) = k
    BY <1>6, <1>7
  <2>3. Filled(Len(clazz.bootstrap.methods), Len(BootstrapMethodsOf(c)),
               BeforeBootstrap \cup {"bootstrap_count"}, "bootstrap_methods", "bootstrap_arguments")'
    BY <1>3, <1>8, <2>2 DEF Filled
  <2>4. phase' # "bootstrap_count" /\ (clazz'.bootstrap.found <=> HasBootstraps(c))
    <3>1. phase \notin BeforeBootstrap \cup {"bootstrap_count"}
      BY <1>1, BootstrapPhases
    <3> QED BY <1>4, <1>8, <3>1 DEF Agree, BootstrapsAgree
  <2> QED BY <1>3, <2>1, <2>2, <2>3, <2>4 DEF BootstrapsAgree, BootstrapUpto
<1>13. phase \in Late /\ phase' \in Late
  BY <1>1, <1>8 DEF Late
<1>14. PoolAgrees(c)' /\ InfoAgrees(c)' /\ InterfacesAgree(c)' /\ FieldsAgree(c)' /\ MethodsAgree(c)'
  BY <1>1, <1>4, <1>13, LateKept
<1>15. Ahead(c)'
  <2>1. Len(clazz'.bootstrap.methods) = k
    BY <1>6, <1>7
  <2>2. CASE arguments' = 0 /\ k # m /\ phase' = "bootstrap_methods"
    BY <1>1, <1>3, <1>11, <2>1, <2>2 DEF Ahead
  <2>3. CASE phase' = "read"
    BY <2>3 DEF Ahead
  <2>4. CASE arguments' # 0 /\ phase' = "bootstrap_arguments"
    <3>1. arguments' \in 1 .. Len(s) /\ Len(s) - arguments' = 0
      BY <1>11, <2>4
    <3>2. ArgumentsAhead(c)'
      BY <1>1, <1>3, <1>9, <1>10, <1>11, <2>1, <3>1 DEF ArgumentsAhead
    <3> QED BY <2>4, <3>2 DEF Ahead
  <2> QED BY <1>8, <2>2, <2>3, <2>4
<1> QED BY <1>12, <1>14, <1>15 DEF Agree

LEMMA read_bootstrap_argument_Agrees ==
  ASSUME ReadingInv, NEW c, Formed(c), Agree(c), read_bootstrap_argument
  PROVE  Agree(c)'
<1>1. /\ phase = "bootstrap_arguments" /\ pos' = pos + 2 /\ arguments' = arguments - 1
      /\ clazz' = [clazz EXCEPT !.bootstrap.methods[Len(clazz.bootstrap.methods)].arguments =
                     Append(@, u2(pos))]
      /\ IF arguments = 1 THEN NextMember("bootstrap_methods", "read") ELSE UNCHANGED <<phase, left>>
      /\ pos \in Nat /\ pos + 2 <= Len(bytes) /\ Typed /\ clazz \in ClassFile_
      /\ file' = file /\ cp' = cp /\ count' = count /\ bytes' = bytes
      /\ left \in Nat /\ left # 0 /\ arguments \in Nat /\ arguments # 0
  BY SameBytes, Twos DEF read_bootstrap_argument, In, ReadingInv, Typed, Phased, Loops
<1>2. PICK all, m, n, s, B : /\ all = BootstrapMethodsOf(c) /\ m = Len(all)
                             /\ n = Len(clazz.bootstrap.methods) /\ s = all[n].arguments
                             /\ B = BeforeBootstrap \cup {"bootstrap_count"}
  OBVIOUS
<1>3. /\ n \in 1 .. m /\ arguments \in 1 .. Len(s)
      /\ At(bytes, pos, Rest(IndicesOf(c, s), Len(s) - arguments)
                        \o (Rest(BootstrapsOf(c, all), n) \o <<>>))
  BY <1>1, <1>2 DEF Agree, Ahead, ArgumentsAhead
<1>4. /\ m \in Nat /\ BootstrapsOf(c, all) \in Table_ /\ Len(BootstrapsOf(c, all)) = m
      /\ IndicesOf(c, s) \in Table_ /\ Len(IndicesOf(c, s)) = Len(s) /\ Len(s) \in Nat
      /\ \A i \in 1 .. Len(s) : IndicesOf(c, s)[i] = U2(Index(c, s[i])) /\ s[i] \in Nat
  <2>1. all \in Seq(Bootstraps_)
    BY <1>2, BootstrapsFormed
  <2>2. m \in Nat /\ BootstrapsOf(c, all) \in Table_ /\ Len(BootstrapsOf(c, all)) = m
    BY <1>2, <2>1, BootstrapsEncoded
  <2>3. s \in Seq(Nat)
    BY <1>2, <1>3, <2>1, BootstrapsEncoded
  <2> QED BY <2>2, <2>3, IndicesEncoded
<1>5. PICK j, r, x, e : /\ j = Len(s) - arguments + 1 /\ r = Rest(BootstrapsOf(c, all), n) \o <<>>
                        /\ x = Index(c, s[j]) /\ e = IndicesOf(c, s)
  OBVIOUS
<1>6. /\ j \in 1 .. Len(s) /\ Len(s) - arguments = j - 1 /\ r \in Info_ /\ (arguments = 1 <=> j = Len(s))
      /\ j - 1 \in Nat
  <2>1. r \in Info_
    <3>1. n \in 0 .. Len(BootstrapsOf(c, all))
      BY <1>3, <1>4
    <3>2. Rest(BootstrapsOf(c, all), n) \in Info_
      BY <1>4, <3>1, RestOf
    <3> QED BY <1>5, <3>2, JoinedNone
  <2> QED BY <1>3, <1>4, <1>5, <2>1
<1>7. /\ x \in Int /\ e \in Table_ /\ Len(e) = Len(s) /\ e[j] = U2(x)
  BY <1>4, <1>5, <1>6, IndexOfConstant
<1>8. /\ u2(pos) = x /\ At(bytes, pos + 2, Rest(e, j) \o r)
      /\ j = Len(s) => At(bytes, pos + 2, r)
  <2>1. At(bytes, pos, Rest(e, j - 1) \o r)
    BY <1>3, <1>5, <1>6
  <2>2. j \in 1 .. Len(e)
    BY <1>6, <1>7
  <2>3. At(bytes, pos, U2(x) \o (Rest(e, j) \o r)) /\ Rest(e, j) \o r \in Info_
    BY <1>1, <1>6, <1>7, <2>1, <2>2, NextEntry
  <2>4. u2(pos) = x /\ At(bytes, pos + 2, Rest(e, j) \o r)
    BY <1>1, <1>7, <2>3, NextTwo
  <2>5. j = Len(s) => Rest(e, j) \o r = r
    BY <1>6, <1>7, TableEnds
  <2> QED BY <2>4, <2>5
<1>9. /\ Filled(n, m, B, "bootstrap_methods", "bootstrap_arguments")'
      /\ \/ arguments = 1 /\ n = m /\ phase' = "read"
         \/ arguments = 1 /\ n # m /\ phase' = "bootstrap_methods"
         \/ arguments # 1 /\ phase' = "bootstrap_arguments"
  <2>1. Filled(n, m, B, "bootstrap_methods", "bootstrap_arguments")
    BY <1>2 DEF Agree, BootstrapsAgree
  <2>2. /\ "bootstrap_methods" \notin B /\ "bootstrap_arguments" \notin B
        /\ "read" \notin B \cup {"bootstrap_methods", "bootstrap_arguments"}
        /\ "bootstrap_methods" # "bootstrap_arguments"
    BY <1>2, BootstrapPhases
  <2>3. n \in Nat /\ m \in Nat /\ left \in Nat /\ left # 0 /\ phase = "bootstrap_arguments"
    BY <1>1, <1>3, <1>4
  <2>4. CASE arguments = 1
    <3>1. left' = left - 1 /\ phase' = (IF left = 1 THEN "read" ELSE "bootstrap_methods")
      BY <1>1, <2>4 DEF NextMember
    <3>2. /\ Filled(n, m, B, "bootstrap_methods", "bootstrap_arguments")'
          /\ (n = m /\ phase' = "read") \/ (n # m /\ phase' = "bootstrap_methods")
      BY ONLY <2>1, <2>2, <2>3, <3>1, Completed
    <3> QED BY <2>4, <3>2
  <2>5. CASE arguments # 1
    <3>1. left' = left /\ phase' = phase
      BY <1>1, <2>5
    <3>2. Filled(n, m, B, "bootstrap_methods", "bootstrap_arguments")'
      BY ONLY <2>1, <3>1 DEF Filled
    <3> QED BY <2>3, <2>5, <3>1, <3>2
  <2> QED BY <2>4, <2>5
<1>10. PICK old, new : /\ old = clazz.bootstrap.methods[n]
                       /\ new = [old EXCEPT !.arguments = Append(@, u2(pos))]
  OBVIOUS
<1>11. /\ clazz'.bootstrap.methods = [clazz.bootstrap.methods EXCEPT ![n] = new]
       /\ clazz'.bootstrap.found = clazz.bootstrap.found
       /\ clazz.bootstrap.methods \in Seq(BootstrapMethod_)
       /\ clazz'.access_flags = clazz.access_flags /\ clazz'.this_class = clazz.this_class
       /\ clazz'.super_class = clazz.super_class /\ clazz'.interfaces = clazz.interfaces
       /\ clazz'.fields = clazz.fields /\ clazz'.methods = clazz.methods
  BY <1>1, <1>2, <1>10 DEF ClassFile_, Bootstrap_
<1>12. /\ Len(clazz'.bootstrap.methods) = n /\ clazz'.bootstrap.methods[n] = new
       /\ \A i \in 1 .. n : i # n => clazz'.bootstrap.methods[i] = clazz.bootstrap.methods[i]
  BY <1>2, <1>3, <1>11
<1>13. BootstrapUpto(c, all[n], old, j - 1)
  <2>1. Given(c, n) = j - 1
    BY <1>1, <1>2, <1>6 DEF Given
  <2>2. n \in 1 .. Len(clazz.bootstrap.methods)
    BY <1>2, <1>3
  <2>3. BootstrapUpto(c, all[n], clazz.bootstrap.methods[n], Given(c, n))
    <3>1. BootstrapsAgree(c)
      BY DEF Agree
    <3> QED BY ONLY <1>2, <2>2, <3>1 DEF BootstrapsAgree, BootstrapUpto
  <2> QED BY <1>10, <2>1, <2>3
<1>14. BootstrapUpto(c, all[n], new, j)
  <2>1. PICK args : args = old.arguments
    OBVIOUS
  <2>2. old \in BootstrapMethod_
    <3>1. clazz.bootstrap.methods \in Seq(BootstrapMethod_) /\ n \in 1 .. Len(clazz.bootstrap.methods)
      BY <1>2, <1>3, <1>11
    <3> QED BY ONLY <1>10, <3>1, ElementOfSeq
  <2>3. args \in Seq(Nat) /\ Len(args) = j - 1 /\ old.ref = Index(c, all[n].ref)
        /\ \A k \in 1 .. j - 1 : args[k] = Index(c, s[k])
    BY <1>2, <1>13, <2>1, <2>2 DEF BootstrapMethod_, BootstrapUpto
  <2>4. new.arguments = Append(args, x) /\ new.ref = old.ref
    BY <1>8, <1>10, <2>1, <2>2 DEF BootstrapMethod_
  <2>5. PICK u : u = new.arguments
    OBVIOUS
  <2>6. /\ Len(u) = (j - 1) + 1 /\ u[(j - 1) + 1] = x
        /\ \A k \in 1 .. j - 1 : u[k] = args[k]
    <3>1. u = Append(args, x) /\ j - 1 = Len(args)
      BY <2>3, <2>4, <2>5
    <3> QED BY <2>3, <3>1, Appended
  <2>7. (j - 1) + 1 = j /\ 1 .. j = (1 .. j - 1) \cup {j}
    BY <1>6
  <2>8. \A k \in 1 .. j : u[k] = Index(c, s[k])
    BY <1>5, <2>3, <2>6, <2>7
  <2> QED BY <1>2, <2>3, <2>4, <2>5, <2>6, <2>7, <2>8 DEF BootstrapUpto
<1>15. BootstrapsAgree(c)'
  <2>1. ASSUME NEW i \in 1 .. n
        PROVE  BootstrapUpto(c, all[i], clazz'.bootstrap.methods[i], Given(c, i)')
    <3>1. CASE i = n
      <4>1. Given(c, i)' = j
        <5>1. CASE arguments = 1
          <6>1. phase' # "bootstrap_arguments" /\ Len(s) = j
            BY <1>6, <1>9, <5>1
          <6> QED BY <1>2, <3>1, <6>1 DEF Given
        <5>2. CASE arguments # 1
          <6>1. phase' = "bootstrap_arguments" /\ Len(s) - arguments' = j
            BY <1>1, <1>4, <1>5, <1>9, <5>2
          <6> QED BY <1>2, <1>12, <3>1, <6>1 DEF Given
        <5> QED BY <5>1, <5>2
      <4> QED BY <1>12, <1>14, <3>1, <4>1
    <3>2. CASE i # n
      <4>1. Given(c, i)' = Given(c, i)
        BY <1>2, <1>12, <3>2 DEF Given
      <4>2. BootstrapUpto(c, all[i], clazz.bootstrap.methods[i], Given(c, i))
        BY <1>2 DEF Agree, BootstrapsAgree, BootstrapUpto
      <4> QED BY <1>12, <3>2, <4>1, <4>2
    <3> QED BY <3>1, <3>2
  <2>2. Filled(Len(clazz.bootstrap.methods), Len(BootstrapMethodsOf(c)),
               BeforeBootstrap \cup {"bootstrap_count"}, "bootstrap_methods", "bootstrap_arguments")'
    BY <1>2, <1>9, <1>12 DEF Filled
  <2>3. phase' # "bootstrap_count" /\ (clazz'.bootstrap.found <=> HasBootstraps(c))
    <3>1. phase \notin BeforeBootstrap \cup {"bootstrap_count"}
      BY <1>1, BootstrapPhases
    <3> QED BY <1>9, <1>11, <3>1 DEF Agree, BootstrapsAgree
  <2> QED BY <1>2, <1>12, <2>1, <2>2, <2>3 DEF BootstrapsAgree, BootstrapUpto
<1>16. phase \in Late /\ phase' \in Late
  BY <1>1, <1>9 DEF Late
<1>17. PoolAgrees(c)' /\ InfoAgrees(c)' /\ InterfacesAgree(c)' /\ FieldsAgree(c)' /\ MethodsAgree(c)'
  BY <1>1, <1>11, <1>16, LateKept
<1>18. Ahead(c)'
  <2>1. CASE arguments = 1 /\ n # m /\ phase' = "bootstrap_methods"
    <3>1. At(bytes', pos', Rest(BootstrapsOf(c, all), Len(clazz'.bootstrap.methods)) \o <<>>)
      BY <1>1, <1>2, <1>5, <1>6, <1>8, <1>12, <2>1
    <3> QED BY <1>2, <2>1, <3>1 DEF Ahead
  <2>2. CASE phase' = "read"
    BY <2>2 DEF Ahead
  <2>3. CASE arguments # 1 /\ phase' = "bootstrap_arguments"
    <3>1. arguments' \in 1 .. Len(s) /\ Len(s) - arguments' = j
      <4>1. arguments' = arguments - 1
        BY <1>1
      <4>2. PICK g : g = Len(s)
        OBVIOUS
      <4>3. g \in Nat /\ arguments \in 1 .. g /\ j = g - arguments + 1
        BY <1>3, <1>4, <1>5, <4>2
      <4>4. arguments' \in 1 .. g /\ g - arguments' = j
        BY ONLY <2>3, <4>1, <4>3
      <4> QED BY <4>2, <4>4
    <3>2. ArgumentsAhead(c)'
      BY <1>1, <1>2, <1>3, <1>5, <1>8, <1>12, <3>1 DEF ArgumentsAhead
    <3> QED BY <2>3, <3>2 DEF Ahead
  <2> QED BY <1>9, <2>1, <2>2, <2>3
<1> QED BY <1>15, <1>17, <1>18 DEF Agree

-----------------------------------------------------------------------------
\* The class stays as it has been read.
LEMMA late_Agree ==
  ASSUME NEW c, Agree(c), phase \in {"read", "loaded", "freeing"},
         phase' \in {"read", "loaded", "freeing", "freed"}, cp' = cp, count' = count, clazz' = clazz
  PROVE  Agree(c)'
<1>1. phase \in Late /\ phase' \in Late
  BY DEF Late
<1>2. PoolAgrees(c)' /\ InfoAgrees(c)' /\ InterfacesAgree(c)' /\ FieldsAgree(c)' /\ MethodsAgree(c)'
  BY <1>1, LateKept
<1>3. BootstrapsAgree(c)'
  <2>1. Beside(BeforeBootstrap \cup {"bootstrap_count"}, "bootstrap_methods", "bootstrap_arguments")
    BY DEF Beside, BeforeBootstrap, BeforeMethods, BeforeFields, BeforeInterfaces, BeforePool
  <2> QED BY <2>1, BootstrapsKept DEF Agree
<1>4. Ahead(c)'
  BY DEF Ahead
<1> QED BY <1>2, <1>3, <1>4 DEF Agree

LEMMA same_Agrees ==
  ASSUME NEW c, Agree(c), UNCHANGED vars
  PROVE  Agree(c)'
<1>1. /\ file' = file /\ phase' = phase /\ pos' = pos /\ left' = left /\ attributes' = attributes
      /\ arguments' = arguments /\ count' = count /\ cp' = cp /\ clazz' = clazz /\ bytes' = bytes
  BY SameBytes DEF vars
<1>2. PoolAgrees(c)'
  BY <1>1 DEF Agree, PoolAgrees, PoolUpto
<1>3. InfoAgrees(c)'
  BY <1>1 DEF Agree, InfoAgrees
<1>4. InterfacesAgree(c)'
  BY <1>1 DEF Agree, InterfacesAgree, Filled
<1>5. FieldsAgree(c)'
  BY <1>1 DEF Agree, FieldsAgree, Filled, NamesRead
<1>6. MethodsAgree(c)'
  <2>1. \A i : Passed(c, i)' = Passed(c, i)
    BY <1>1 DEF Passed
  <2> QED BY <1>1, <2>1 DEF Agree, MethodsAgree, Filled, NamesRead
<1>7. BootstrapsAgree(c)'
  <2>1. \A i : Given(c, i)' = Given(c, i)
    BY <1>1 DEF Given
  <2> QED BY <1>1, <2>1 DEF Agree, BootstrapsAgree, Filled
<1>8. Ahead(c)'
  BY <1>1 DEF Agree, Ahead, MemberAhead, AttributesAhead, ArgumentsAhead
<1> QED BY <1>2, <1>3, <1>4, <1>5, <1>6, <1>7, <1>8 DEF Agree

LEMMA halts_Stop ==
  ASSUME unknown_constant \/ long_in_last_slot \/ assertion_fails \/ no_text \/ premature_end
  PROVE  phase' \in Stopped
BY DEF unknown_constant, long_in_last_slot, assertion_fails, no_text, premature_end, Halt, Stopped

LEMMA get_class_Agrees ==
  ASSUME ReadingInv, NEW c, Formed(c), Agree(c), get_class
  PROVE  phase' \in Stopped \/ Agree(c)'
BY get_class_header_Agrees, get_constant_pool_Agrees, read_constant_Agrees, get_class_info_Agrees,
   get_interface_Agrees, read_interface_Agrees, get_fields_Agrees, read_field_Agrees,
   read_field_attributes_Agrees, get_methods_Agrees, read_method_Agrees,
   read_method_attributes_Agrees, read_bootstrap_attribute_Agrees, skip_class_attribute_Agrees,
   enter_bootstrap_methods_Agrees, num_bootstrap_methods_Agrees, read_bootstrap_method_Agrees,
   read_bootstrap_argument_Agrees, halts_Stop
DEF get_class

LEMMA step_Agrees ==
  ASSUME ReadingInv, NEW c, Formed(c), Agree(c), [Step \/ ended]_vars
  PROVE  phase' \in Stopped \/ Agree(c)'
<1>1. CASE get_class
  BY <1>1, get_class_Agrees
<1>2. CASE add_class \/ free_class_heap
  <2>1. /\ phase \in {"read", "loaded", "freeing"} /\ phase' \in {"read", "loaded", "freeing", "freed"}
        /\ cp' = cp /\ count' = count /\ clazz' = clazz
    BY <1>2 DEF add_class, free_class_heap
  <2> QED BY <2>1, late_Agree
<1>3. CASE free \/ all_freed
  <2>1. /\ phase \in {"read", "loaded", "freeing"}
        /\ phase' \in {"read", "loaded", "freeing", "freed"} \cup Stopped
        /\ cp' = cp /\ count' = count /\ clazz' = clazz
    BY <1>3 DEF free, all_freed, Halt, Stopped
  <2> QED BY <2>1, late_Agree
<1>4. CASE ended \/ UNCHANGED vars
  BY <1>4, same_Agrees DEF ended
<1> QED BY <1>1, <1>2, <1>3, <1>4 DEF Step

\* The file stays the same one.
LEMMA SameFile ==
  ASSUME [Step \/ ended]_vars
  PROVE  file' = file
<1>1. CASE get_class
  BY <1>1 DEF get_class, get_class_header, get_constant_pool, unknown_constant, read_constant,
     long_in_last_slot, get_class_info, get_interface, read_interface, get_fields, read_field,
     read_field_attributes, get_methods, read_method, read_method_attributes,
     read_bootstrap_attribute, skip_class_attribute, enter_bootstrap_methods,
     num_bootstrap_methods, read_bootstrap_method, read_bootstrap_argument, assertion_fails,
     no_text, premature_end, Halt
<1>2. CASE add_class \/ free_class_heap \/ free \/ all_freed
  BY <1>2 DEF add_class, free_class_heap, free, all_freed, Halt
<1>3. CASE ended \/ UNCHANGED vars
  BY <1>3 DEF ended, vars
<1> QED BY <1>1, <1>2, <1>3 DEF Step

-----------------------------------------------------------------------------
\* The inductive invariant: what has been read of a genuine file agrees with
\* the class, and so does what is still to come.
AgreeInv == \A c : c = d /\ Genuine /\ phase \notin Stopped => Agree(c)

LEMMA AgreeInit == Init => AgreeInv
<1> SUFFICES ASSUME Init, NEW c, c = d, Genuine PROVE Agree(c)
  BY DEF AgreeInv
<1>1. /\ phase = "header" /\ pos = 0 /\ cp = <<>> /\ clazz.interfaces = <<>> /\ clazz.fields = <<>>
      /\ clazz.methods = <<>> /\ clazz.bootstrap.methods = <<>>
  BY DEF Init
<1>2. /\ phase \in BeforePool /\ phase \in BeforeInterfaces /\ phase \in BeforeFields
      /\ phase \in BeforeMethods /\ phase \in BeforeBootstrap
  BY <1>1 DEF BeforeBootstrap, BeforeMethods, BeforeFields, BeforeInterfaces, BeforePool
<1>3. 1 .. Len(<<>>) = {} /\ Len(<<>>) = 0
  OBVIOUS
<1>4. PoolAgrees(c) /\ InfoAgrees(c)
  BY <1>1, <1>2 DEF PoolAgrees, InfoAgrees
<1>5. InterfacesAgree(c) /\ FieldsAgree(c) /\ MethodsAgree(c)
  BY <1>1, <1>2, <1>3 DEF InterfacesAgree, FieldsAgree, MethodsAgree, Filled
<1>6. BootstrapsAgree(c)
  <2>1. phase # "bootstrap_count"
    BY <1>1
  <2> QED BY <1>1, <1>2, <1>3, <2>1 DEF BootstrapsAgree, Filled
<1>7. Ahead(c)
  <2>1. \A k \in 1 .. Len(Encode(c)) : k <= Len(bytes) => bytes[k] = Encode(c)[k]
    BY DEF Genuine
  <2>2. At(bytes, 0, Encode(c))
    <3>1. PICK n : n = Len(Encode(c))
      OBVIOUS
    <3>2. \A k \in 1 .. n : 0 + k = k
      OBVIOUS
    <3> QED BY <2>1, <3>1, <3>2 DEF At
  <2> QED BY <1>1, <2>2 DEF Ahead
<1> QED BY <1>4, <1>5, <1>6, <1>7 DEF Agree

LEMMA AgreeStep == ReadingInv /\ AgreeInv /\ [Step \/ ended]_vars => AgreeInv'
<1> SUFFICES ASSUME ReadingInv, AgreeInv, [Step \/ ended]_vars, NEW c, c = d', Genuine',
                    phase' \notin Stopped
             PROVE  Agree(c)'
  BY DEF AgreeInv
<1>1. file' = file
  BY SameFile
<1>2. c = d /\ Genuine
  BY <1>1 DEF d, Genuine, bytes
<1>3. phase \notin Stopped
  <2>1. ASSUME phase \in Stopped
        PROVE  phase' = phase
    <3>1. phase \notin Reading /\ phase \notin {"read", "loaded", "freeing"}
      BY <2>1 DEF Stopped, Reading
    <3>2. ~get_class
      BY <3>1 DEF get_class, get_class_header, get_constant_pool, unknown_constant, read_constant,
         long_in_last_slot, get_class_info, get_interface, read_interface, get_fields, read_field,
         read_field_attributes, get_methods, read_method, read_method_attributes,
         read_bootstrap_attribute, skip_class_attribute, enter_bootstrap_methods,
         num_bootstrap_methods, read_bootstrap_method, read_bootstrap_argument, assertion_fails,
         no_text, premature_end, In, Reading
    <3> QED BY <3>1, <3>2 DEF Step, ended, vars, add_class, free_class_heap, free, all_freed
  <2> QED BY <2>1
<1>4. Formed(c) /\ Agree(c)
  BY <1>2, <1>3 DEF AgreeInv, Genuine
<1> QED BY <1>4, step_Agrees

LEMMA AgreeHolds == Spec => []AgreeInv
<1> QED BY AgreeInit, AgreeStep, ReadingInvHolds, PTL DEF Spec

-----------------------------------------------------------------------------
\* What the constants of a class that has been read stand for.
LEMMA ConstantThere ==
  ASSUME NEW c, Formed(c), PoolUpto(c, Len(c.constants)), NEW k \in DOMAIN c.constants,
         NEW tag, Refer(c, k, tag)
  PROVE  /\ Index(c, k) \in 1 .. count /\ Usable(Index(c, k), tag)
         /\ InfoIs(c, c.constants[k], info(Index(c, k)))
<1>1. k \in 1 .. Len(c.constants) /\ Len(c.constants) \in Nat
  BY DEF Formed
<1>2. cp[Index(c, k)].tag = c.constants[k].tag /\ InfoIs(c, c.constants[k], cp[Index(c, k)].info)
  BY <1>1 DEF PoolUpto
<1>3. Index(c, k) \in 1 .. count
  <2>1. PICK m : m = Len(c.constants) + 1
    OBVIOUS
  <2>2. Index(c, k) < Index(c, m)
    BY <1>1, <2>1, IndexOrder
  <2>3. Index(c, k) \in Nat /\ Index(c, k) >= k /\ Index(c, m) \in Nat
    BY <1>1, <2>1, IndexNat
  <2>4. count = Index(c, m) - 1
    BY <2>1 DEF PoolUpto, Slots
  <2> QED BY <1>1, <2>2, <2>3, <2>4
<1>4. cp[Index(c, k)].tag = tag
  BY <1>2 DEF Refer
<1>5. info(Index(c, k)) # NULL
  BY <1>2 DEF InfoIs, info
<1> QED BY <1>2, <1>3, <1>4, <1>5 DEF Usable, Constant, info

LEMMA TextThere ==
  ASSUME NEW c, Formed(c), PoolUpto(c, Len(c.constants)), NEW k, Refer(c, k, Utf8)
  PROVE  Usable(Index(c, k), Utf8) /\ info(Index(c, k)) = Text(c, k)
<1>1. k \in DOMAIN c.constants /\ c.constants[k].tag = Utf8
  BY DEF Refer
<1> QED BY <1>1, ConstantThere DEF InfoIs, Text

\* A class or a string is one text.
LEMMA NameThere ==
  ASSUME NEW c, Formed(c), PoolUpto(c, Len(c.constants)), NEW k, NEW tag \in {Class, String},
         Refer(c, k, tag)
  PROVE  LET i == Index(c, k) IN
         /\ Usable(i, tag) /\ Usable(info(i)[1], Utf8) /\ info(info(i)[1]) = NameOf(c, k)
         /\ info(i)[1] \in 1 .. count
<1>1. k \in DOMAIN c.constants /\ c.constants[k].tag = tag
  BY DEF Refer
<1>2. PICK n : n = c.constants[k].data[1]
  OBVIOUS
<1>3. Refer(c, n, Utf8)
  BY <1>1, <1>2 DEF Formed, ConstantFormed
<1>4. Usable(Index(c, k), tag) /\ info(Index(c, k)) = <<Index(c, n)>>
  BY <1>1, <1>2, ConstantThere DEF InfoIs
<1>5. Usable(Index(c, n), Utf8) /\ info(Index(c, n)) = Text(c, n)
  BY <1>3, TextThere
<1>6. info(Index(c, k))[1] = Index(c, n)
  BY <1>4
<1>7. NameOf(c, k) = Text(c, n)
  BY <1>2 DEF NameOf, Text
<1> QED BY <1>4, <1>5, <1>6, <1>7 DEF Usable, Constant

\* A member is the name of a class, a name and a descriptor.
LEMMA MemberThere ==
  ASSUME NEW c, Formed(c), PoolUpto(c, Len(c.constants)), NEW k, NEW tag \in {FieldRef, MethodRef},
         Refer(c, k, tag)
  PROVE  find_info_valid(Index(c, k), tag) /\ find_info(Index(c, k)) = MemberOf(c, k)
<1>1. k \in DOMAIN c.constants /\ c.constants[k].tag = tag
  BY DEF Refer
<1>2. PICK i, x, y : i = Index(c, k) /\ x = c.constants[k].data[1] /\ y = c.constants[k].data[2]
  OBVIOUS
<1>3. Refer(c, x, Class) /\ Refer(c, y, NameAndType)
  BY <1>1, <1>2 DEF Formed, ConstantFormed
<1>4. Usable(i, tag) /\ info(i) = <<Index(c, x), Index(c, y)>>
  BY <1>1, <1>2, ConstantThere DEF InfoIs
<1>5. info(i)[1] = Index(c, x) /\ info(i)[2] = Index(c, y)
  BY <1>4
<1>6. /\ Usable(Index(c, x), Class) /\ info(Index(c, x))[1] \in 1 .. count
      /\ info(info(Index(c, x))[1]) = NameOf(c, x)
  BY <1>3, NameThere
<1>7. y \in DOMAIN c.constants /\ c.constants[y].tag = NameAndType
  BY <1>3 DEF Refer
<1>8. PICK v, w : v = c.constants[y].data[1] /\ w = c.constants[y].data[2]
  OBVIOUS
<1>9. Refer(c, v, Utf8) /\ Refer(c, w, Utf8)
  <2>1. \A j \in 1 .. 2 : Refer(c, c.constants[y].data[j], Utf8)
    BY <1>7 DEF Formed, ConstantFormed
  <2> QED BY <1>8, <2>1
<1>10. Usable(Index(c, y), NameAndType) /\ info(Index(c, y)) = <<Index(c, v), Index(c, w)>>
  BY <1>3, <1>7, <1>8, ConstantThere DEF InfoIs
<1>11. info(Index(c, y))[1] = Index(c, v) /\ info(Index(c, y))[2] = Index(c, w)
  BY <1>10
<1>12. /\ Usable(Index(c, v), Utf8) /\ info(Index(c, v)) = Text(c, v)
       /\ Usable(Index(c, w), Utf8) /\ info(Index(c, w)) = Text(c, w)
  BY <1>9, TextThere
<1>13. find_info_valid(i, tag)
  BY <1>4, <1>5, <1>6, <1>10, <1>11, <1>12 DEF find_info_valid
<1>14. find_info(i) = <<NameOf(c, x), Text(c, v), Text(c, w)>>
  BY <1>5, <1>6, <1>11, <1>12 DEF find_info
<1>15. MemberOf(c, k) = <<NameOf(c, x), Text(c, v), Text(c, w)>>
  BY <1>2, <1>8 DEF MemberOf, Text
<1> QED BY <1>2, <1>13, <1>14, <1>15

\* The code found among all the attributes is that of the first Code.
LEMMA CodeIs ==
  ASSUME NEW m, NEW n \in Nat, DOMAIN m.attributes = 1 .. n, NEW code, CodeUpto(m.attributes, n, code)
  PROVE  code = CodeOf(m)
<1>1. PICK s, K : s = m.attributes /\ K = OfKind(m.attributes, "Code")
  OBVIOUS
<1>2. K = {i \in 1 .. n : s[i].kind = "Code"}
  BY <1>1 DEF OfKind
<1>3. CASE code = NoCode /\ \A i \in 1 .. n : s[i].kind # "Code"
  <2>1. K = {}
    BY <1>2, <1>3
  <2> QED BY <1>1, <1>3, <2>1 DEF CodeOf
<1>4. ASSUME NEW i \in 1 .. n, s[i].kind = "Code", \A k \in 1 .. i - 1 : s[k].kind # "Code",
             code = [max_stack |-> s[i].max_stack, max_locals |-> s[i].max_locals, code |-> s[i].code]
      PROVE  code = CodeOf(m)
  <2>1. i \in K /\ \A k \in K : k \in Nat /\ i <= k
    BY <1>2, <1>4
  <2>2. Min(K) = i
    <3>1. \A j \in K : (\A k \in K : j <= k) => j = i
      BY <2>1
    <3> QED BY <2>1, <3>1 DEF Min
  <2>3. FirstOf(m.attributes, "Code") = s[i]
    BY <1>1, <2>2 DEF FirstOf
  <2> QED BY <1>1, <1>4, <2>1, <2>3 DEF CodeOf
<1>5. CodeUpto(s, n, code)
  BY <1>1
<1> QED BY <1>3, <1>4, <1>5 DEF CodeUpto

\* The invariant of a class that is loaded.
LEMMA LoadedAgrees ==
  ASSUME AgreeInv, Genuine, Loaded, NEW c, c = d
  PROVE  /\ Formed(c) /\ PoolUpto(c, Len(c.constants))
         /\ clazz.access_flags = c.access /\ clazz.this_class = Index(c, c.this)
         /\ clazz.super_class = Index(c, c.super)
         /\ Len(clazz.interfaces) = Len(c.interfaces)
         /\ \A i \in 1 .. Len(c.interfaces) : clazz.interfaces[i] = Index(c, c.interfaces[i])
         /\ Len(clazz.fields) = Len(c.fields)
         /\ \A i \in 1 .. Len(c.fields) : NamesRead(c, c.fields[i], clazz.fields[i])
         /\ Len(clazz.methods) = Len(c.methods)
         /\ \A i \in 1 .. Len(c.methods) :
              /\ NamesRead(c, c.methods[i], clazz.methods[i])
              /\ clazz.methods[i].access_flag = c.methods[i].access
              /\ CodeUpto(c.methods[i].attributes, Len(c.methods[i].attributes), clazz.methods[i].code)
         /\ clazz.bootstrap.found <=> HasBootstraps(c)
         /\ Len(clazz.bootstrap.methods) = Len(BootstrapMethodsOf(c))
         /\ \A i \in 1 .. Len(BootstrapMethodsOf(c)) :
              LET b == BootstrapMethodsOf(c)[i]
              IN  BootstrapUpto(c, b, clazz.bootstrap.methods[i], Len(b.arguments))
<1>1. Agree(c) /\ Formed(c)
  BY DEF AgreeInv, Loaded, Stopped, Genuine
<1>2. /\ phase \notin BeforePool \cup {"constants"}
      /\ phase \notin BeforePool \cup {"constants", "class_info"}
      /\ phase \notin BeforeInterfaces \cup {"interfaces", "none"}
      /\ phase \notin BeforeFields \cup {"fields", "field_attributes"}
      /\ phase \notin BeforeMethods \cup {"methods", "method_attributes"}
      /\ phase \notin BeforeBootstrap \cup {"bootstrap_count"}
      /\ phase \notin (BeforeBootstrap \cup {"bootstrap_count"})
                      \cup {"bootstrap_methods", "bootstrap_arguments"}
      /\ phase # "method_attributes" /\ phase # "bootstrap_arguments"
  BY DEF Loaded, BeforeBootstrap, BeforeMethods, BeforeFields, BeforeInterfaces, BeforePool
<1>3. PoolUpto(c, Len(c.constants))
  BY <1>1, <1>2 DEF Agree, PoolAgrees
<1>4. /\ clazz.access_flags = c.access /\ clazz.this_class = Index(c, c.this)
      /\ clazz.super_class = Index(c, c.super)
  BY <1>1, <1>2 DEF Agree, InfoAgrees
<1>5. /\ Len(clazz.interfaces) = Len(c.interfaces)
      /\ \A i \in 1 .. Len(c.interfaces) : clazz.interfaces[i] = Index(c, c.interfaces[i])
  BY <1>1, <1>2 DEF Agree, InterfacesAgree, Filled
<1>6. /\ Len(clazz.fields) = Len(c.fields)
      /\ \A i \in 1 .. Len(c.fields) : NamesRead(c, c.fields[i], clazz.fields[i])
  BY <1>1, <1>2 DEF Agree, FieldsAgree, Filled
<1>7. /\ Len(clazz.methods) = Len(c.methods)
      /\ \A i \in 1 .. Len(c.methods) :
           /\ NamesRead(c, c.methods[i], clazz.methods[i])
           /\ clazz.methods[i].access_flag = c.methods[i].access
           /\ CodeUpto(c.methods[i].attributes, Len(c.methods[i].attributes), clazz.methods[i].code)
  <2>1. \A i : Passed(c, i) = Len(c.methods[i].attributes)
    BY <1>2 DEF Passed
  <2> QED BY <1>1, <1>2, <2>1 DEF Agree, MethodsAgree, Filled
<1>8. clazz.bootstrap.found <=> HasBootstraps(c)
  BY <1>1, <1>2 DEF Agree, BootstrapsAgree
<1>9. /\ Len(clazz.bootstrap.methods) = Len(BootstrapMethodsOf(c))
      /\ \A i \in 1 .. Len(BootstrapMethodsOf(c)) :
           LET b == BootstrapMethodsOf(c)[i]
           IN  BootstrapUpto(c, b, clazz.bootstrap.methods[i], Len(b.arguments))
  <2>1. \A i : Given(c, i) = Len(BootstrapMethodsOf(c)[i].arguments)
    BY <1>2 DEF Given
  <2>2. Len(clazz.bootstrap.methods) = Len(BootstrapMethodsOf(c))
    BY <1>1, <1>2 DEF Agree, BootstrapsAgree, Filled
  <2> QED BY <1>1, <2>1, <2>2 DEF Agree, BootstrapsAgree, BootstrapUpto
<1> QED BY <1>1, <1>3, <1>4, <1>5, <1>6, <1>7, <1>8, <1>9

LEMMA BootstrapIsRead ==
  ASSUME ReadingInv, AgreeInv, Genuine, Loaded, NEW i \in 1 .. Len(BootstrapMethodsOf(d))
  PROVE  BootstrapRead(BootstrapMethodsOf(d)[i], clazz.bootstrap.methods[i])
<1>1. PICK c, b, r, n : /\ c = d /\ b = BootstrapMethodsOf(c)[i] /\ r = clazz.bootstrap.methods[i]
                        /\ n = Len(b.arguments)
  OBVIOUS
<1>2. /\ Formed(c) /\ Len(clazz.bootstrap.methods) = Len(BootstrapMethodsOf(c))
      /\ BootstrapUpto(c, b, r, n)
  BY <1>1, LoadedAgrees
<1>3. r.arguments \in Seq(Nat)
  <2>1. clazz.bootstrap.methods \in Seq(BootstrapMethod_)
    BY DEF ReadingInv, Typed, ClassFile_, Bootstrap_
  <2>2. r \in BootstrapMethod_
    BY <1>1, <1>2, <2>1, ElementOfSeq
  <2> QED BY <2>2 DEF BootstrapMethod_
<1>4. r.arguments = [k \in 1 .. n |-> Index(c, b.arguments[k])]
  <2>1. PICK u : u = r.arguments
    OBVIOUS
  <2>2. u \in Seq(Nat) /\ Len(u) = n /\ \A k \in 1 .. n : u[k] = Index(c, b.arguments[k])
    BY <1>2, <1>3, <2>1 DEF BootstrapUpto
  <2>3. u = [k \in 1 .. n |-> u[k]]
    BY <2>2
  <2> QED BY <2>1, <2>2, <2>3
<1> QED BY <1>1, <1>2, <1>4 DEF BootstrapRead, BootstrapUpto

\* A class that get_class() returns is the one the file was written from: its
\* names, members, code and bootstrap methods, for every class, wherever longs
\* stand in its pool and whatever attributes are skipped, and for every file
\* that agrees with the class as far as it goes, so that none that ends too
\* early is taken for something else.
THEOREM ReadsBackHolds == Spec => [](Genuine => ReadsBack)
<1>1. ReadingInv /\ AgreeInv => (Genuine => ReadsBack)
  <2> SUFFICES ASSUME ReadingInv, AgreeInv, Genuine, Loaded
               PROVE  ReadsBack
    BY DEF ReadsBack
  <2>1. PICK c : c = d
    OBVIOUS
  <2>2. /\ Formed(c) /\ PoolUpto(c, Len(c.constants))
        /\ clazz.access_flags = c.access /\ clazz.this_class = Index(c, c.this)
        /\ clazz.super_class = Index(c, c.super)
    BY <2>1, LoadedAgrees
  <2>3. /\ find_class_name_from_index_valid(clazz.this_class)
        /\ find_class_name_from_index(clazz.this_class) = NameOf(c, c.this)
    <3>1. Refer(c, c.this, Class)
      BY <2>2 DEF Formed
    <3> QED BY <2>2, <3>1, NameThere DEF find_class_name_from_index_valid, find_class_name_from_index
  <2>4. clazz.interfaces = [i \in 1 .. Len(c.interfaces) |-> Index(c, c.interfaces[i])]
    <3>1. PICK u, n : u = clazz.interfaces /\ n = Len(c.interfaces)
      OBVIOUS
    <3>2. u \in Seq(Nat)
      BY <3>1 DEF ReadingInv, Typed, ClassFile_
    <3>3. Len(u) = n /\ \A k \in 1 .. n : u[k] = Index(c, c.interfaces[k])
      BY <2>1, <3>1, LoadedAgrees
    <3>4. u = [k \in 1 .. n |-> u[k]]
      BY <3>2, <3>3
    <3> QED BY <3>1, <3>3, <3>4
  <2>5. Same(c.fields, clazz.fields, FieldRead)
    <3>1. /\ Len(clazz.fields) = Len(c.fields)
          /\ \A i \in 1 .. Len(c.fields) : NamesRead(c, c.fields[i], clazz.fields[i])
      BY <2>1, LoadedAgrees
    <3> QED BY <2>1, <3>1 DEF Same, FieldRead, NamesRead
  <2>6. Same(c.methods, clazz.methods, MethodRead)
    <3>1. /\ Len(clazz.methods) = Len(c.methods)
          /\ \A i \in 1 .. Len(c.methods) :
               /\ NamesRead(c, c.methods[i], clazz.methods[i])
               /\ clazz.methods[i].access_flag = c.methods[i].access
               /\ CodeUpto(c.methods[i].attributes, Len(c.methods[i].attributes), clazz.methods[i].code)
      BY <2>1, LoadedAgrees
    <3>2. ASSUME NEW i \in 1 .. Len(c.methods)
          PROVE  clazz.methods[i].code = CodeOf(c.methods[i])
      <4>1. c.methods[i].attributes \in Seq(Attributes_(c))
        BY <2>2, MembersEncoded, ClassEncoded
      <4>2. PICK n : n = Len(c.methods[i].attributes)
        OBVIOUS
      <4>3. n \in Nat /\ DOMAIN c.methods[i].attributes = 1 .. n
        BY <4>1, <4>2
      <4> QED BY <3>1, <4>2, <4>3, CodeIs
    <3> QED BY <2>1, <3>1, <3>2 DEF Same, MethodRead, NamesRead
  <2>7. clazz.bootstrap.found <=> OfKind(c.attributes, "BootstrapMethods") # {}
    BY <2>1, LoadedAgrees DEF HasBootstraps
  <2>8. Same(BootstrapMethodsOf(c), clazz.bootstrap.methods, BootstrapRead)
    <3>1. Len(clazz.bootstrap.methods) = Len(BootstrapMethodsOf(c))
      BY <2>1, LoadedAgrees
    <3>2. \A i \in 1 .. Len(BootstrapMethodsOf(c)) :
            BootstrapRead(BootstrapMethodsOf(c)[i], clazz.bootstrap.methods[i])
      BY <2>1, BootstrapIsRead
    <3> QED BY <3>1, <3>2 DEF Same
  <2> QED BY <2>1, <2>2, <2>3, <2>4, <2>5, <2>6, <2>7, <2>8 DEF ReadsBack
<1> QED BY <1>1, ReadingInvHolds, AgreeHolds, PTL

\* An index that stands for no constant, the second slot of a long among them,
\* holds nothing.
LEMMA OnlyConstants ==
  ASSUME ReadingInv, NEW c, Formed(c), PoolUpto(c, Len(c.constants)), Len(cp) = count,
         NEW i, NEW tag, Usable(i, tag)
  PROVE  \E n \in DOMAIN c.constants : Index(c, n) = i /\ c.constants[n].tag = tag
<1>1. i \in 1 .. Len(cp) /\ cp[i].tag = tag /\ cp[i].info # NULL
  BY DEF Usable, Constant, info
<1>2. PICK k \in 1 .. Len(c.constants) : i = Index(c, k)
  BY <1>1 DEF PoolUpto
<1>3. c.constants[k].tag = tag
  BY <1>1, <1>2 DEF PoolUpto
<1>4. k \in DOMAIN c.constants
  BY DEF Formed
<1> QED BY <1>2, <1>3, <1>4

\* What an index is asserted to be, tag by tag.
LEMMA ResolvesIs ==
  ASSUME NEW i
  PROVE  /\ \A tag \in {FieldRef, MethodRef} : Resolves(i, tag) <=> find_info_valid(i, tag)
         /\ Resolves(i, Class) <=> find_class_name_from_index_valid(i)
         /\ Resolves(i, String) <=> get_string_utf_valid(i)
         /\ Resolves(i, InvokeDynamic) <=> find_bootstrap_method_valid(i)
BY DEF Resolves, FieldRef, MethodRef, Class, String, InvokeDynamic

\* A reference to a bootstrap method is in range, and finds the one of the class.
LEMMA BootstrapThere ==
  ASSUME ReadingInv, AgreeInv, Genuine, Loaded, NEW n \in DOMAIN d.constants,
         d.constants[n].tag = InvokeDynamic
  PROVE  LET i == Index(d, n) IN
         /\ find_bootstrap_method_valid(i)
         /\ BootstrapRead(BootstrapMethodsOf(d)[Text(d, n)[1] + 1], find_bootstrap_method(i))
<1>1. PICK c : c = d
  OBVIOUS
<1>2. PICK i, j, B : i = Index(c, n) /\ j = c.constants[n].data[1] /\ B = BootstrapMethodsOf(c)
  OBVIOUS
<1>3. /\ Formed(c) /\ PoolUpto(c, Len(c.constants))
      /\ clazz.bootstrap.found <=> HasBootstraps(c)
      /\ Len(clazz.bootstrap.methods) = Len(B)
  BY <1>1, <1>2, LoadedAgrees
<1>4. j \in 0 .. Len(B) - 1
  BY <1>1, <1>2, <1>3 DEF Formed, ConstantFormed
<1>5. Len(B) \in Nat
  <2>1. clazz.bootstrap.methods \in Seq(BootstrapMethod_)
    BY DEF ReadingInv, Typed, ClassFile_, Bootstrap_
  <2>2. Len(clazz.bootstrap.methods) \in Nat
    BY <2>1
  <2> QED BY <1>3, <2>2
<1>6. clazz.bootstrap.found
  <2>1. ASSUME ~HasBootstraps(c)
        PROVE  FALSE
    <3>1. B = <<>>
      BY <1>2, <2>1 DEF BootstrapMethodsOf, HasBootstraps
    <3>2. Len(<<>>) = 0
      OBVIOUS
    <3>3. j \in 0 .. 0 - 1
      BY <1>4, <3>1, <3>2
    <3> QED BY <3>3
  <2> QED BY <1>3, <2>1
<1>7. Usable(i, InvokeDynamic) /\ info(i)[1] = j
  <2>1. Refer(c, n, InvokeDynamic)
    BY <1>1 DEF Refer
  <2>2. Usable(i, InvokeDynamic) /\ info(i) = <<j, Index(c, c.constants[n].data[2])>>
    BY <1>1, <1>2, <1>3, <2>1, ConstantThere DEF InfoIs
  <2> QED BY <2>2
<1>8. find_bootstrap_method_valid(i)
  BY <1>3, <1>4, <1>5, <1>6, <1>7 DEF find_bootstrap_method_valid
<1>9. BootstrapRead(B[j + 1], clazz.bootstrap.methods[j + 1])
  <2>1. j + 1 \in 1 .. Len(B)
    BY <1>4, <1>5
  <2> QED BY <1>1, <1>2, <2>1, BootstrapIsRead
<1>10. Text(d, n)[1] = j
  BY <1>1, <1>2 DEF Text
<1>11. find_bootstrap_method(i) = clazz.bootstrap.methods[j + 1]
  BY <1>7 DEF find_bootstrap_method
<1> QED BY <1>1, <1>2, <1>8, <1>9, <1>10, <1>11

\* Every constant an instruction can refer to resolves to the names, the text
\* or the bootstrap method it stands for, and an index that stands for nothing
\* of the kind ends the process (the find_ functions of java_file.c), for every
\* class and every pool.
THEOREM ReferencesResolveHolds == Spec => [](Genuine => ReferencesResolve)
<1>1. ReadingInv /\ AgreeInv => (Genuine => ReferencesResolve)
  <2> SUFFICES ASSUME ReadingInv, AgreeInv, Genuine, phase = "loaded"
               PROVE  ReferencesResolve
    BY DEF ReferencesResolve
  <2>1. PICK c : c = d
    OBVIOUS
  <2>2. Loaded /\ Len(cp) = count
    BY DEF Loaded, ReadingInv, Phased, Kept, BeforePool
  <2>3. Formed(c) /\ PoolUpto(c, Len(c.constants))
    BY <2>1, <2>2, LoadedAgrees
  <2>4. ASSUME NEW n \in DOMAIN d.constants
        PROVE  LET i == Index(d, n) IN
               /\ \A tag \in {FieldRef, MethodRef} :
                    Refers(n, tag) => Resolves(i, tag) /\ find_info(i) = MemberOf(d, n)
               /\ Refers(n, Class) => Resolves(i, Class) /\ find_class_name_from_index(i) = NameOf(d, n)
               /\ Refers(n, String) => Resolves(i, String) /\ get_string_utf(i) = NameOf(d, n)
               /\ Refers(n, InvokeDynamic) =>
                    /\ Resolves(i, InvokeDynamic)
                    /\ BootstrapRead(BootstrapMethodsOf(d)[Text(d, n)[1] + 1], find_bootstrap_method(i))
    <3>1. \A tag : Refers(n, tag) => Refer(c, n, tag)
      BY <2>1, <2>4 DEF Refers, Refer
    <3>2. PICK i : i = Index(c, n)
      OBVIOUS
    <3>3. ASSUME NEW tag \in {FieldRef, MethodRef}, Refers(n, tag)
          PROVE  find_info_valid(i, tag) /\ find_info(i) = MemberOf(c, n)
      BY <2>3, <3>1, <3>2, <3>3, MemberThere
    <3>4. ASSUME Refers(n, Class)
          PROVE  /\ find_class_name_from_index_valid(i)
                 /\ find_class_name_from_index(i) = NameOf(c, n)
      BY <2>3, <3>1, <3>2, <3>4, NameThere
      DEF find_class_name_from_index_valid, find_class_name_from_index
    <3>5. ASSUME Refers(n, String)
          PROVE  get_string_utf_valid(i) /\ get_string_utf(i) = NameOf(c, n)
      BY <2>3, <3>1, <3>2, <3>5, NameThere DEF get_string_utf_valid, get_string_utf
    <3>6. ASSUME Refers(n, InvokeDynamic)
          PROVE  /\ find_bootstrap_method_valid(Index(d, n))
                 /\ BootstrapRead(BootstrapMethodsOf(d)[Text(d, n)[1] + 1],
                                  find_bootstrap_method(Index(d, n)))
      BY <2>2, <2>4, <3>6, BootstrapThere DEF Refers
    <3> QED BY <2>1, <3>2, <3>3, <3>4, <3>5, <3>6, ResolvesIs
  <2>5. ASSUME NEW i \in 0 .. Slots(d),
               NEW tag \in {FieldRef, MethodRef, Class, String, InvokeDynamic}, Resolves(i, tag)
        PROVE  \E n \in DOMAIN d.constants : Index(d, n) = i /\ Refers(n, tag)
    <3>1. Usable(i, tag)
      BY <2>5, ResolvesIs DEF find_info_valid, find_class_name_from_index_valid,
                              get_string_utf_valid, find_bootstrap_method_valid
    <3>2. \E n \in DOMAIN c.constants : Index(c, n) = i /\ c.constants[n].tag = tag
      BY <2>2, <2>3, <3>1, OnlyConstants
    <3> QED BY <2>1, <3>2 DEF Refers
  <2> QED BY <2>4, <2>5 DEF ReferencesResolve
<1> QED BY <1>1, ReadingInvHolds, AgreeHolds, PTL

-----------------------------------------------------------------------------
\* A reference to a method of the class itself finds that method, of several
\* overloaded ones the one with the descriptor, and a reference to none finds
\* none (find_method_from_index), for every class.
THEOREM MethodsFoundHolds == Spec => [](Genuine => MethodsFound)
<1>1. ReadingInv /\ AgreeInv => (Genuine => MethodsFound)
  <2> SUFFICES ASSUME ReadingInv, AgreeInv, Genuine, phase = "loaded",
                      NEW n \in DOMAIN d.constants, Refers(n, MethodRef)
               PROVE  LET found == find_method_from_index(Index(d, n))
                          meant == {m \in DOMAIN d.methods :
                                      <<Text(d, d.methods[m].name), Text(d, d.methods[m].desc)>>
                                      = Tail(MemberOf(d, n))}
                      IN  IF meant = {} THEN found = 0 ELSE found \in meant
    BY DEF MethodsFound
  <2>1. PICK c : c = d
    OBVIOUS
  <2>2. Loaded
    BY DEF Loaded
  <2>3. /\ Formed(c) /\ PoolUpto(c, Len(c.constants))
        /\ Len(clazz.methods) = Len(c.methods)
        /\ \A i \in 1 .. Len(c.methods) : NamesRead(c, c.methods[i], clazz.methods[i])
    BY <2>1, <2>2, LoadedAgrees
  <2>4. PICK l : l = Len(c.methods)
    OBVIOUS
  <2>5. l \in Nat /\ DOMAIN c.methods = 1 .. l
    BY <2>3, <2>4 DEF Formed
  <2>6. listed = 1 .. l
    <3>1. ASSUME NEW k \in 1 .. l
          PROVE  clazz.methods[k].name # NULL
      <4>1. PICK m : m = c.methods[k].name
        OBVIOUS
      <4>2. clazz.methods[k].name = Text(c, m) /\ Refer(c, m, Utf8)
        BY <2>3, <2>4, <4>1 DEF NamesRead
      <4>3. Usable(Index(c, m), Utf8) /\ info(Index(c, m)) = Text(c, m)
        BY <2>3, <4>2, TextThere
      <4> QED BY <4>2, <4>3 DEF Usable
    <3>2. \A m \in 1 .. l : 1 .. m \subseteq 1 .. l
      BY <2>5
    <3> QED BY <2>3, <2>4, <3>1, <3>2 DEF listed
  <2>7. PICK u, x, y : u = MemberOf(c, n) /\ x = u[2] /\ y = u[3]
    OBVIOUS
  <2>8. find_info(Index(c, n)) = u
    <3>1. Refer(c, n, MethodRef)
      BY <2>1 DEF Refers, Refer
    <3> QED BY <2>3, <2>7, <3>1, MemberThere
  <2>9. Tail(u) = <<x, y>>
    <3>1. PICK v : u = <<v, x, y>>
      BY <2>7 DEF MemberOf
    <3> QED BY <3>1
  <2>10. PICK S : S = {m \in 1 .. l : clazz.methods[m].name = x /\ clazz.methods[m].descriptor = y}
    OBVIOUS
  <2>11. {m \in DOMAIN c.methods : <<Text(c, c.methods[m].name), Text(c, c.methods[m].desc)>>
                                   = Tail(MemberOf(c, n))} = S
    <3>1. ASSUME NEW m \in 1 .. l
          PROVE  <<Text(c, c.methods[m].name), Text(c, c.methods[m].desc)>> = Tail(MemberOf(c, n))
                 <=> clazz.methods[m].name = x /\ clazz.methods[m].descriptor = y
      <4>1. PICK v, w : v = Text(c, c.methods[m].name) /\ w = Text(c, c.methods[m].desc)
        OBVIOUS
      <4>2. clazz.methods[m].name = v /\ clazz.methods[m].descriptor = w
        BY <2>3, <2>4, <4>1 DEF NamesRead
      <4>3. Tail(MemberOf(c, n)) = <<x, y>>
        BY <2>7, <2>9
      <4>4. <<v, w>> = <<x, y>> <=> v = x /\ w = y
        OBVIOUS
      <4> QED BY <4>1, <4>2, <4>3, <4>4
    <3> QED BY <2>5, <2>10, <3>1
  <2>12. find_method_from_index(Index(c, n))
         = IF S = {} THEN 0 ELSE CHOOSE m \in S : \A k \in S : m <= k
    BY <2>6, <2>7, <2>8, <2>10 DEF find_method_from_index, find_method
  <2>13. S \in SUBSET (1 .. l)
    BY <2>10
  <2>14. IF S = {} THEN find_method_from_index(Index(c, n)) = 0
         ELSE find_method_from_index(Index(c, n)) \in S
    <3>1. CASE S = {}
      BY <2>12, <3>1
    <3>2. CASE S # {}
      <4>1. S \in SUBSET Nat
        BY <2>5, <2>13
      <4>2. \E m \in S : \A k \in S : m <= k
        BY <3>2, <4>1, Least
      <4> QED BY <2>12, <3>2, <4>2
    <3> QED BY <3>1, <3>2
  <2> QED BY <2>1, <2>11, <2>14
<1> QED BY <1>1, ReadingInvHolds, AgreeHolds, PTL
=============================================================================

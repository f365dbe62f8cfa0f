--------------------------- MODULE StringsProofs ---------------------------
(***************************************************************************)
(* The loops of CStrings give what Java gives, for strings of any length,  *)
(* any number of operands, lines and parameters, and any width of the      *)
(* buffer of readLine.                                                     *)
(***************************************************************************)
EXTENDS StringsLikeJava, SequenceLemmas, FiniteSetTheorems

-----------------------------------------------------------------------------
\* The digits of a number are the digits.
LEMMA DigitsTyped ==
  ASSUME NEW n \in Nat
  PROVE  Digits(n) \in Seq(Byte)
<1> DEFINE more(s, k) == (IF k < 10 THEN <<>> ELSE s) \o <<Zero + (k % 10)>>
           P(f) == f = [k \in 0 .. n |-> (IF k < 10 THEN <<>> ELSE f[k \div 10]) \o <<Zero + (k % 10)>>]
           of == CHOOSE f : P(f)
<1>1. \A k \in Nat, s \in Seq(Byte) : more(s, k) \in Seq(Byte)
  <2> TAKE k \in Nat, s \in Seq(Byte)
  <2>1. Zero + (k % 10) \in Byte
    BY DEF Zero, Byte
  <2>2. <<Zero + (k % 10)>> \in Seq(Byte) /\ <<>> \in Seq(Byte)
    BY <2>1
  <2> QED BY <2>2
<1> HIDE DEF more
<1> DEFINE Given(m) == \E f \in [0 .. m -> Seq(Byte)] : \A k \in 0 .. m : f[k] = more(f[k \div 10], k)
           S == {m \in Nat : Given(m)}
<1>2. S = Nat
  <2>1. 0 \in S
    <3> DEFINE f == [k \in 0 .. 0 |-> more(<<>>, k)]
    <3>1. \A k \in 0 .. 0 : more(<<>>, k) = more(f[k \div 10], k)
      BY DEF more
    <3>2. f \in [0 .. 0 -> Seq(Byte)]
      <4>1. \A k \in 0 .. 0 : more(<<>>, k) \in Seq(Byte)
        <5>1. <<>> \in Seq(Byte) /\ 0 \in Nat
          OBVIOUS
        <5>2. more(<<>>, 0) \in Seq(Byte)
          BY <1>1, <5>1
        <5>3. \A k \in 0 .. 0 : k = 0
          OBVIOUS
        <5> QED BY <5>2, <5>3
      <4> QED BY <4>1
    <3> QED BY <3>1, <3>2
  <2>2. ASSUME NEW m \in S
        PROVE  m + 1 \in S
    <3>1. PICK f \in [0 .. m -> Seq(Byte)] : \A k \in 0 .. m : f[k] = more(f[k \div 10], k)
      OBVIOUS
    <3>2. (m + 1) \div 10 \in 0 .. m /\ \A k \in 0 .. m : k \div 10 \in 0 .. m
      OBVIOUS
    <3> DEFINE g == [k \in 0 .. m + 1 |-> IF k = m + 1 THEN more(f[(m + 1) \div 10], m + 1) ELSE f[k]]
    <3>3. g \in [0 .. m + 1 -> Seq(Byte)]
      BY <1>1, <3>2
    <3>4. \A k \in 0 .. m + 1 : g[k] = more(g[k \div 10], k)
      BY <3>1, <3>2
    <3>5. Given(m + 1)
      <4> HIDE DEF g
      <4> QED BY <3>3, <3>4
    <3> HIDE DEF Given
    <3> QED BY <3>5
  <2> HIDE DEF S
  <2>3. S \in SUBSET Nat
    BY DEF S
  <2> QED BY <2>1, <2>2, <2>3, SetInduction
<1>3. P(of)
  <2>1. Given(n)
    BY <1>2
  <2>2. PICK f \in [0 .. n -> Seq(Byte)] : \A k \in 0 .. n : f[k] = more(f[k \div 10], k)
    BY <2>1
  <2>3. P(f)
    BY <2>2 DEF more
  <2> HIDE DEF P
  <2> QED BY <2>3
<1>4. \A k \in 0 .. n : of[k] = more(of[k \div 10], k)
  BY <1>3 DEF more
<1> HIDE DEF of, P
<1> DEFINE T == {m \in Nat : \A k \in 0 .. m : k <= n => of[k] \in Seq(Byte)}
<1>5. T = Nat
  <2>1. 0 \in T
    <3>1. of[0] = more(of[0 \div 10], 0)
      BY <1>4
    <3>2. more(of[0 \div 10], 0) = more(<<>>, 0)
      BY DEF more
    <3>3. of[0] \in Seq(Byte)
      <4>1. <<>> \in Seq(Byte)
        OBVIOUS
      <4> QED BY <1>1, <3>1, <3>2, <4>1
    <3> QED BY <3>3
  <2>2. ASSUME NEW m \in T
        PROVE  m + 1 \in T
    <3>1. m + 1 <= n => of[m + 1] \in Seq(Byte)
      <4>1. (m + 1) \div 10 \in 0 .. m
        OBVIOUS
      <4> QED BY <1>1, <1>4, <4>1
    <3> QED BY <3>1
  <2> HIDE DEF T
  <2>3. T \in SUBSET Nat
    BY DEF T
  <2> QED BY <2>1, <2>2, <2>3, SetInduction
<1>6. Digits(n) = of[n]
  BY Zenon DEF Digits, of, P
<1> QED BY <1>5, <1>6

-----------------------------------------------------------------------------
\* The placeholders in front of a place.
Nth(r, k) == Placeholders(SubSeq(r, 1, k))

LEMMA Counted ==
  ASSUME NEW r \in Seq(Byte)
  PROVE  /\ Nth(r, 0) = 0 /\ Nth(r, Len(r)) = Placeholders(r) /\ Placeholders(r) \in Nat
         /\ \A k \in 0 .. Len(r) : Nth(r, k) \in Nat
         /\ \A k \in 0 .. Len(r) - 1 :
              Nth(r, k + 1) = IF r[k + 1] = Placeholder THEN Nth(r, k) + 1 ELSE Nth(r, k)
<1> DEFINE Places(k) == {j \in 1 .. k : r[j] = Placeholder}
<1>0. Len(r) \in Nat /\ SubSeq(r, 1, Len(r)) = r
  OBVIOUS
<1>1. ASSUME NEW k \in 0 .. Len(r)
      PROVE  /\ Nth(r, k) = Cardinality(Places(k))
             /\ IsFiniteSet(Places(k)) /\ Cardinality(Places(k)) \in Nat
  <2>1. DOMAIN SubSeq(r, 1, k) = 1 .. k /\ \A j \in 1 .. k : SubSeq(r, 1, k)[j] = r[j]
    BY <1>0
  <2>2. {j \in DOMAIN SubSeq(r, 1, k) : SubSeq(r, 1, k)[j] = Placeholder} = Places(k)
    BY <2>1
  <2>3. IsFiniteSet(1 .. k) /\ Places(k) \subseteq 1 .. k
    BY FS_Interval
  <2> QED BY <2>2, <2>3, FS_Subset, FS_CardinalityType DEF Nth, Placeholders
<1>2. Nth(r, 0) = 0
  <2>1. Places(0) = {}
    OBVIOUS
  <2> QED BY <1>0, <1>1, <2>1, FS_EmptySet
<1>3. ASSUME NEW k \in 0 .. Len(r) - 1
      PROVE  Nth(r, k + 1) = IF r[k + 1] = Placeholder THEN Nth(r, k) + 1 ELSE Nth(r, k)
  <2>1. k \in 0 .. Len(r) /\ k + 1 \in 0 .. Len(r)
    BY <1>0
  <2>2. CASE r[k + 1] = Placeholder
    <3>1. Places(k + 1) = Places(k) \cup {k + 1} /\ k + 1 \notin Places(k)
      BY <2>1, <2>2
    <3> HIDE DEF Places
    <3>2. Cardinality(Places(k + 1)) = Cardinality(Places(k)) + 1
      BY <1>1, <2>1, <3>1, FS_AddElement
    <3> QED BY <1>1, <2>1, <2>2, <3>2
  <2>3. CASE r[k + 1] # Placeholder
    <3>1. Places(k + 1) = Places(k)
      BY <2>1, <2>3
    <3> HIDE DEF Places
    <3> QED BY <1>1, <2>1, <2>3, <3>1
  <2> QED BY <2>2, <2>3
<1>4. Nth(r, Len(r)) = Placeholders(r)
  BY <1>0 DEF Nth
<1>5. Placeholders(r) \in Nat
  <2>1. Len(r) \in 0 .. Len(r)
    BY <1>0
  <2> QED BY <1>1, <1>4, <2>1
<1> QED BY <1>1, <1>2, <1>3, <1>4, <1>5

LEMMA NthGrows ==
  ASSUME NEW r \in Seq(Byte), NEW k \in 0 .. Len(r)
  PROVE  Nth(r, k) <= Placeholders(r)
<1> DEFINE T == {n \in Nat : n <= Len(r) => Nth(r, Len(r) - n) <= Placeholders(r)}
<1>0. Len(r) \in Nat
  OBVIOUS
<1>1. 0 \in T
  BY <1>0, Counted
<1>2. ASSUME NEW n \in T
      PROVE  n + 1 \in T
  <2>1. ASSUME n + 1 <= Len(r)
        PROVE  Nth(r, Len(r) - (n + 1)) <= Placeholders(r)
    <3>1. PICK m : m = Len(r) - (n + 1)
      OBVIOUS
    <3>2. m \in 0 .. Len(r) - 1 /\ m \in 0 .. Len(r) /\ m + 1 = Len(r) - n /\ m + 1 \in 0 .. Len(r)
      BY <1>0, <2>1, <3>1
    <3>3. Nth(r, m + 1) <= Placeholders(r)
      BY <1>0, <2>1, <3>2
    <3>4. /\ Nth(r, m) \in Nat /\ Placeholders(r) \in Nat
          /\ Nth(r, m + 1) = Nth(r, m) + 1 \/ Nth(r, m + 1) = Nth(r, m)
      BY <3>2, Counted
    <3> QED BY <3>1, <3>3, <3>4
  <2> QED BY <2>1
<1>3. T = Nat
  <2> HIDE DEF T
  <2>1. T \in SUBSET Nat
    BY DEF T
  <2> QED BY <1>1, <1>2, <2>1, SetInduction
<1>4. Len(r) - k \in T /\ Len(r) - (Len(r) - k) = k /\ Len(r) - k <= Len(r)
  <2> HIDE DEF T
  <2> QED BY <1>0, <1>3
<1> QED BY <1>4

-----------------------------------------------------------------------------
\* Concatenation.
Own(c) == Placeholders(c.recipe)

Texts(c) == [i \in 1 .. Own(c) |-> Text(c.operands[Len(c.operands) - Own(c) + i])]

Pieces(c) == [k \in DOMAIN c.recipe |-> IF c.recipe[k] = Placeholder
                                        THEN Text(c.operands[Len(c.operands) - Own(c) + Nth(c.recipe, k)])
                                        ELSE <<c.recipe[k]>>]

LEMMA BytesTyped == (\A b \in Byte : b \in Int) /\ \A s \in Seq(Byte) : s \in Seq(Int)
<1>1. \A b \in Byte : b \in Int
  BY DEF Byte
<1>2. Byte \subseteq Int
  BY <1>1
<1> QED BY <1>1, <1>2, SeqMonotonic

LEMMA TextTyped ==
  ASSUME NEW e \in Operand
  PROVE  Text(e) \in Seq(Int) /\ (~IsNull(e) => Text(e) \in Seq(Byte))
<1>1. \A s \in Seq(Byte) : s \in Seq(Int)
  BY BytesTyped
<1>2. CASE e.type = "REF"
  <2>1. e.value \in Seq(Byte) \cup {NULL} /\ NULL \in Seq(Int)
    BY <1>2 DEF Operand, NULL
  <2> QED BY <1>1, <1>2, <2>1 DEF Text, IsNull
<1>3. CASE e.type # "REF"
  <2>1. e.value \in Int
    BY <1>3 DEF Operand
  <2>2. Decimal(e.value) \in Seq(Byte)
    <3>1. CASE e.value < 0
      <4>1. -e.value \in Nat
        BY <2>1, <3>1
      <4>2. Digits(-e.value) \in Seq(Byte)
        BY <4>1, DigitsTyped
      <4>3. <<Minus>> \in Seq(Byte)
        BY DEF Minus, Byte
      <4>4. <<Minus>> \o Digits(-e.value) \in Seq(Byte)
        BY <4>2, <4>3
      <4> QED BY <3>1, <4>4 DEF Decimal
    <3>2. CASE ~(e.value < 0)
      <4>1. e.value \in Nat
        BY <2>1, <3>2
      <4> QED BY <3>2, <4>1, DigitsTyped DEF Decimal
    <3> QED BY <3>1, <3>2
  <2> QED BY <1>1, <1>3, <2>2 DEF Text
<1> QED BY <1>2, <1>3

LEMMA ConcatCall ==
  ASSUME NEW c \in Calls, c.op = "concat"
  PROVE  /\ c.recipe \in Seq(Byte) /\ c.operands \in Seq(Operand)
         /\ Own(c) \in Nat /\ Len(c.operands) \in Nat /\ Own(c) <= Len(c.operands)
         /\ \A i \in 1 .. Own(c) : Len(c.operands) - Own(c) + i \in 1 .. Len(c.operands)
         /\ Texts(c) \in Seq(Seq(Int)) /\ Len(Texts(c)) = Own(c)
         /\ Pieces(c) \in Seq(Seq(Int)) /\ Len(Pieces(c)) = Len(c.recipe)
         /\ \A k \in 1 .. Len(c.recipe) :
              IF c.recipe[k] = Placeholder
              THEN Nth(c.recipe, k) \in 1 .. Own(c) /\ Pieces(c)[k] = Texts(c)[Nth(c.recipe, k)]
              ELSE Pieces(c)[k] = <<c.recipe[k]>>
<1>1. /\ c.recipe \in Seq(Byte) /\ c.operands \in Seq(Operand)
      /\ Own(c) <= Len(c.operands) /\ Len(c.operands) \in Nat /\ Len(c.recipe) \in Nat
  BY ConcatAssumption DEF Own
<1>2. Own(c) \in Nat
  BY <1>1, Counted DEF Own
<1>3. \A i \in 1 .. Own(c) : Len(c.operands) - Own(c) + i \in 1 .. Len(c.operands)
  BY <1>1, <1>2
<1>4. \A i \in 1 .. Own(c) : Text(c.operands[Len(c.operands) - Own(c) + i]) \in Seq(Int)
  <2> TAKE i \in 1 .. Own(c)
  <2>1. c.operands[Len(c.operands) - Own(c) + i] \in Operand
    BY <1>1, <1>3
  <2> QED BY <2>1, TextTyped
<1>5. Texts(c) \in Seq(Seq(Int)) /\ Len(Texts(c)) = Own(c)
  BY <1>2, <1>4 DEF Texts
<1>6. ASSUME NEW k \in 1 .. Len(c.recipe), c.recipe[k] = Placeholder
      PROVE  Nth(c.recipe, k) \in 1 .. Own(c)
  <2>1. k - 1 \in 0 .. Len(c.recipe) - 1 /\ k - 1 \in 0 .. Len(c.recipe) /\ (k - 1) + 1 = k
        /\ k \in 0 .. Len(c.recipe)
    BY <1>1
  <2>2. Nth(c.recipe, k) = Nth(c.recipe, k - 1) + 1 /\ Nth(c.recipe, k - 1) \in Nat
    BY <1>1, <1>6, <2>1, Counted
  <2>3. Nth(c.recipe, k) <= Own(c)
    BY <1>1, <2>1, NthGrows DEF Own
  <2> QED BY <1>2, <2>2, <2>3
<1>7. ASSUME NEW k \in 1 .. Len(c.recipe)
      PROVE  /\ Pieces(c)[k] \in Seq(Int)
             /\ IF c.recipe[k] = Placeholder
                THEN Pieces(c)[k] = Texts(c)[Nth(c.recipe, k)]
                ELSE Pieces(c)[k] = <<c.recipe[k]>>
  <2>1. k \in DOMAIN c.recipe /\ c.recipe[k] \in Byte
    BY <1>1
  <2>2. CASE c.recipe[k] = Placeholder
    <3>1. Nth(c.recipe, k) \in 1 .. Own(c)
      BY <1>6, <2>2
    <3>2. Pieces(c)[k] = Text(c.operands[Len(c.operands) - Own(c) + Nth(c.recipe, k)])
      BY <2>1, <2>2 DEF Pieces
    <3> QED BY <1>4, <2>2, <3>1, <3>2 DEF Texts
  <2>3. CASE c.recipe[k] # Placeholder
    <3>1. Pieces(c)[k] = <<c.recipe[k]>>
      BY <2>1, <2>3 DEF Pieces
    <3>2. <<c.recipe[k]>> \in Seq(Int)
      <4>1. c.recipe[k] \in Int
        BY <2>1, BytesTyped
      <4> QED BY <4>1
    <3> QED BY <2>3, <3>1, <3>2
  <2> QED BY <2>2, <2>3
<1>8. Pieces(c) \in Seq(Seq(Int)) /\ Len(Pieces(c)) = Len(c.recipe)
  <2>1. DOMAIN Pieces(c) = 1 .. Len(c.recipe)
    BY <1>1 DEF Pieces
  <2>2. Pieces(c) = [k \in 1 .. Len(c.recipe) |-> Pieces(c)[k]]
    BY <1>1 DEF Pieces
  <2>3. [k \in 1 .. Len(c.recipe) |-> Pieces(c)[k]] \in Seq(Seq(Int))
    BY <1>1, <1>7
  <2>4. Len([k \in 1 .. Len(c.recipe) |-> Pieces(c)[k]]) = Len(c.recipe)
    BY <1>1
  <2> QED BY <2>2, <2>3, <2>4
<1> QED BY <1>1, <1>2, <1>3, <1>5, <1>6, <1>7, <1>8

\* How long the result is after k characters of the recipe.
LEMMA Lengths ==
  ASSUME NEW c \in Calls, c.op = "concat", NEW k \in 0 .. Len(c.recipe)
  PROVE  Len(Upto(Int, Pieces(c))[k]) = k - Nth(c.recipe, k) + Len(Upto(Int, Texts(c))[Nth(c.recipe, k)])
<1> DEFINE r == c.recipe
           built == Upto(Int, Pieces(c))
           taken == Upto(Int, Texts(c))
           Sum(n) == Len(built[n]) = n - Nth(r, n) + Len(taken[Nth(r, n)])
           T == {n \in Nat : n <= Len(r) => Sum(n)}
<1>0. Len(r) \in Nat /\ Nth(r, 0) = 0
  BY ConcatCall, Counted
<1>p. \A m \in 1 .. Len(r) :
        IF r[m] = Placeholder
        THEN Nth(r, m) \in 1 .. Own(c) /\ Pieces(c)[m] = Texts(c)[Nth(r, m)]
        ELSE Pieces(c)[m] = <<r[m]>>
  BY ConcatCall
<1>1. 0 \in T
  <2>1. built[0] = <<>> /\ taken[0] = <<>>
    BY ConcatCall, Concatenations
  <2>2. Sum(0)
    BY <1>0, <2>1
  <2> QED BY <2>2
<1>2. ASSUME NEW n \in T
      PROVE  n + 1 \in T
  <2>1. ASSUME n + 1 <= Len(r)
        PROVE  Sum(n + 1)
    <3>1. PICK m : m = n + 1
      OBVIOUS
    <3>2. m \in 1 .. Len(r) /\ m - 1 = n /\ n \in 0 .. Len(r) - 1 /\ n \in 0 .. Len(r) /\ m \in Nat /\ n \in Nat
      BY <1>0, <2>1, <3>1
    <3>3. Sum(n)
      BY <1>0, <2>1
    <3>4. PICK i, j : i = Nth(r, n) /\ j = Nth(r, m)
      OBVIOUS
    <3>5. /\ i \in Nat /\ j = IF r[m] = Placeholder THEN i + 1 ELSE i
      BY ConcatCall, Counted, <3>1, <3>2, <3>4
    <3>6. /\ Len(built[n]) \in Nat /\ Len(Pieces(c)[m]) \in Nat
          /\ Len(built[m]) = Len(built[n]) + Len(Pieces(c)[m])
      <4>1. Pieces(c) \in Seq(Seq(Int)) /\ Len(Pieces(c)) = Len(r)
        BY ConcatCall
      <4>2. m \in 1 .. Len(Pieces(c)) /\ n \in 0 .. Len(Pieces(c)) /\ m - 1 = n
        BY <3>2, <4>1
      <4> HIDE DEF r
      <4> QED BY Concatenations, <4>1, <4>2
    <3>s. Len(built[n]) = n - i + Len(taken[i])
      BY <3>3, <3>4
    <3>7. CASE r[m] = Placeholder
      <4>1. j \in 1 .. Own(c) /\ Pieces(c)[m] = Texts(c)[j] /\ j - 1 = i
        <5>1. j \in 1 .. Own(c) /\ Pieces(c)[m] = Texts(c)[j]
          BY <1>p, <3>2, <3>4, <3>7
        <5> QED BY <3>5, <3>7, <5>1
      <4>2. Len(taken[j]) = Len(taken[i]) + Len(Texts(c)[j]) /\ Len(taken[i]) \in Nat
        <5>1. i \in 0 .. Len(Texts(c)) /\ j \in 1 .. Len(Texts(c))
          BY ConcatCall, <3>5, <4>1
        <5> HIDE DEF taken
        <5> QED BY ConcatCall, Concatenations, <4>1, <5>1 DEF taken
      <4> HIDE DEF built, taken, r
      <4>3. Len(built[m]) = m - j + Len(taken[j])
        <5>1. PICK a \in Nat, b \in Nat, d \in Nat :
                 a = Len(built[n]) /\ b = Len(Texts(c)[j]) /\ d = Len(taken[i])
          BY <3>6, <4>1, <4>2
        <5>2. a = n - i + d /\ Len(built[m]) = a + b /\ Len(taken[j]) = d + b
          BY <3>s, <3>6, <4>1, <4>2, <5>1
        <5>3. m = n + 1 /\ j = i + 1 /\ i \in Nat /\ n \in Nat
          BY <3>2, <3>5, <3>7
        <5>4. a + b = m - j + (d + b)
          BY <5>2, <5>3
        <5> QED BY <5>2, <5>4
      <4> QED BY <3>1, <3>4, <4>3
    <3>8. CASE r[m] # Placeholder
      <4>1. Len(Pieces(c)[m]) = 1
        <5>1. Pieces(c)[m] = <<r[m]>>
          BY <1>p, <3>2, <3>8
        <5>2. Len(<<r[m]>>) = 1
          OBVIOUS
        <5> QED BY <5>1, <5>2
      <4>2. i \in 0 .. Len(Texts(c))
        <5>1. Len(Texts(c)) = Own(c) /\ r \in Seq(Byte) /\ Own(c) \in Nat
          BY ConcatCall
        <5>2. Nth(r, n) <= Own(c)
          BY NthGrows, <3>2, <5>1 DEF Own
        <5> QED BY ONLY <3>4, <3>5, <5>1, <5>2
      <4>3. Len(taken[i]) \in Nat
        BY ConcatCall, Concatenations, <4>2
      <4> HIDE DEF built, taken, r
      <4>4. Len(built[m]) = m - j + Len(taken[j])
        BY <3>2, <3>s, <3>5, <3>6, <3>8, <4>1, <4>3
      <4> QED BY <3>1, <3>4, <4>4
    <3> QED BY <3>7, <3>8
  <2> HIDE DEF Sum
  <2> QED BY <2>1
<1>3. T = Nat
  <2> HIDE DEF T
  <2>1. T \in SUBSET Nat
    BY DEF T
  <2> QED BY <1>1, <1>2, <2>1, SetInduction
<1>4. k \in T
  <2> HIDE DEF T
  <2> QED BY <1>0, <1>3
<1> QED BY <1>0, <1>4

\* A concatenation: what has been popped, in which order, how long it is, and
\* what has been copied.
Popped == Len(all_string)
Owned == Own(call)
Built == Upto(Int, Pieces(call))
Taken == Upto(Int, Texts(call))

ConcatInv ==
    /\ phase \in {"concat", "operands", "constants", "copy", "done", "segv"}
    /\ idx \in Nat /\ num_params \in Nat /\ max_len \in Nat /\ result \in Int
    /\ all_string \in Seq(Seq(Byte)) /\ new_str \in Seq(Byte) /\ input = <<>>
    /\ Popped <= Owned
    /\ \A j \in 1 .. Popped : all_string[j] = Texts(call)[Owned + 1 - j]
    /\ phase # "done" => op_stack = SubSeq(call.operands, 1, Len(call.operands) - Popped)
    /\ phase = "concat" => Popped = 0 /\ max_len = 0 /\ num_params = 0
    /\ phase \in {"concat", "operands", "constants"} =>
         /\ idx = 0 /\ new_str = <<>>
         /\ max_len = Len(Taken[Owned]) - Len(Taken[Owned - Popped])
    /\ phase \in {"operands", "constants", "segv"} => num_params = Owned
    /\ phase = "operands" => Popped < Owned
    /\ phase \in {"constants", "copy"} => Popped = Owned
    /\ phase = "copy" =>
         /\ idx <= Len(call.recipe) /\ new_str = Built[idx]
         /\ num_params = Owned - Nth(call.recipe, idx)
         /\ max_len = Len(Built[Len(call.recipe)])
    /\ phase = "done" =>
         /\ new_str = Built[Len(call.recipe)] /\ Len(new_str) = max_len
         /\ op_stack = Append(SubSeq(call.operands, 1, Len(call.operands) - Owned),
                              [type |-> "REF", value |-> new_str])

\* A concatenation is under way.
InConcat == call \in Calls /\ call.op = "concat" /\ ConcatInv

LEMMA ConcatInit ==
  ASSUME Init, call.op = "concat"
  PROVE  ConcatInv
<1>1. /\ call \in Calls /\ phase = "concat" /\ idx = 0 /\ op_stack = call.operands /\ input = <<>>
      /\ result \in Int /\ num_params = 0 /\ max_len = 0 /\ all_string = <<>> /\ new_str = <<>>
  BY StringsAssumption DEF Init
<1>2. Popped = 0 /\ <<>> \in Seq(Seq(Byte)) /\ <<>> \in Seq(Byte)
  BY <1>1 DEF Popped
<1>3. Owned \in Nat /\ Len(call.operands) \in Nat /\ call.operands \in Seq(Operand)
  BY <1>1, ConcatCall DEF Owned
<1>4. op_stack = SubSeq(call.operands, 1, Len(call.operands) - Popped)
  BY <1>1, <1>2, <1>3, SubSeqFull
<1>5. max_len = Len(Taken[Owned]) - Len(Taken[Owned - Popped])
  <2>1. Len(Taken[Owned]) \in Nat /\ Owned - 0 = Owned
    BY <1>1, <1>3, ConcatCall, Concatenations DEF Taken, Owned
  <2> QED BY <1>1, <1>2, <2>1
<1> QED BY <1>1, <1>2, <1>3, <1>4, <1>5 DEF ConcatInv

LEMMA CountPlaceholders ==
  ASSUME InConcat, count_placeholders
  PROVE  ConcatInv'
<1>1. /\ phase = "concat" /\ num_params' = Owned
      /\ phase' = IF Owned = 0 THEN "constants" ELSE "operands"
      /\ UNCHANGED <<call, idx, op_stack, all_string, max_len, new_str, result, input, lines>>
  BY DEF count_placeholders, Owned, Own
<1>2. Owned \in Nat
  BY ConcatCall DEF InConcat, Owned
<1>3. Popped = 0 /\ Popped' = Popped /\ Owned' = Owned /\ Taken' = Taken
  BY <1>1 DEF InConcat, ConcatInv, Popped, Owned, Taken
<1> QED BY <1>1, <1>2, <1>3 DEF InConcat, ConcatInv

LEMMA OperandTaken ==
  ASSUME InConcat, phase = "operands"
  PROVE  /\ Owned \in Nat /\ Popped \in Nat /\ Popped < Owned /\ Owned <= Len(call.operands)
         /\ Len(call.operands) \in Nat /\ operand \in Operand
         /\ Text(operand) = Texts(call)[Owned - Popped]
         /\ SubSeq(op_stack, 1, Len(op_stack) - 1)
              = SubSeq(call.operands, 1, Len(call.operands) - (Popped + 1))
<1>1. /\ Owned \in Nat /\ Owned <= Len(call.operands) /\ Len(call.operands) \in Nat
      /\ call.operands \in Seq(Operand)
      /\ Popped \in Nat /\ Popped < Owned
      /\ op_stack = SubSeq(call.operands, 1, Len(call.operands) - Popped)
  BY ConcatCall DEF InConcat, ConcatInv, Owned, Popped
<1>2. PICK s, n, m : s = call.operands /\ n = Len(s) - Popped /\ m = Len(s) - (Popped + 1)
  OBVIOUS
<1>3. /\ s \in Seq(Operand) /\ Len(s) \in Nat
      /\ n \in 1 .. Len(s) /\ m = n - 1 /\ m \in 0 .. Len(s)
  BY <1>1, <1>2
<1>4. op_stack = SubSeq(s, 1, n) /\ Len(op_stack) = n /\ op_stack[n] = s[n] /\ s[n] \in Operand
  BY <1>1, <1>2, <1>3
<1>5. SubSeq(op_stack, 1, m) = SubSeq(s, 1, m)
  <2>1. SubSeq(SubSeq(s, 1, n), 1, m) = SubSeq(s, 1, m)
    BY <1>3
  <2> QED BY <1>4, <2>1
<1>6. Text(operand) = Texts(call)[Owned - Popped]
  <2>1. Owned - Popped \in 1 .. Owned
    BY <1>1
  <2>2. Texts(call)[Owned - Popped] = Text(call.operands[Len(call.operands) - Owned + (Owned - Popped)])
    BY <2>1 DEF Texts, Owned
  <2>3. Len(call.operands) - Owned + (Owned - Popped) = n
    BY <1>1, <1>2
  <2> QED BY <1>2, <1>4, <2>2, <2>3 DEF operand
<1> QED BY <1>1, <1>2, <1>3, <1>4, <1>5, <1>6 DEF operand

LEMMA PopOperand ==
  ASSUME InConcat, pop_operand
  PROVE  ConcatInv'
<1>1. PICK text : text = Text(operand)
  OBVIOUS
<1>2. /\ phase = "operands" /\ ~IsNull(operand)
      /\ all_string' = Append(all_string, text) /\ max_len' = max_len + Len(text)
      /\ op_stack' = SubSeq(op_stack, 1, Len(op_stack) - 1)
      /\ phase' = IF Len(all_string') = num_params THEN "constants" ELSE phase
      /\ UNCHANGED <<call, idx, num_params, new_str, result, input>>
  BY <1>1 DEF pop_operand, Text
<1>3. /\ Owned \in Nat /\ Popped \in Nat /\ Popped < Owned /\ text \in Seq(Byte)
      /\ text = Texts(call)[Owned - Popped]
      /\ op_stack' = SubSeq(call.operands, 1, Len(call.operands) - (Popped + 1))
  BY <1>1, <1>2, OperandTaken, TextTyped
<1>4. /\ all_string' \in Seq(Seq(Byte)) /\ Popped' = Popped + 1
      /\ all_string'[Popped + 1] = text /\ \A j \in 1 .. Popped : all_string'[j] = all_string[j]
  <2>1. PICK s \in Seq(Seq(Byte)) : s = all_string
    BY DEF InConcat, ConcatInv
  <2>2. /\ Append(s, text) \in Seq(Seq(Byte)) /\ Len(Append(s, text)) = Len(s) + 1
        /\ Append(s, text)[Len(s) + 1] = text /\ \A j \in 1 .. Len(s) : Append(s, text)[j] = s[j]
    BY <1>3, AppendProperties
  <2> QED BY <1>2, <2>1, <2>2 DEF Popped
<1>5. Owned' = Owned /\ Taken' = Taken /\ Texts(call)' = Texts(call)
  BY <1>2 DEF Owned, Taken
<1>6. \A j \in 1 .. Popped' : all_string'[j] = Texts(call)'[Owned' + 1 - j]
  <2> SUFFICES ASSUME NEW j \in 1 .. Popped'
               PROVE  all_string'[j] = Texts(call)[Owned + 1 - j]
    BY <1>5
  <2>1. CASE j = Popped + 1
    <3>1. Owned + 1 - j = Owned - Popped
      BY <1>3, <2>1
    <3> QED BY <1>3, <1>4, <2>1, <3>1
  <2>2. CASE j # Popped + 1
    <3>1. j \in 1 .. Popped
      BY <1>3, <1>4, <2>2
    <3> QED BY <1>4, <3>1 DEF InConcat, ConcatInv
  <2> QED BY <2>1, <2>2
<1>7. /\ max_len' = Len(Taken[Owned]) - Len(Taken[Owned - Popped']) /\ max_len' \in Nat
  <2>1. /\ Owned - Popped \in 1 .. Len(Texts(call)) /\ Owned - Popped' = (Owned - Popped) - 1
        /\ Owned \in 0 .. Len(Texts(call)) /\ Texts(call) \in Seq(Seq(Int))
    <3>1. Texts(call) \in Seq(Seq(Int)) /\ Len(Texts(call)) = Owned
      BY ConcatCall DEF InConcat, Owned
    <3> QED BY <1>3, <1>4, <3>1
  <2>2. PICK s \in Seq(Seq(Int)), p \in Int, q \in Int : s = Texts(call) /\ p = Owned - Popped /\ q = Owned
    BY <2>1
  <2>3. /\ Len(Upto(Int, s)[p]) = Len(Upto(Int, s)[p - 1]) + Len(s[p])
        /\ Len(Upto(Int, s)[p]) \in Nat /\ Len(Upto(Int, s)[q]) \in Nat /\ Len(Upto(Int, s)[p - 1]) \in Nat
        /\ Len(s[p]) \in Nat
    <3>1. p \in 1 .. Len(s) /\ p \in 0 .. Len(s) /\ p - 1 \in 0 .. Len(s) /\ q \in 0 .. Len(s)
      BY <2>1, <2>2
    <3> QED BY <3>1, Concatenations
  <2>4. max_len = Len(Upto(Int, s)[q]) - Len(Upto(Int, s)[p]) /\ max_len \in Nat
    BY <1>2, <2>2 DEF InConcat, ConcatInv, Taken
  <2>5. max_len' = max_len + Len(s[p])
    BY <1>2, <1>3, <2>2
  <2>6. /\ max_len' = Len(Upto(Int, s)[q]) - Len(Upto(Int, s)[p - 1]) /\ max_len' \in Nat
    <3>1. PICK a \in Nat, b \in Nat, d \in Nat, e \in Nat :
             /\ a = Len(Upto(Int, s)[p - 1]) /\ b = Len(s[p]) /\ d = Len(Upto(Int, s)[q]) /\ e = Len(Upto(Int, s)[p])
      BY <2>3
    <3>2. e = a + b /\ max_len = d - e /\ max_len \in Nat /\ max_len' = max_len + b
      BY <2>3, <2>4, <2>5, <3>1
    <3>3. max_len' = d - a /\ max_len' \in Nat
      BY <3>2
    <3> QED BY <3>1, <3>3
  <2> QED BY <2>1, <2>2, <2>6 DEF Taken
<1>8. num_params = Owned /\ Popped' <= Owned
  BY <1>2, <1>3, <1>4 DEF InConcat, ConcatInv
<1>9. phase' = IF Popped' = Owned THEN "constants" ELSE "operands"
  BY <1>2, <1>8 DEF Popped
<1>10. /\ phase' \in {"constants", "operands"}
       /\ phase' = "operands" => Popped' < Owned
       /\ phase' = "constants" => Popped' = Owned
  BY <1>3, <1>4, <1>8, <1>9
<1>11. op_stack' = SubSeq(call.operands, 1, Len(call.operands) - Popped')
  BY <1>3, <1>4
<1>12. /\ UNCHANGED <<call, idx, num_params, new_str, result, input>>
       /\ idx \in Nat /\ num_params \in Nat /\ result \in Int /\ new_str \in Seq(Byte) /\ input = <<>>
       /\ idx = 0 /\ new_str = <<>>
  BY <1>2 DEF InConcat, ConcatInv
<1> QED BY <1>4, <1>5, <1>6, <1>7, <1>8, <1>10, <1>11, <1>12 DEF ConcatInv

LEMMA NullOperand ==
  ASSUME InConcat, null_operand
  PROVE  ConcatInv'
<1>1. /\ phase = "operands" /\ phase' = "segv"
      /\ UNCHANGED <<call, idx, op_stack, all_string, num_params, max_len, new_str, result, input>>
  BY DEF null_operand
<1>2. Owned' = Owned /\ Popped' = Popped /\ Texts(call)' = Texts(call)
  BY <1>1 DEF Owned, Popped
<1> QED BY <1>1, <1>2 DEF InConcat, ConcatInv

LEMMA AddConstants ==
  ASSUME InConcat, add_constants
  PROVE  ConcatInv'
<1>1. /\ phase = "constants" /\ phase' = "copy" /\ idx' = 0
      /\ max_len' = max_len + Len(call.recipe) - num_params
      /\ UNCHANGED <<call, op_stack, all_string, num_params, new_str, result, input>>
  BY DEF add_constants
<1>2. Owned' = Owned /\ Popped' = Popped /\ Texts(call)' = Texts(call) /\ Built' = Built
  BY <1>1 DEF Owned, Popped, Built
<1>3. /\ Popped = Owned /\ num_params = Owned /\ new_str = <<>>
      /\ max_len = Len(Taken[Owned]) - Len(Taken[Owned - Popped])
  BY <1>1 DEF InConcat, ConcatInv
<1>4. PICK r, own : r = call.recipe /\ own = Owned
  OBVIOUS
<1>5. /\ r \in Seq(Byte) /\ Len(r) \in Nat /\ Owned \in Nat
      /\ Texts(call) \in Seq(Seq(Int)) /\ Len(Texts(call)) = Owned
      /\ Pieces(call) \in Seq(Seq(Int)) /\ Len(Pieces(call)) = Len(r)
  BY <1>4, ConcatCall DEF InConcat, Owned
<1>6. Nth(r, 0) = 0 /\ Nth(r, Len(r)) = Owned
  BY <1>4, <1>5, Counted DEF Owned, Own
<1>7. Taken[0] = <<>> /\ Built[0] = <<>> /\ Len(Taken[Owned]) \in Nat /\ Len(Built[Len(r)]) \in Nat
  <2>1. Owned \in 0 .. Len(Texts(call)) /\ Len(r) \in 0 .. Len(Pieces(call))
    BY <1>5
  <2> QED BY <1>5, <2>1, Concatenations DEF Taken, Built
<1>8. Len(Built[Len(r)]) = Len(r) - Owned + Len(Taken[Owned])
  <2>1. Len(r) \in 0 .. Len(r)
    BY <1>5
  <2> QED BY <1>4, <1>6, <2>1, Lengths DEF InConcat, Built, Taken
<1>9. max_len' = Len(Built[Len(r)]) /\ max_len' \in Nat
  <2>1. Owned - Popped = 0
    BY <1>3, <1>5
  <2>2. Len(Taken[Owned - Popped]) = 0
    BY <1>7, <2>1
  <2>3. PICK a \in Nat, b \in Nat : a = Len(Taken[Owned]) /\ b = Len(Built[Len(r)])
    BY <1>7
  <2>4. max_len = a /\ b = Len(r) - Owned + a /\ max_len' = max_len + Len(r) - Owned
    BY <1>1, <1>3, <1>4, <1>8, <2>2, <2>3
  <2> QED BY <1>5, <2>3, <2>4
<1>10. num_params' = Owned - Nth(r, 0) /\ 0 <= Len(r)
  BY <1>1, <1>3, <1>5, <1>6
<1> QED BY <1>1, <1>2, <1>3, <1>4, <1>7, <1>9, <1>10 DEF InConcat, ConcatInv

\* Another piece is copied behind the ones before.
LEMMA Copies ==
  ASSUME InConcat, phase = "copy", idx < Len(call.recipe),
         Copied(Pieces(call)[idx + 1]), Pieces(call)[idx + 1] \in Seq(Byte),
         num_params' = Owned - Nth(call.recipe, idx + 1), num_params' \in Nat,
         UNCHANGED <<call, op_stack, all_string, max_len, result, input>>
  PROVE  ConcatInv'
<1>1. PICK s, k, m : s = Pieces(call) /\ k = idx + 1 /\ m = Len(call.recipe)
  OBVIOUS
<1>0. new_str' = new_str \o s[k]
  BY <1>1 DEF Copied
<1>2. idx' = k /\ phase' = IF Len(new_str') > max_len THEN "undefined" ELSE phase
  BY <1>1 DEF Copied
<1>3. /\ idx \in Nat /\ new_str = Upto(Int, s)[idx] /\ max_len = Len(Upto(Int, s)[m]) /\ new_str \in Seq(Byte)
  BY <1>1 DEF InConcat, ConcatInv, Built
<1>4. s \in Seq(Seq(Int)) /\ Len(s) = m /\ m \in Nat
  BY <1>1, ConcatCall DEF InConcat
<1>5. k \in 1 .. Len(s) /\ k - 1 = idx /\ k \in 0 .. Len(s) /\ m \in k .. Len(s)
  BY <1>1, <1>3, <1>4
<1>6. new_str' = Upto(Int, s)[k]
  BY <1>0, <1>3, <1>4, <1>5, Concatenations
<1>7. Len(Upto(Int, s)[k]) <= Len(Upto(Int, s)[m]) /\ Len(Upto(Int, s)[k]) \in Nat /\ Len(Upto(Int, s)[m]) \in Nat
  BY <1>4, <1>5, Concatenations, Grows
<1>8. phase' = "copy"
  <2>1. Len(new_str') <= max_len /\ Len(new_str') \in Nat /\ max_len \in Nat
    BY <1>3, <1>6, <1>7
  <2>2. ~(Len(new_str') > max_len)
    BY <2>1
  <2> QED BY <1>2, <2>2
<1>9. new_str' \in Seq(Byte)
  BY <1>0, <1>1, <1>3, ConcatProperties
<1>10. Owned' = Owned /\ Popped' = Popped /\ Texts(call)' = Texts(call) /\ Built' = Built
  BY DEF Owned, Popped, Built
<1>11. idx' \in Nat /\ idx' <= Len(call.recipe) /\ new_str' = Built[idx']
  <2>1. k \in Nat /\ k <= m
    BY <1>4, <1>5
  <2> QED BY <1>1, <1>2, <1>6, <2>1 DEF Built
<1>12. num_params' = Owned - Nth(call.recipe, idx')
  BY <1>1, <1>2
<1>13. /\ max_len \in Nat /\ result \in Int /\ all_string \in Seq(Seq(Byte)) /\ input = <<>>
       /\ Popped <= Owned /\ Popped = Owned
       /\ \A j \in 1 .. Popped : all_string[j] = Texts(call)[Owned + 1 - j]
       /\ op_stack = SubSeq(call.operands, 1, Len(call.operands) - Popped)
       /\ max_len = Len(Built[Len(call.recipe)])
  BY DEF InConcat, ConcatInv
<1> QED BY <1>8, <1>9, <1>10, <1>11, <1>12, <1>13 DEF ConcatInv

LEMMA CopyArgument ==
  ASSUME InConcat, copy_argument
  PROVE  ConcatInv'
<1>1. /\ phase = "copy" /\ idx < Len(call.recipe) /\ call.recipe[idx + 1] = Placeholder
      /\ num_params' = num_params - 1 /\ Copied(all_string[num_params' + 1])
      /\ UNCHANGED <<call, op_stack, all_string, max_len, result, input>>
  BY DEF copy_argument
<1>2. PICK r, k, n, i : r = call.recipe /\ k = idx + 1 /\ n = Nth(r, idx) /\ i = Nth(r, k)
  OBVIOUS
<1>3. /\ idx \in 0 .. Len(r) - 1 /\ idx \in 0 .. Len(r) /\ k \in 1 .. Len(r) /\ r \in Seq(Byte)
      /\ Owned \in Nat
  <2>1. r \in Seq(Byte) /\ Len(r) \in Nat /\ Owned \in Nat /\ idx \in Nat
    BY <1>2, ConcatCall DEF InConcat, ConcatInv, Owned
  <2> QED BY <1>1, <1>2, <2>1
<1>4. n \in Nat /\ i = n + 1
  BY <1>1, <1>2, <1>3, Counted
<1>5. i \in 1 .. Owned /\ Pieces(call)[k] = Texts(call)[i]
  BY <1>1, <1>2, <1>3, ConcatCall DEF InConcat, Owned
<1>6. /\ num_params = Owned - n /\ Popped = Owned /\ all_string \in Seq(Seq(Byte))
      /\ \A j \in 1 .. Popped : all_string[j] = Texts(call)[Owned + 1 - j]
  BY <1>1, <1>2 DEF InConcat, ConcatInv
<1>7. num_params \in 1 .. Popped /\ Owned + 1 - num_params = i /\ num_params' + 1 = num_params
  <2>1. num_params = Owned - n /\ Popped = Owned /\ n + 1 <= Owned
    BY <1>4, <1>5, <1>6
  <2> QED BY <1>1, <1>3, <1>4, <2>1
<1>8. all_string[num_params] = Texts(call)[i] /\ all_string[num_params] \in Seq(Byte)
  BY <1>6, <1>7 DEF Popped
<1>9. Copied(Pieces(call)[idx + 1]) /\ Pieces(call)[idx + 1] \in Seq(Byte)
  BY <1>1, <1>2, <1>5, <1>7, <1>8
<1>10. num_params' = Owned - Nth(call.recipe, idx + 1) /\ num_params' \in Nat
  <2>1. num_params = Owned - n
    BY <1>6
  <2>2. num_params' = num_params - 1
    BY <1>1
  <2>3. num_params' = Owned - i /\ num_params' \in Nat
    BY <1>3, <1>4, <1>5, <2>1, <2>2
  <2> QED BY <1>2, <2>3
<1> QED BY <1>1, <1>9, <1>10, Copies

LEMMA CopyConstant ==
  ASSUME InConcat, copy_constant
  PROVE  ConcatInv'
<1>1. /\ phase = "copy" /\ idx < Len(call.recipe) /\ call.recipe[idx + 1] # Placeholder
      /\ Copied(<<call.recipe[idx + 1]>>)
      /\ UNCHANGED <<call, op_stack, all_string, num_params, max_len, result, input>>
  BY DEF copy_constant
<1>2. PICK r, k : r = call.recipe /\ k = idx + 1
  OBVIOUS
<1>3. /\ idx \in 0 .. Len(r) - 1 /\ idx \in 0 .. Len(r) /\ k \in 1 .. Len(r) /\ r \in Seq(Byte)
  BY <1>1, <1>2, ConcatCall DEF InConcat, ConcatInv
<1>4. Nth(r, k) = Nth(r, idx)
  BY <1>1, <1>2, <1>3, Counted
<1>5. Pieces(call)[k] = <<r[k]>>
  BY <1>1, <1>2, <1>3, ConcatCall DEF InConcat
<1>6. <<r[k]>> \in Seq(Byte)
  <2>1. r[k] \in Byte
    BY <1>3
  <2> QED BY <2>1
<1>7. num_params' = Owned - Nth(call.recipe, idx + 1) /\ num_params' \in Nat
  BY <1>1, <1>2, <1>4 DEF InConcat, ConcatInv
<1>8. Copied(Pieces(call)[idx + 1]) /\ Pieces(call)[idx + 1] \in Seq(Byte)
  BY <1>1, <1>2, <1>5, <1>6
<1> QED BY <1>1, <1>7, <1>8, Copies

LEMMA PushResult ==
  ASSUME InConcat, push_result
  PROVE  ConcatInv'
<1>1. /\ phase = "copy" /\ idx = Len(call.recipe) /\ phase' = "done"
      /\ op_stack' = Append(op_stack, [type |-> "REF", value |-> new_str])
      /\ UNCHANGED <<call, idx, all_string, num_params, max_len, new_str, result, input>>
  BY DEF push_result
<1>2. Owned' = Owned /\ Popped' = Popped /\ Texts(call)' = Texts(call) /\ Built' = Built
  BY <1>1 DEF Owned, Popped, Built
<1>3. /\ Popped = Owned /\ new_str = Built[Len(call.recipe)] /\ max_len = Len(Built[Len(call.recipe)])
      /\ op_stack = SubSeq(call.operands, 1, Len(call.operands) - Owned)
  BY <1>1 DEF InConcat, ConcatInv
<1> QED BY <1>1, <1>2, <1>3 DEF InConcat, ConcatInv

-----------------------------------------------------------------------------
\* Comparison: the strings agree up to where the loop is.
CompareInv ==
    /\ phase \in {"compareTo", "done"}
    /\ idx \in 0 .. Shorter /\ result \in Int
    /\ \A j \in 1 .. idx - 1 : call.str[j] = call.str2[j]
    /\ idx > 0 => result = call.str[idx] - call.str2[idx]
    /\ phase = "compareTo" /\ idx > 0 => result = 0
    /\ phase = "done" => idx = Shorter \/ (idx > 0 /\ result # 0)
    /\ num_params = 0 /\ max_len = 0
    /\ all_string = <<>> /\ new_str = <<>> /\ input = <<>>

InCompare == call \in Calls /\ call.op = "compareTo" /\ CompareInv

LEMMA CompareCall ==
  ASSUME NEW c \in Calls, c.op = "compareTo"
  PROVE  /\ c.str \in Seq(Byte) /\ c.str2 \in Seq(Byte)
         /\ Len(c.str) \in Nat /\ Len(c.str2) \in Nat
         /\ \A j \in 1 .. Len(c.str) : c.str[j] \in Int
         /\ \A j \in 1 .. Len(c.str2) : c.str2[j] \in Int
<1>1. c.str \in Seq(Byte) /\ c.str2 \in Seq(Byte)
  BY CompareAssumption
<1> QED BY <1>1, BytesTyped

LEMMA ShorterTyped ==
  ASSUME InCompare
  PROVE  /\ Shorter \in Nat /\ Shorter <= Len(call.str) /\ Shorter <= Len(call.str2)
         /\ Shorter = Len(call.str) \/ Shorter = Len(call.str2)
<1>1. Len(call.str) \in Nat /\ Len(call.str2) \in Nat
  BY CompareCall DEF InCompare
<1> QED BY <1>1 DEF Shorter

LEMMA CompareInit ==
  ASSUME Init, call.op = "compareTo"
  PROVE  CompareInv
<1>1. /\ call \in Calls /\ phase = "compareTo" /\ idx = 0 /\ input = <<>>
      /\ result \in Int /\ num_params = 0 /\ max_len = 0 /\ all_string = <<>> /\ new_str = <<>>
  BY StringsAssumption DEF Init
<1>2. Len(call.str) \in Nat /\ Len(call.str2) \in Nat
  BY <1>1, CompareCall
<1>3. Shorter \in Nat
  BY <1>2 DEF Shorter
<1> QED BY <1>1, <1>3 DEF CompareInv

LEMMA CompareStep ==
  ASSUME InCompare, compareTo
  PROVE  CompareInv'
<1>1. /\ phase = "compareTo"
      /\ UNCHANGED <<call, all_string, num_params, max_len, new_str, input>>
      /\ num_params = 0 /\ max_len = 0 /\ all_string = <<>> /\ new_str = <<>> /\ input = <<>>
      /\ idx \in 0 .. Shorter /\ result \in Int /\ (idx > 0 => result = 0)
  BY DEF compareTo, InCompare, CompareInv
<1>2. Shorter' = Shorter /\ Shorter \in Nat
  BY <1>1, ShorterTyped DEF Shorter
<1>3. \A j \in 1 .. idx : call.str[j] = call.str2[j]
  <2>1. idx > 0 => call.str[idx] = call.str2[idx]
    <3>1. ASSUME idx > 0
          PROVE  call.str[idx] = call.str2[idx]
      <4>1. call.str[idx] - call.str2[idx] = 0
        BY <1>1, <3>1 DEF InCompare, CompareInv
      <4>2. call.str[idx] \in Int /\ call.str2[idx] \in Int
        BY <1>1, <1>2, <3>1, ShorterTyped, CompareCall DEF InCompare
      <4> QED BY <4>1, <4>2
    <3> QED BY <3>1
  <2>2. \A j \in 1 .. idx - 1 : call.str[j] = call.str2[j]
    BY DEF InCompare, CompareInv
  <2> QED BY <1>1, <1>2, <2>1, <2>2
<1>4. CASE idx < Shorter
  <2>1. /\ result' = call.str[idx + 1] - call.str2[idx + 1] /\ idx' = idx + 1
        /\ phase' = IF result' # 0 THEN "done" ELSE phase
    BY <1>4 DEF compareTo
  <2>2. PICK k : k = idx + 1
    OBVIOUS
  <2>3. k \in 1 .. Shorter /\ k \in 0 .. Shorter /\ k - 1 = idx /\ k > 0
    BY <1>1, <1>2, <1>4, <2>2
  <2>4. result' \in Int
    <3>1. call.str[k] \in Int /\ call.str2[k] \in Int
      BY <1>2, <2>3, ShorterTyped, CompareCall DEF InCompare
    <3> QED BY <2>1, <2>2, <3>1
  <2> QED BY <1>1, <1>2, <1>3, <2>1, <2>2, <2>3, <2>4 DEF CompareInv
<1>5. CASE ~(idx < Shorter)
  <2>1. UNCHANGED <<result, idx>> /\ phase' = "done" /\ idx = Shorter
    BY <1>1, <1>2, <1>5 DEF compareTo
  <2> QED BY <1>1, <1>2, <2>1 DEF InCompare, CompareInv
<1> QED BY <1>4, <1>5

\* What a comparison that is over tells.
LEMMA Compared ==
  ASSUME InCompare
  PROVE  ComparesLikeJava
<1> SUFFICES ASSUME phase = "done" PROVE ComparesLikeJava
  BY DEF ComparesLikeJava
<1>1. PICK s, t, k : /\ s = call.str /\ t = call.str2
                     /\ k = CHOOSE n \in Differ(s, t) : \A j \in Differ(s, t) : n <= j
  OBVIOUS
<1>2. /\ s \in Seq(Byte) /\ t \in Seq(Byte) /\ Len(s) \in Nat /\ Len(t) \in Nat
      /\ Shorter = IF Len(s) < Len(t) THEN Len(s) ELSE Len(t)
  BY <1>1, CompareCall DEF InCompare, Shorter
<1>3. /\ idx \in 0 .. Shorter /\ \A j \in 1 .. idx - 1 : s[j] = t[j]
      /\ idx > 0 => result = s[idx] - t[idx]
      /\ idx = Shorter \/ (idx > 0 /\ result # 0)
  BY <1>1 DEF InCompare, CompareInv
<1>4. Differ(s, t) = {j \in 1 .. Shorter : s[j] # t[j]}
  BY <1>2 DEF Differ
<1>5. ASSUME Differ(s, t) # {}
      PROVE  result = s[k] - t[k]
  <2>1. PICK j \in 1 .. Shorter : s[j] # t[j]
    BY <1>4, <1>5
  <2>2. idx \in 1 .. Shorter /\ s[idx] # t[idx]
    <3>1. \A i \in 1 .. Shorter : s[i] \in Int /\ t[i] \in Int
      BY <1>2, BytesTyped
    <3>2. idx > 0
      BY <1>2, <1>3, <2>1
    <3>3. CASE result # 0
      BY <1>2, <1>3, <3>1, <3>2, <3>3
    <3>4. CASE idx = Shorter /\ s[idx] = t[idx]
      BY <1>2, <1>3, <2>1, <3>4
    <3> QED BY <1>2, <1>3, <3>2, <3>3, <3>4
  <2>3. idx \in Differ(s, t) /\ \A i \in Differ(s, t) : idx <= i
    BY <1>2, <1>3, <1>4, <2>2
  <2>4. k \in Differ(s, t) /\ \A i \in Differ(s, t) : k <= i
    BY <1>1, <2>3
  <2>5. k = idx
    <3>1. k <= idx /\ idx <= k /\ k \in Nat /\ idx \in Nat
      BY <1>2, <1>4, <2>2, <2>3, <2>4
    <3> QED BY <3>1
  <2> QED BY <1>3, <2>2, <2>5
<1>6. ASSUME s = t, s # <<>>
      PROVE  result = 0
  <2>1. Shorter = Len(s) /\ Len(s) > 0 /\ \A i \in 1 .. Shorter : s[i] \in Int
    BY <1>2, <1>6, BytesTyped
  <2>2. idx > 0
    BY <1>3, <2>1
  <2> QED BY <1>2, <1>3, <1>6, <2>1, <2>2
<1> QED BY <1>1, <1>5, <1>6 DEF ComparesLikeJava

-----------------------------------------------------------------------------
\* Input.
LEMMA Skipped ==
  ASSUME input \in Seq(Byte)
  PROVE  /\ skipped \in 0 .. Len(input)
         /\ \A k \in 0 .. Len(input) :
              (\A j \in 1 .. k : input[j] \in Blanks) /\ (k < Len(input) => input[k + 1] \notin Blanks)
                => skipped = k
<1> DEFINE n == Len(input)
           Holds(k) == \A j \in 1 .. k : input[j] \in Blanks
           S == {k \in 0 .. n : Holds(k)}
           Is(k) == Holds(k) /\ \A j \in 0 .. n : Holds(j) => j <= k
<1>1. n \in Nat
  OBVIOUS
<1>2. \E k \in 0 .. n : Is(k)
  <2>1. S \in SUBSET (0 .. n) /\ 0 \in S
    BY <1>1
  <2>2. \E k \in S : \A j \in S : j <= k
    <3> HIDE DEF S, n
    <3> QED BY <1>1, <2>1, Largest
  <2> HIDE DEF Holds, n
  <2> QED BY <2>2
<1>3. skipped = CHOOSE k \in 0 .. n : Is(k)
  BY Zenon DEF skipped, Longest
<1>4. skipped \in 0 .. n /\ Is(skipped)
  <2> HIDE DEF Is, n
  <2> QED BY <1>2, <1>3
<1>5. ASSUME NEW k \in 0 .. n, Holds(k), k < n => input[k + 1] \notin Blanks
      PROVE  skipped = k
  <2>1. k <= skipped
    BY <1>4, <1>5
  <2>2. ~(k < skipped)
    <3> SUFFICES ASSUME k < skipped PROVE FALSE
      OBVIOUS
    <3>1. k + 1 \in 1 .. skipped /\ k < n
      BY <1>1, <1>4
    <3> QED BY <1>4, <1>5, <3>1
  <2> QED BY <1>4, <2>1, <2>2
<1> QED BY <1>4, <1>5

\* What is left behind the blanks, and how much of it fits into the buffer.
rest == SubSeq(input, skipped + 1, Len(input))
room == IF Len(rest) < Width THEN Len(rest) ELSE Width

LEMMA RestTyped ==
  ASSUME input \in Seq(Byte)
  PROVE  /\ rest \in Seq(Byte) /\ Len(rest) = Len(input) - skipped /\ Len(rest) \in Nat
         /\ \A j \in 1 .. Len(rest) : rest[j] = input[skipped + j]
         /\ room \in Nat /\ room <= Len(rest) /\ room <= Width
<1>1. PICK s, n, m : s = input /\ n = skipped /\ m = Len(s)
  OBVIOUS
<1>2. s \in Seq(Byte) /\ m \in Nat /\ n \in 0 .. m
  BY <1>1, Skipped
<1>3. rest = SubSeq(s, n + 1, m)
  BY <1>1 DEF rest
<1>4. /\ SubSeq(s, n + 1, m) \in Seq(Byte) /\ Len(SubSeq(s, n + 1, m)) = m - n
      /\ \A j \in 1 .. m - n : SubSeq(s, n + 1, m)[j] = s[n + j]
  BY <1>1, <1>2, Suffix
<1>5. Width \in Nat
  BY StringsAssumption
<1>6. Len(rest) \in Nat
  BY <1>2, <1>3, <1>4
<1>7. room \in Nat /\ room <= Len(rest) /\ room <= Width
  BY <1>5, <1>6 DEF room
<1> QED BY <1>1, <1>2, <1>3, <1>4, <1>6, <1>7

LEMMA Word ==
  ASSUME input \in Seq(Byte)
  PROVE  /\ word \in Seq(Byte) /\ Len(word) \in 0 .. room
         /\ \A k \in 0 .. room :
              (\A j \in 1 .. k : rest[j] \notin Blanks) /\ (k < room => rest[k + 1] \in Blanks)
                => word = SubSeq(rest, 1, k)
<1> DEFINE Holds(k) == \A j \in 1 .. k : rest[j] \notin Blanks
           S == {k \in 0 .. room : Holds(k)}
           Is(k) == Holds(k) /\ \A j \in 0 .. room : Holds(j) => j <= k
           longest == CHOOSE k \in 0 .. room : Is(k)
<1>1. room \in Nat /\ rest \in Seq(Byte) /\ Len(rest) \in Nat /\ room <= Len(rest)
  BY RestTyped
<1>2. \E k \in 0 .. room : Is(k)
  <2>1. S \in SUBSET (0 .. room) /\ 0 \in S
    BY <1>1
  <2>2. \E k \in S : \A j \in S : j <= k
    <3> HIDE DEF S
    <3> QED BY <1>1, <2>1, Largest
  <2> HIDE DEF Holds
  <2> QED BY <2>2
<1>3. word = SubSeq(rest, 1, longest)
  BY Zenon DEF word, Longest, rest, room
<1>4. longest \in 0 .. room /\ Is(longest)
  <2> HIDE DEF Is
  <2> QED BY <1>2
<1> HIDE DEF longest
<1>5. word \in Seq(Byte) /\ Len(word) = longest
  <2>1. longest \in 0 .. Len(rest)
    BY <1>1, <1>4
  <2>2. SubSeq(rest, 1, longest) \in Seq(Byte) /\ Len(SubSeq(rest, 1, longest)) = longest
    BY <1>1, <2>1
  <2> QED BY <1>3, <2>2
<1>6. ASSUME NEW k \in 0 .. room, Holds(k), k < room => rest[k + 1] \in Blanks
      PROVE  longest = k
  <2>1. k <= longest
    BY <1>4, <1>6
  <2>2. ~(k < longest)
    <3> SUFFICES ASSUME k < longest PROVE FALSE
      OBVIOUS
    <3>1. k + 1 \in 1 .. longest /\ k < room
      BY <1>1, <1>4
    <3> QED BY <1>4, <1>6, <3>1
  <2> QED BY <1>4, <2>1, <2>2
<1> QED BY <1>3, <1>4, <1>5, <1>6

\* The lines with their ends, and how much of the input the first m words and
\* the blanks between them take.
Ends(c) == [k \in DOMAIN c.lines |-> Append(c.lines[k], Newline)]
Behind(c, m) == Len(Upto(Byte, Ends(c))[m])
Consumed(c, m) == IF m = 0 THEN 0 ELSE Behind(c, m) - 1

LEMMA ReadCall ==
  ASSUME NEW c \in Calls, c.op = "readLine"
  PROVE  /\ c.input \in Seq(Byte) /\ Len(c.input) \in Nat
         /\ c.lines \in Seq(Seq(Byte)) /\ Len(c.lines) \in Nat /\ DOMAIN c.lines = 1 .. Len(c.lines)
         /\ Ends(c) \in Seq(Seq(Byte)) /\ Len(Ends(c)) = Len(c.lines)
         /\ \A k \in 1 .. Len(c.lines) :
              /\ Len(c.lines[k]) \in Nat /\ Len(Ends(c)[k]) = Len(c.lines[k]) + 1
              /\ Ends(c)[k][Len(c.lines[k]) + 1] = Newline
              /\ \A j \in 1 .. Len(c.lines[k]) : Ends(c)[k][j] = c.lines[k][j]
         /\ Behind(c, 0) = 0 /\ Behind(c, Len(c.lines)) = Len(c.input)
         /\ \A m \in 0 .. Len(c.lines) : Behind(c, m) \in Nat /\ Behind(c, m) <= Len(c.input)
<1>1. /\ c.input \in Seq(Byte) /\ c.lines \in Seq(Seq(Byte \ {Newline}))
      /\ c.input = FlattenSeq(Ends(c))
  BY ReadAssumption, LinesAssumption DEF Ends
<1>2. Len(c.input) \in Nat /\ Len(c.lines) \in Nat /\ DOMAIN c.lines = 1 .. Len(c.lines)
  BY <1>1
<1>3. ASSUME NEW k \in 1 .. Len(c.lines)
      PROVE  /\ c.lines[k] \in Seq(Byte) /\ Len(c.lines[k]) \in Nat
             /\ Ends(c)[k] = Append(c.lines[k], Newline) /\ Append(c.lines[k], Newline) \in Seq(Byte)
             /\ Len(Append(c.lines[k], Newline)) = Len(c.lines[k]) + 1
             /\ Append(c.lines[k], Newline)[Len(c.lines[k]) + 1] = Newline
             /\ \A j \in 1 .. Len(c.lines[k]) : Append(c.lines[k], Newline)[j] = c.lines[k][j]
  <2>1. PICK line : line = c.lines[k]
    OBVIOUS
  <2>2. line \in Seq(Byte \ {Newline})
    BY <1>1, <2>1
  <2>3. line \in Seq(Byte)
    BY <2>2, SeqMonotonic
  <2>4. Newline \in Byte
    BY DEF Newline, Byte
  <2>5. /\ Append(line, Newline) \in Seq(Byte) /\ Len(Append(line, Newline)) = Len(line) + 1
        /\ Append(line, Newline)[Len(line) + 1] = Newline
        /\ \A j \in 1 .. Len(line) : Append(line, Newline)[j] = line[j]
    BY <2>3, <2>4, AppendProperties
  <2>6. Ends(c)[k] = Append(line, Newline)
    BY <1>2, <2>1 DEF Ends
  <2> QED BY <2>1, <2>3, <2>5, <2>6
<1>4. c.lines \in Seq(Seq(Byte))
  <2>1. c.lines = [k \in 1 .. Len(c.lines) |-> c.lines[k]]
    BY <1>1
  <2>2. [k \in 1 .. Len(c.lines) |-> c.lines[k]] \in Seq(Seq(Byte))
    BY <1>2, <1>3
  <2> QED BY <2>1, <2>2
<1>5. Ends(c) \in Seq(Seq(Byte)) /\ Len(Ends(c)) = Len(c.lines)
  <2>1. Ends(c) = [k \in 1 .. Len(c.lines) |-> Append(c.lines[k], Newline)]
    BY <1>2 DEF Ends
  <2>2. [k \in 1 .. Len(c.lines) |-> Append(c.lines[k], Newline)] \in Seq(Seq(Byte))
    BY <1>2, <1>3
  <2>3. Len([k \in 1 .. Len(c.lines) |-> Append(c.lines[k], Newline)]) = Len(c.lines)
    BY <1>2
  <2> QED BY <2>1, <2>2, <2>3
<1>6. PICK s, g : s = Ends(c) /\ g = Upto(Byte, Ends(c))
  OBVIOUS
<1>7. /\ g \in [0 .. Len(s) -> Seq(Byte)] /\ PrefixElements(g, s) /\ g[0] = <<>> /\ g[Len(s)] = c.input
      /\ s \in Seq(Seq(Byte)) /\ Len(s) \in Nat
  BY <1>1, <1>2, <1>5, <1>6, Concatenations
<1>8. ASSUME NEW m \in 0 .. Len(s)
      PROVE  Len(g[m]) \in Nat /\ Len(g[m]) <= Len(g[Len(s)])
  <2>1. Len(s) \in m .. Len(s)
    BY <1>7
  <2> QED BY <1>7, <2>1, Grows
<1>9. Behind(c, 0) = 0 /\ Behind(c, Len(c.lines)) = Len(c.input)
  BY <1>5, <1>6, <1>7 DEF Behind
<1>10. \A m \in 0 .. Len(c.lines) : Behind(c, m) \in Nat /\ Behind(c, m) <= Len(c.input)
  BY <1>5, <1>6, <1>7, <1>8 DEF Behind
<1> QED BY <1>1, <1>2, <1>3, <1>4, <1>5, <1>9, <1>10

\* The next line stands behind the lines before it.
LEMMA NextLine ==
  ASSUME NEW c \in Calls, c.op = "readLine", NEW m \in 0 .. Len(c.lines) - 1
  PROVE  /\ \A j \in 1 .. Len(c.lines[m + 1]) : c.input[Behind(c, m) + j] = c.lines[m + 1][j]
         /\ Behind(c, m + 1) = Behind(c, m) + Len(c.lines[m + 1]) + 1
         /\ c.input[Behind(c, m + 1)] = Newline
<1>1. PICK s, g, k, line : /\ s = Ends(c) /\ g = Upto(Byte, Ends(c)) /\ k = m + 1 /\ line = c.lines[k]
  OBVIOUS
<1>2. /\ s \in Seq(Seq(Byte)) /\ Len(s) = Len(c.lines) /\ Len(s) \in Nat
      /\ k \in 1 .. Len(s) /\ k \in 0 .. Len(s) /\ m \in 0 .. Len(s) /\ k - 1 = m
  <2>1. Ends(c) \in Seq(Seq(Byte)) /\ Len(Ends(c)) = Len(c.lines) /\ Len(c.lines) \in Nat
    BY ReadCall
  <2>2. PICK n : n = Len(c.lines)
    OBVIOUS
  <2>3. n \in Nat /\ m \in 0 .. n - 1
    BY <2>1, <2>2
  <2>4. k \in 1 .. n /\ k \in 0 .. n /\ m \in 0 .. n /\ k - 1 = m
    BY <1>1, <2>3
  <2> QED BY <1>1, <2>1, <2>2, <2>3, <2>4
<1>3. /\ Len(line) \in Nat /\ Len(s[k]) = Len(line) + 1 /\ s[k][Len(line) + 1] = Newline
      /\ \A j \in 1 .. Len(line) : s[k][j] = line[j]
  BY <1>1, <1>2, ReadCall
<1>4. /\ g \in [0 .. Len(s) -> Seq(Byte)] /\ PrefixElements(g, s) /\ g[Len(s)] = c.input
      /\ g[k] = g[m] \o s[k] /\ g[m] \in Seq(Byte) /\ s[k] \in Seq(Byte)
      /\ Len(g[m]) \in Nat /\ Len(g[k]) = Len(g[m]) + Len(s[k]) /\ Len(g[k]) \in Nat
  <2>1. c.input = FlattenSeq(s)
    BY <1>1, LinesAssumption DEF Ends
  <2>2. /\ g \in [0 .. Len(s) -> Seq(Byte)] /\ PrefixElements(g, s) /\ g[Len(s)] = c.input
        /\ g[k] = g[k - 1] \o s[k] /\ s[k] \in Seq(Byte) /\ Len(s[k]) \in Nat
        /\ Len(g[k]) = Len(g[k - 1]) + Len(s[k])
    BY <1>1, <1>2, <2>1, Concatenations
  <2>3. /\ g[m] \in Seq(Byte) /\ Len(g[m]) \in Nat /\ Len(g[k]) \in Nat
    BY <1>1, <1>2, Concatenations
  <2> QED BY ONLY <1>2, <2>2, <2>3
<1>5. \A j \in 1 .. Len(s[k]) : g[k][Len(g[m]) + j] = s[k][j]
  <2>1. PICK a \in Seq(Byte), b \in Seq(Byte) : a = g[m] /\ b = s[k]
    BY <1>4
  <2>2. \A j \in 1 .. Len(b) : (a \o b)[Len(a) + j] = b[j]
    BY ConcatElements
  <2> QED BY <1>4, <2>1, <2>2
<1>6. \A j \in 1 .. Len(g[k]) : c.input[j] = g[k][j]
  <2>1. Len(s) \in k .. Len(s)
    BY <1>2
  <2>2. g \in [0 .. Len(s) -> Seq(Byte)] /\ PrefixElements(g, s) /\ g[Len(s)] = c.input
    BY <1>4
  <2>3. s \in Seq(Seq(Byte)) /\ k \in 0 .. Len(s)
    BY <1>2
  <2>4. PICK n : n = Len(s)
    OBVIOUS
  <2>5. n \in k .. Len(s)
    BY <2>1, <2>4
  <2>6. \A j \in 1 .. Len(g[k]) : g[n][j] = g[k][j]
    <3>1. g \in [0 .. Len(s) -> Seq(Byte)] /\ PrefixElements(g, s)
      BY <2>2
    <3>2. StartsWith(g[n], g[k])
      BY <2>3, <2>5, <3>1, Grows
    <3> QED BY <3>2 DEF StartsWith
  <2> QED BY <2>2, <2>4, <2>6
<1>7. Behind(c, m) = Len(g[m]) /\ Behind(c, m + 1) = Len(g[k])
  BY <1>1 DEF Behind
<1>8. PICK a, b, n : a = Len(g[m]) /\ b = Len(g[k]) /\ n = Len(line)
  OBVIOUS
<1>9. a \in Nat /\ b \in Nat /\ n \in Nat /\ b = a + Len(s[k]) /\ Len(s[k]) = n + 1
  BY <1>3, <1>4, <1>8
<1>10. ASSUME NEW j \in 1 .. n + 1
       PROVE  c.input[a + j] = s[k][j]
  <2>1. a + j \in 1 .. b /\ j \in 1 .. Len(s[k])
    BY <1>9
  <2>2. g[k][a + j] = s[k][j]
    BY <1>5, <1>8, <2>1
  <2>3. c.input[a + j] = g[k][a + j]
    BY <1>6, <1>8, <2>1
  <2> QED BY <2>2, <2>3
<1>11. /\ n + 1 \in 1 .. n + 1 /\ \A j \in 1 .. n : j \in 1 .. n + 1
       /\ b = a + n + 1 /\ a + (n + 1) = b
  BY <1>9
<1>12. c.input[b] = Newline /\ \A j \in 1 .. n : c.input[a + j] = line[j]
  <2>1. c.input[a + (n + 1)] = s[k][n + 1] /\ s[k][n + 1] = Newline
    BY <1>3, <1>8, <1>10, <1>11
  <2>2. \A j \in 1 .. n : c.input[a + j] = s[k][j] /\ s[k][j] = line[j]
    BY <1>3, <1>8, <1>10, <1>11
  <2> QED BY <1>11, <2>1, <2>2
<1> QED BY <1>1, <1>7, <1>8, <1>11, <1>12

\* Where the input stands: at the end of the line that was returned last.
OneWords == \A k \in DOMAIN call.lines : OneWord(call.lines[k])

ReadInv ==
    /\ phase \in {"readLine", "abort", "undefined"} /\ input \in Seq(Byte) /\ result \in Int
    /\ idx = 0 /\ num_params = 0 /\ max_len = 0 /\ all_string = <<>> /\ new_str = <<>>
    /\ OneWords =>
         /\ phase # "undefined"
         /\ Len(lines) \in 0 .. Len(call.lines) /\ lines = SubSeq(call.lines, 1, Len(lines))
         /\ input = SubSeq(call.input, Consumed(call, Len(lines)) + 1, Len(call.input))
         /\ phase = "abort" => Len(lines) = Len(call.lines)

InRead == call \in Calls /\ call.op = "readLine" /\ ReadInv

LEMMA ReadInit ==
  ASSUME Init, call.op = "readLine"
  PROVE  ReadInv
<1>1. /\ call \in Calls /\ phase = "readLine" /\ idx = 0 /\ input = call.input /\ lines = <<>>
      /\ result \in Int /\ num_params = 0 /\ max_len = 0 /\ all_string = <<>> /\ new_str = <<>>
  BY StringsAssumption DEF Init
<1>2. call.input \in Seq(Byte) /\ call.lines \in Seq(Seq(Byte)) /\ Len(call.lines) \in Nat
  BY <1>1, ReadCall
<1>3. Len(lines) = 0
  BY <1>1
<1>4. SubSeq(call.lines, 1, 0) = <<>> /\ SubSeq(call.input, 1, Len(call.input)) = call.input
  BY <1>2, SubSeqEmpty, SubSeqFull
<1>5. Consumed(call, Len(lines)) + 1 = 1
  BY <1>3 DEF Consumed
<1> QED BY <1>1, <1>2, <1>3, <1>4, <1>5 DEF ReadInv

\* What stands in front of readLine: the blank behind the last line, then what
\* is behind it.
LEMMA Unread ==
  ASSUME InRead, OneWords
  PROVE  LET m == Len(lines)
             off == IF m = 0 THEN 0 ELSE 1
         IN  /\ Consumed(call, m) + off = Behind(call, m) /\ Consumed(call, m) \in Nat
             /\ Len(input) = Len(call.input) - Consumed(call, m) /\ off <= Len(input)
             /\ \A j \in 1 .. Len(input) : input[j] = call.input[Consumed(call, m) + j]
             /\ \A j \in 1 .. off : input[j] \in Blanks
<1>1. PICK m, off, b, d : /\ m = Len(lines) /\ off = (IF m = 0 THEN 0 ELSE 1)
                          /\ b = Behind(call, m) /\ d = Consumed(call, m)
  OBVIOUS
<1>2. /\ m \in 0 .. Len(call.lines) /\ Len(call.lines) \in Nat /\ call.input \in Seq(Byte)
      /\ Len(call.input) \in Nat /\ b \in Nat /\ b <= Len(call.input) /\ (m = 0 => b = 0)
  BY <1>1, ReadCall DEF InRead, ReadInv
<1>3. m # 0 => b \in 1 .. Len(call.input) /\ call.input[b] = Newline
  <2>1. ASSUME m # 0
        PROVE  b \in 1 .. Len(call.input) /\ call.input[b] = Newline
    <3>1. PICK l : l = m - 1
      OBVIOUS
    <3>2. l \in 0 .. Len(call.lines) - 1 /\ l \in 0 .. Len(call.lines) /\ l + 1 = m /\ m \in 1 .. Len(call.lines)
      BY <1>2, <2>1, <3>1
    <3>3. /\ Behind(call, l + 1) = Behind(call, l) + Len(call.lines[l + 1]) + 1
          /\ call.input[Behind(call, l + 1)] = Newline
      BY <3>2, NextLine DEF InRead
    <3>4. Behind(call, l) \in Nat /\ Len(call.lines[m]) \in Nat
      BY <3>2, ReadCall DEF InRead
    <3>5. b = Behind(call, l) + Len(call.lines[m]) + 1 /\ call.input[b] = Newline
      BY <1>1, <3>2, <3>3
    <3> QED BY <1>2, <3>4, <3>5
  <2> QED BY <2>1
<1>4. d = (IF m = 0 THEN 0 ELSE b - 1) /\ d + off = b /\ d \in Nat /\ d \in 0 .. Len(call.input)
      /\ off \in 0 .. Len(call.input) - d /\ off \in {0, 1}
  <2>1. d = IF m = 0 THEN 0 ELSE b - 1
    BY <1>1 DEF Consumed
  <2> QED BY <1>1, <1>2, <1>3, <2>1
<1>5. input = SubSeq(call.input, d + 1, Len(call.input))
  BY <1>1 DEF InRead, ReadInv
<1>6. Len(input) = Len(call.input) - d /\ \A j \in 1 .. Len(call.input) - d : input[j] = call.input[d + j]
  BY <1>2, <1>4, <1>5, Suffix
<1>7. \A j \in 1 .. off : input[j] \in Blanks
  <2>1. ASSUME off = 1
        PROVE  input[1] \in Blanks
    <3>1. 1 \in 1 .. Len(call.input) - d /\ d + 1 = b /\ m # 0
      BY <1>1, <1>2, <1>4, <2>1
    <3>2. input[1] = Newline
      BY <1>3, <1>6, <3>1
    <3> QED BY <3>2 DEF Blanks, Newline, Tab, CarriageReturn
  <2>2. \A j \in 1 .. off : off = 1 /\ j = 1
    BY <1>4
  <2> QED BY <2>1, <2>2
<1>8. off <= Len(input)
  BY <1>2, <1>4, <1>6
<1> QED BY <1>1, <1>4, <1>6, <1>7, <1>8

LEMMA NextWord ==
  ASSUME InRead, OneWords, Len(lines) < Len(call.lines)
  PROVE  /\ skipped = IF Len(lines) = 0 THEN 0 ELSE 1
         /\ word = call.lines[Len(lines) + 1] /\ Len(word) \in 1 .. Width - 1
         /\ skipped + Len(word) \in 0 .. Len(input)
         /\ Consumed(call, Len(lines)) + (skipped + Len(word)) = Consumed(call, Len(lines) + 1)
<1>1. PICK m, k, off, b, d, n, line, l : /\ m = Len(lines) /\ off = (IF m = 0 THEN 0 ELSE 1) /\ k = m + 1
                       /\ b = Behind(call, m) /\ d = Consumed(call, m) /\ n = Len(call.input)
                       /\ line = call.lines[k] /\ l = Len(line)
  OBVIOUS
<1>2. /\ m \in 0 .. Len(call.lines) - 1 /\ k \in 1 .. Len(call.lines) /\ k \in 0 .. Len(call.lines) /\ k # 0
      /\ n \in Nat /\ off \in {0, 1} /\ input \in Seq(Byte) /\ line \in Seq(Byte) /\ k - 1 = m
  <2>1. /\ m \in 0 .. Len(call.lines) /\ Len(call.lines) \in Nat /\ n \in Nat /\ call.lines \in Seq(Seq(Byte))
    BY <1>1, ReadCall DEF InRead, ReadInv
  <2>2. m \in 0 .. Len(call.lines) - 1 /\ k \in 1 .. Len(call.lines) /\ k - 1 = m /\ k # 0
    BY <1>1, <2>1
  <2> QED BY <1>1, <2>1, <2>2 DEF InRead, ReadInv
<1>3. l \in 1 .. Width - 1 /\ \A j \in 1 .. l : line[j] \notin Blanks
  <2>1. DOMAIN call.lines = 1 .. Len(call.lines) /\ DOMAIN line = 1 .. l
    <3>1. DOMAIN line = 1 .. Len(line)
      BY <1>2
    <3> QED BY <1>1, <3>1, ReadCall DEF InRead
  <2> QED BY <1>1, <1>2, <2>1 DEF OneWords, OneWord
<1>4. /\ \A j \in 1 .. l : call.input[b + j] = line[j]
      /\ Behind(call, k) = b + l + 1 /\ call.input[b + l + 1] = Newline
      /\ b \in Nat /\ b + l + 1 <= n
  <2>1. /\ \A j \in 1 .. Len(call.lines[m + 1]) : call.input[Behind(call, m) + j] = call.lines[m + 1][j]
        /\ Behind(call, m + 1) = Behind(call, m) + Len(call.lines[m + 1]) + 1
        /\ call.input[Behind(call, m + 1)] = Newline
    BY <1>2, NextLine DEF InRead
  <2>2. b \in Nat /\ Behind(call, k) <= n
    <3>1. m \in 0 .. Len(call.lines)
      BY <1>2, ReadCall DEF InRead
    <3> QED BY <1>1, <1>2, <3>1, ReadCall DEF InRead
  <2> QED BY <1>1, <2>1, <2>2
<1>5. /\ d + off = b /\ d \in Nat /\ Len(input) = n - d /\ off <= Len(input)
      /\ \A j \in 1 .. Len(input) : input[j] = call.input[d + j]
      /\ \A j \in 1 .. off : input[j] \in Blanks
  BY <1>1, Unread
<1>6. Width \in Nat /\ l \in Nat /\ l + 1 <= Width
  BY <1>3, StringsAssumption
<1>7. \A j \in 1 .. l + 1 : off + j \in 1 .. Len(input) /\ input[off + j] = call.input[b + j]
  <2>1. ASSUME NEW j \in 1 .. l + 1
        PROVE  off + j \in 1 .. Len(input) /\ d + (off + j) = b + j
    BY <1>2, <1>4, <1>5, <1>6
  <2> QED BY <1>5, <2>1
<1>8. skipped = off
  <2>1. off \in 0 .. Len(input) /\ 1 \in 1 .. l + 1 /\ 1 \in 1 .. l
    BY <1>2, <1>3, <1>5
  <2>2. input[off + 1] \notin Blanks
    BY <1>3, <1>4, <1>7, <2>1
  <2> QED BY <1>2, <1>5, <2>1, <2>2, Skipped
<1>9. /\ Len(rest) = Len(input) - off /\ rest \in Seq(Byte) /\ room \in Nat /\ l + 1 <= room
      /\ \A j \in 1 .. l + 1 : rest[j] = call.input[b + j]
  <2>1. /\ Len(rest) = Len(input) - off /\ rest \in Seq(Byte) /\ room \in Nat
        /\ \A j \in 1 .. Len(rest) : rest[j] = input[off + j]
    BY <1>2, <1>8, RestTyped
  <2>2. l + 1 <= Len(rest) /\ Len(rest) \in Nat
    BY <1>2, <1>4, <1>5, <1>6, <2>1
  <2>3. l + 1 <= room
    BY <1>6, <2>2 DEF room
  <2>4. ASSUME NEW j \in 1 .. l + 1
        PROVE  rest[j] = call.input[b + j]
    <3>1. j \in 1 .. Len(rest)
      BY <1>6, <2>2
    <3>2. rest[j] = input[off + j]
      BY <2>1, <3>1
    <3> QED BY <1>7, <3>2
  <2> QED BY <2>1, <2>3, <2>4
<1>10. word = SubSeq(rest, 1, l)
  <2>1. l \in 0 .. room /\ l < room
    BY <1>6, <1>9
  <2>2. ASSUME NEW j \in 1 .. l
        PROVE  rest[j] \notin Blanks
    <3>1. j \in 1 .. l + 1
      BY <1>6
    <3>2. rest[j] = line[j]
      BY <1>4, <1>9, <3>1
    <3> QED BY <1>3, <3>2
  <2>3. rest[l + 1] \in Blanks
    <3>1. l + 1 \in 1 .. l + 1 /\ b + (l + 1) = b + l + 1
      BY <1>4, <1>6
    <3>2. rest[l + 1] = Newline
      BY <1>4, <1>9, <3>1
    <3> QED BY <3>2 DEF Blanks, Newline, Tab, CarriageReturn
  <2> QED BY <1>2, <2>1, <2>2, <2>3, Word
<1>11. word = line
  <2>1. \A i \in 1 .. l : rest[i] = line[i] /\ line[i] \in Byte
    <3>1. \A i \in 1 .. l : line[i] \in Byte
      BY <1>1, <1>2
    <3> QED BY <1>4, <1>6, <1>9, <3>1
  <2>2. /\ word \in Seq(Byte) /\ Len(word) = IF 1 <= l THEN l - 1 + 1 ELSE 0
        /\ \A i \in 1 .. l - 1 + 1 : word[i] = rest[1 + i - 1]
    BY <1>3, <1>6, <1>10, <2>1, SubSeqProperties
  <2>3. Len(word) = l /\ \A i \in 1 .. l : word[i] = rest[i]
    <3>1. \A i \in 1 .. l : 1 + i - 1 = i /\ i \in 1 .. l - 1 + 1
      BY <1>6
    <3>2. (IF 1 <= l THEN l - 1 + 1 ELSE 0) = l
      BY <1>3, <1>6
    <3> QED BY <2>2, <3>1, <3>2
  <2>4. Len(line) = l
    BY <1>1
  <2> QED BY <1>2, <2>1, <2>2, <2>3, <2>4, SeqEqual
<1>12. d + (off + l) = Consumed(call, k) /\ off + l \in 0 .. Len(input)
  <2>1. Consumed(call, k) = Behind(call, k) - 1
    BY <1>2 DEF Consumed
  <2> QED BY <1>2, <1>4, <1>5, <1>6, <2>1
<1> QED BY <1>1, <1>3, <1>8, <1>11, <1>12

LEMMA NoWord ==
  ASSUME InRead, OneWords, Len(lines) = Len(call.lines)
  PROVE  word = <<>>
<1>1. PICK m, off, n, d : /\ m = Len(lines) /\ off = (IF m = 0 THEN 0 ELSE 1)
                          /\ n = Len(call.input) /\ d = Consumed(call, m)
  OBVIOUS
<1>2. m = Len(call.lines) /\ m \in Nat /\ n \in Nat /\ off \in {0, 1} /\ input \in Seq(Byte)
      /\ Behind(call, m) = n
  BY <1>1, ReadCall DEF InRead, ReadInv
<1>3. d + off = n /\ d \in Nat /\ Len(input) = n - d /\ \A j \in 1 .. off : input[j] \in Blanks
  BY <1>1, <1>2, Unread
<1>4. Len(input) = off
  BY <1>2, <1>3
<1>5. skipped = off
  BY <1>2, <1>3, <1>4, Skipped
<1>6. Len(rest) = 0 /\ room \in Nat /\ room <= 0
  <2>1. Len(rest) = Len(input) - off /\ room \in Nat /\ room <= Len(rest)
    BY <1>2, <1>5, RestTyped
  <2> QED BY <1>2, <1>4, <2>1
<1>7. word \in Seq(Byte) /\ Len(word) \in 0 .. room
  BY <1>2, Word
<1>8. Len(word) = 0
  BY <1>6, <1>7
<1> QED BY <1>7, <1>8

LEMMA ReadLine ==
  ASSUME InRead, readLine
  PROVE  ReadInv'
<1>1. /\ lines' = Append(lines, word) /\ phase = "readLine"
      /\ input' = SubSeq(input, skipped + Len(word) + 1, Len(input))
      /\ phase' = (IF Len(word) + 1 > Width THEN "undefined" ELSE phase)
      /\ UNCHANGED <<call, idx, all_string, num_params, max_len, new_str, result>>
  BY DEF readLine
<1>2. /\ input \in Seq(Byte) /\ result \in Int /\ idx = 0 /\ num_params = 0 /\ max_len = 0
      /\ all_string = <<>> /\ new_str = <<>>
  BY DEF InRead, ReadInv
<1>3. input' \in Seq(Byte)
  <2>1. PICK s, n, a, b : s = input /\ n = Len(s) /\ a = skipped /\ b = Len(word)
    OBVIOUS
  <2>2. s \in Seq(Byte) /\ n \in Nat /\ a \in Nat /\ b \in Nat
    <3>1. skipped \in 0 .. Len(input) /\ Len(word) \in 0 .. room /\ room \in Nat
      BY <1>2, Skipped, Word, RestTyped
    <3> QED BY <1>2, <2>1, <3>1
  <2>3. a + b + 1 \in Int /\ n \in Int /\ \A i \in a + b + 1 .. n : s[i] \in Byte
    BY <2>1, <2>2
  <2>4. SubSeq(s, a + b + 1, n) \in Seq(Byte)
    BY <2>3, SubSeqProperties
  <2>5. input' = SubSeq(s, a + b + 1, n)
    BY <1>1, <2>1
  <2> QED BY <2>4, <2>5
<1>4. ASSUME OneWords
      PROVE  /\ phase' = "readLine"
             /\ Len(lines') \in 0 .. Len(call.lines) /\ lines' = SubSeq(call.lines, 1, Len(lines'))
             /\ input' = SubSeq(call.input, Consumed(call, Len(lines')) + 1, Len(call.input))
  <2>1. PICK m, all : m = Len(lines) /\ all = call.lines
    OBVIOUS
  <2>2. /\ m \in 0 .. Len(all) /\ lines = SubSeq(all, 1, m) /\ all \in Seq(Seq(Byte)) /\ Len(all) \in Nat
        /\ input = SubSeq(call.input, Consumed(call, m) + 1, Len(call.input))
        /\ call.input \in Seq(Byte) /\ Len(call.input) \in Nat
    BY <1>4, <2>1, ReadCall DEF InRead, ReadInv
  <2>3. m < Len(all)
    <3>1. word # <<>>
      BY DEF readLine
    <3> QED BY <1>4, <2>1, <2>2, <3>1, NoWord
  <2>4. /\ word = all[m + 1] /\ Len(word) \in 1 .. Width - 1 /\ skipped + Len(word) \in 0 .. Len(input)
        /\ Consumed(call, m) + (skipped + Len(word)) = Consumed(call, m + 1)
    BY <1>4, <2>1, <2>3, NextWord
  <2>5. phase' = "readLine"
    <3>1. ~(Len(word) + 1 > Width)
      BY <2>4, StringsAssumption
    <3> QED BY <1>1, <3>1
  <2>6. lines' = SubSeq(all, 1, m + 1) /\ Len(lines') = m + 1
    <3>1. m + 1 \in 1 .. Len(all) /\ 1 \in 1 .. Len(all)
      BY <2>2, <2>3
    <3>2. PICK n : n = m + 1
      OBVIOUS
    <3>3. n \in 1 .. Len(all) /\ 1 \in 1 .. Len(all) /\ n - 1 = m
      BY <2>2, <3>1, <3>2
    <3>4. SubSeq(all, 1, n) = SubSeq(all, 1, n - 1) \o <<all[n]>>
      BY <2>2, <3>3, SubSeqRecursiveSecond
    <3>5. lines \in Seq(Seq(Byte)) /\ all[n] \in Seq(Byte)
      BY <2>2, <3>3
    <3>6. Append(lines, all[n]) = lines \o <<all[n]>> /\ Len(Append(lines, all[n])) = Len(lines) + 1
      BY <3>5, AppendIsConcat, AppendProperties
    <3> QED BY <1>1, <2>1, <2>2, <2>4, <3>2, <3>3, <3>4, <3>6
  <2>7. input' = SubSeq(call.input, Consumed(call, m + 1) + 1, Len(call.input))
    <3>1. PICK s, t, i, j : /\ s = call.input /\ t = input /\ i = Consumed(call, m)
                            /\ j = skipped + Len(word)
      OBVIOUS
    <3>2. i \in Nat /\ i <= Len(s)
      <4>1. Consumed(call, m) \in Nat /\ Len(input) = Len(call.input) - Consumed(call, m)
        BY <1>4, <2>1, Unread
      <4>2. Len(input) \in Nat
        BY <1>2
      <4> QED BY <2>2, <3>1, <4>1, <4>2
    <3>3. s \in Seq(Byte) /\ i \in 0 .. Len(s) /\ t = SubSeq(s, i + 1, Len(s)) /\ j \in 0 .. Len(t)
      <4>1. s \in Seq(Byte) /\ t = SubSeq(s, i + 1, Len(s)) /\ j \in 0 .. Len(t)
        BY <2>2, <2>4, <3>1
      <4> QED BY ONLY <2>2, <3>1, <3>2, <4>1
    <3>4. SubSeq(t, j + 1, Len(t)) = SubSeq(s, i + j + 1, Len(s))
      BY <3>3, SuffixOfSuffix
    <3> QED BY <1>1, <2>4, <3>1, <3>4
  <2>8. Len(lines') \in 0 .. Len(all)
    BY <2>2, <2>3, <2>6
  <2> QED BY <2>1, <2>5, <2>6, <2>7, <2>8
<1>5. OneWords' = OneWords
  BY <1>1 DEF OneWords
<1>6. phase' \in {"readLine", "undefined"}
  BY <1>1
<1> QED BY <1>1, <1>2, <1>3, <1>4, <1>5, <1>6 DEF ReadInv, Consumed, Behind

LEMMA EndOfInput ==
  ASSUME InRead, end_of_input
  PROVE  ReadInv'
<1>1. /\ word = <<>> /\ phase = "readLine" /\ phase' = "abort"
      /\ UNCHANGED <<call, idx, all_string, num_params, max_len, new_str, result, input, lines>>
  BY DEF end_of_input
<1>2. ASSUME OneWords
      PROVE  Len(lines) = Len(call.lines)
  <2>1. Len(lines) \in 0 .. Len(call.lines) /\ Len(call.lines) \in Nat
    BY <1>2, ReadCall DEF InRead, ReadInv
  <2>2. ~(Len(lines) < Len(call.lines))
    <3> SUFFICES ASSUME Len(lines) < Len(call.lines) PROVE FALSE
      OBVIOUS
    <3>1. Len(word) \in 1 .. Width - 1
      BY <1>2, NextWord
    <3>2. Len(word) = 0
      BY <1>1
    <3> QED BY <3>1, <3>2
  <2> QED BY <2>1, <2>2
<1>3. OneWords' = OneWords
  BY <1>1 DEF OneWords
<1>4. Consumed(call, Len(lines))' = Consumed(call, Len(lines))
  BY <1>1 DEF Consumed, Behind
<1> QED BY <1>1, <1>2, <1>3, <1>4 DEF InRead, ReadInv

LEMMA Read ==
  ASSUME InRead
  PROVE  ReadsLines
<1> SUFFICES ASSUME OneWords PROVE ReadsLines
  BY DEF ReadsLines, OneWords
<1>1. /\ phase # "undefined" /\ lines = SubSeq(call.lines, 1, Len(lines))
      /\ phase = "abort" => Len(lines) = Len(call.lines)
  BY DEF InRead, ReadInv
<1>2. SubSeq(call.lines, 1, Len(call.lines)) = call.lines
  BY ReadCall, SubSeqFull DEF InRead
<1> QED BY <1>1, <1>2 DEF ReadsLines

-----------------------------------------------------------------------------
\* Parameters: where a type starts, and what the types in front of it count as.
Start(c, m) == Len(Upto(STRING, c.types)[m])
Arrays(c, m) == {k \in 1 .. m : c.types[k] = ArrayOfStrings}
Counts(c, m) == m + 17 * Cardinality(Arrays(c, m))

\* The provers are not told that a literal is a string.
Char == STRING \cup {"(", ")"}

LEMMA Descriptor ==
  ASSUME NEW c \in Calls, c.op = "parameters"
  PROVE  /\ c.types \in Seq(Seq(STRING)) /\ Len(c.types) \in Nat /\ DOMAIN c.types = 1 .. Len(c.types)
         /\ Start(c, 0) = 0
         /\ \A m \in 0 .. Len(c.types) : Start(c, m) \in Nat /\ Start(c, m) <= Start(c, Len(c.types))
         /\ Len(c.descriptor) = Start(c, Len(c.types)) + 2
         /\ c.descriptor[Start(c, Len(c.types)) + 2] = ")"
         /\ \A k \in 1 .. Start(c, Len(c.types)) :
              c.descriptor[k + 1] = Upto(STRING, c.types)[Len(c.types)][k]
<1>1. /\ c.types \in Seq(Seq(STRING)) /\ c.descriptor = (<<"(">> \o FlattenSeq(c.types)) \o <<")">>
  BY DescriptorAssumption
<1>2. Len(c.types) \in Nat /\ DOMAIN c.types = 1 .. Len(c.types)
  BY <1>1
<1>3. PICK s, g, n, f : s = c.types /\ g = Upto(STRING, s) /\ n = Len(s) /\ f = g[n]
  OBVIOUS
<1>4. /\ g \in [0 .. Len(s) -> Seq(STRING)] /\ PrefixElements(g, s) /\ g[0] = <<>> /\ f = FlattenSeq(s)
      /\ s \in Seq(Seq(STRING)) /\ n \in Nat /\ f \in Seq(STRING)
  <2>1. s \in Seq(Seq(STRING)) /\ n \in Nat
    BY <1>1, <1>2, <1>3
  <2>2. /\ Upto(STRING, s) \in [0 .. Len(s) -> Seq(STRING)] /\ PrefixElements(Upto(STRING, s), s)
        /\ Upto(STRING, s)[0] = <<>> /\ Upto(STRING, s)[Len(s)] = FlattenSeq(s)
    BY <2>1, Concatenations
  <2>3. n \in 0 .. Len(s)
    BY <1>3, <2>1
  <2> QED BY <1>3, <2>1, <2>2, <2>3
<1>5. ASSUME NEW m \in 0 .. n
      PROVE  Len(g[m]) \in Nat /\ Len(g[m]) <= Len(g[n])
  <2>1. n \in m .. Len(s) /\ m \in 0 .. Len(s)
    BY <1>3, <1>4
  <2> QED BY <1>4, <2>1, Grows
<1>6. Start(c, n) = Len(f) /\ Start(c, 0) = 0 /\ \A m \in 0 .. n : Start(c, m) = Len(g[m])
  <2>1. Len(<<>>) = 0
    OBVIOUS
  <2> QED BY <1>3, <1>4, <2>1 DEF Start
<1>7. PICK a \in Seq(Char), b \in Seq(Char), e \in Seq(Char) : a = <<"(">> /\ b = f /\ e = <<")">>
  <2>1. <<"(">> \in Seq(Char) /\ <<")">> \in Seq(Char)
    <3>1. {"(", ")"} \subseteq Char
      BY DEF Char
    <3> QED BY <3>1
  <2>2. f \in Seq(Char)
    <3>1. STRING \subseteq Char
      BY DEF Char
    <3> QED BY <1>4, <3>1, SeqMonotonic
  <2> QED BY <2>1, <2>2
<1>8. c.descriptor = (a \o b) \o e
  BY <1>1, <1>3, <1>4, <1>7
<1>9. Len(a) = 1 /\ Len(e) = 1 /\ e[1] = ")" /\ Len(b) \in Nat
  BY <1>7
<1>10. /\ a \o b \in Seq(Char) /\ Len(a \o b) = Len(a) + Len(b)
       /\ \A k \in 1 .. Len(b) : (a \o b)[Len(a) + k] = b[k]
  BY ConcatElements
<1>11. PICK ab \in Seq(Char) : ab = a \o b
  BY <1>10
<1>12. /\ Len(ab \o e) = Len(ab) + Len(e)
       /\ \A k \in 1 .. Len(ab) : (ab \o e)[k] = ab[k]
       /\ \A k \in 1 .. Len(e) : (ab \o e)[Len(ab) + k] = e[k]
  BY ConcatElements
<1>13. PICK d, p : d = c.descriptor /\ p = Len(b)
  OBVIOUS
<1>14. /\ p \in Nat /\ Len(ab) = p + 1 /\ Len(d) = p + 2 /\ d[p + 2] = ")"
  <2>1. p \in Nat /\ Len(ab) = 1 + p
    BY <1>9, <1>10, <1>11, <1>13
  <2>2. Len(d) = Len(ab) + 1 /\ d[Len(ab) + 1] = ")"
    <3>1. 1 \in 1 .. Len(e)
      BY <1>9
    <3> QED BY <1>8, <1>9, <1>11, <1>12, <1>13, <3>1
  <2>3. Len(ab) + 1 = p + 2 /\ 1 + p = p + 1
    BY <2>1
  <2> QED BY <2>1, <2>2, <2>3
<1>15. ASSUME NEW k \in 1 .. p
       PROVE  d[k + 1] = f[k]
  <2>1. k + 1 \in 1 .. Len(ab) /\ 1 + k = k + 1
    BY <1>14
  <2>2. d[k + 1] = ab[k + 1]
    BY <1>8, <1>11, <1>12, <1>13, <2>1
  <2>3. ab[1 + k] = b[k]
    BY <1>9, <1>10, <1>11, <1>13
  <2> QED BY <1>7, <2>1, <2>2, <2>3
<1>16. p = Start(c, n)
  BY <1>6, <1>7, <1>13
<1>17. \A m \in 0 .. n : Start(c, m) \in Nat /\ Start(c, m) <= Start(c, n)
  <2>1. f = g[n] /\ n \in 0 .. n
    BY <1>3, <1>4
  <2> QED BY <1>5, <1>6, <2>1
<1>18. Upto(STRING, c.types)[Len(c.types)] = f
  BY <1>3
<1> QED BY <1>1, <1>2, <1>3, <1>6, <1>13, <1>14, <1>15, <1>16, <1>17, <1>18

\* The letters of a type.
LEMMA Letters ==
  ASSUME NEW c \in Calls, c.op = "parameters", NEW m \in 0 .. Len(c.types) - 1
  PROVE  /\ Start(c, m + 1) = Start(c, m) + Len(c.types[m + 1])
         /\ c.types[m + 1] \in Seq(STRING)
         /\ \A j \in 1 .. Len(c.types[m + 1]) : c.descriptor[Start(c, m) + j + 1] = c.types[m + 1][j]
<1>1. PICK s, g, k, t, n : /\ s = c.types /\ g = Upto(STRING, s) /\ k = m + 1 /\ t = s[k] /\ n = Len(s)
  OBVIOUS
<1>2. /\ s \in Seq(Seq(STRING)) /\ n \in Nat /\ k \in 1 .. n /\ k \in 0 .. n /\ m \in 0 .. n /\ k - 1 = m
      /\ t \in Seq(STRING)
  <2>1. s \in Seq(Seq(STRING)) /\ n \in Nat
    BY <1>1, Descriptor
  <2>2. k \in 1 .. n /\ k \in 0 .. n /\ m \in 0 .. n /\ k - 1 = m
    BY <1>1, <2>1
  <2> QED BY <1>1, <2>1, <2>2
<1>3. g \in [0 .. Len(s) -> Seq(STRING)] /\ PrefixElements(g, s) /\ g[k] = g[m] \o t
  <2>1. /\ Upto(STRING, s) \in [0 .. Len(s) -> Seq(STRING)] /\ PrefixElements(Upto(STRING, s), s)
        /\ \A i \in 1 .. Len(s) : Upto(STRING, s)[i] = Upto(STRING, s)[i - 1] \o s[i]
    BY <1>2, Concatenations
  <2> QED BY <1>1, <1>2, <2>1
<1>4. PICK a \in Seq(STRING), b \in Seq(STRING) : a = g[m] /\ b = t
  BY <1>1, <1>2, <1>3
<1>5. /\ Len(a) \in Nat /\ Len(b) \in Nat /\ Len(a \o b) = Len(a) + Len(b)
      /\ \A j \in 1 .. Len(b) : (a \o b)[Len(a) + j] = b[j]
  BY ConcatElements
<1>6. PICK p, q, r : p = Len(g[m]) /\ q = Len(t) /\ r = Len(g[k])
  OBVIOUS
<1>7. p \in Nat /\ q \in Nat /\ r = p + q /\ \A j \in 1 .. q : g[k][p + j] = t[j]
  BY <1>3, <1>4, <1>5, <1>6
<1>8. StartsWith(g[n], g[k]) /\ Len(g[k]) <= Len(g[n]) /\ Len(g[n]) \in Nat
  <2>1. n \in k .. Len(s) /\ k \in 0 .. Len(s)
    BY <1>1, <1>2
  <2>2. s \in Seq(Seq(STRING)) /\ g \in [0 .. Len(s) -> Seq(STRING)] /\ PrefixElements(g, s)
    BY <1>2, <1>3
  <2> QED BY <2>1, <2>2, Grows
<1>9. Start(c, m) = p /\ Start(c, m + 1) = r /\ Start(c, n) = Len(g[n])
  BY <1>1, <1>6 DEF Start
<1>10. ASSUME NEW j \in 1 .. q
       PROVE  c.descriptor[p + j + 1] = t[j]
  <2>1. PICK i : i = p + j
    OBVIOUS
  <2>2. i \in 1 .. r /\ i \in 1 .. Start(c, n)
    <3>1. i \in 1 .. r /\ r <= Start(c, n) /\ Start(c, n) \in Nat
      BY <1>6, <1>7, <1>8, <1>9, <2>1
    <3> QED BY <1>7, <3>1
  <2>3. c.descriptor[i + 1] = g[n][i]
    BY <1>1, <2>2, Descriptor
  <2>4. g[n][i] = g[k][i]
    BY <1>6, <1>8, <2>2 DEF StartsWith
  <2> QED BY <1>7, <2>1, <2>3, <2>4
<1> QED BY <1>1, <1>2, <1>6, <1>7, <1>9, <1>10

NameLetters == {"j", "a", "v", "/", "l", "n", "g", "S", "t", "r", "i", ";"}
ArrayLetters == {"[", "L"} \cup NameLetters

LEMMA ArrayOfStringsLetters ==
  /\ Len(ArrayOfStrings) = 19
  /\ ArrayOfStrings[1] = "[" /\ ArrayOfStrings[2] = "L"
  /\ \A p \in 3 .. 19 : ArrayOfStrings[p] \notin {"L", "[", ")"}
<1>1. String \in Seq(ArrayLetters) /\ Len(String) = 18 /\ String[1] = "L"
  BY DEF String, ArrayLetters, NameLetters
<1>2. \A k \in 2 .. 18 : String[k] \notin {"L", "[", ")"}
  <2> TAKE k \in 2 .. 18
  <2>1. /\ {String[2], String[3], String[4], String[5], String[6], String[7]} \subseteq NameLetters
        /\ {String[8], String[9], String[10], String[11], String[12], String[13]} \subseteq NameLetters
        /\ {String[14], String[15], String[16], String[17], String[18]} \subseteq NameLetters
    BY DEF String, NameLetters
  <2>2. k \in {2, 3, 4, 5, 6, 7, 8, 9, 10, 11, 12, 13, 14, 15, 16, 17, 18}
    OBVIOUS
  <2>3. String[k] \in NameLetters
    BY <2>1, <2>2
  <2>4. \A x \in NameLetters : x \notin {"L", "[", ")"}
    BY DEF NameLetters
  <2> QED BY <2>3, <2>4
<1>3. PICK a \in Seq(ArrayLetters), b \in Seq(ArrayLetters) : a = <<"[">> /\ b = String
  <2>1. <<"[">> \in Seq(ArrayLetters)
    BY DEF ArrayLetters
  <2> QED BY <1>1, <2>1
<1>4. Len(a) = 1 /\ a[1] = "["
  BY <1>3
<1>5. /\ a \o b \in Seq(ArrayLetters) /\ Len(a \o b) = Len(a) + Len(b)
      /\ \A k \in 1 .. Len(a) : (a \o b)[k] = a[k]
      /\ \A k \in 1 .. Len(b) : (a \o b)[Len(a) + k] = b[k]
  BY ConcatElements
<1>6. PICK t : t = ArrayOfStrings
  OBVIOUS
<1>7. t = a \o b
  BY <1>3, <1>6 DEF ArrayOfStrings
<1>8. Len(t) = 19 /\ t[1] = "[" /\ \A k \in 1 .. 18 : t[1 + k] = String[k]
  <2>1. Len(b) = 18 /\ 1 \in 1 .. Len(a)
    BY <1>1, <1>3, <1>4
  <2>2. Len(t) = 1 + 18
    BY <1>4, <1>5, <1>7, <2>1
  <2>3. t[1] = "["
    BY <1>4, <1>5, <1>7, <2>1
  <2>4. \A k \in 1 .. 18 : t[1 + k] = String[k]
    BY <1>3, <1>4, <1>5, <1>7, <2>1
  <2>5. 1 + 18 = 19
    OBVIOUS
  <2> QED BY <2>2, <2>3, <2>4, <2>5
<1>9. t[2] = "L"
  <2>1. 1 \in 1 .. 18 /\ 1 + 1 = 2
    OBVIOUS
  <2> QED BY <1>1, <1>8, <2>1
<1>10. ASSUME NEW p \in 3 .. 19
       PROVE  t[p] \notin {"L", "[", ")"}
  <2>1. PICK k : k = p - 1
    OBVIOUS
  <2>2. k \in 1 .. 18 /\ k \in 2 .. 18 /\ 1 + k = p
    BY <2>1
  <2>3. t[p] = String[k]
    BY <1>8, <2>2
  <2> QED BY <1>2, <2>2, <2>3
<1> QED BY <1>6, <1>8, <1>9, <1>10

LEMMA CountsGrow ==
  ASSUME NEW c \in Calls, c.op = "parameters"
  PROVE  /\ Counts(c, 0) = 0 /\ \A m \in 0 .. Len(c.types) : Counts(c, m) \in Nat
         /\ \A m \in 0 .. Len(c.types) - 1 :
              Counts(c, m + 1) = Counts(c, m) + IF c.types[m + 1] = ArrayOfStrings THEN 18 ELSE 1
         /\ Counts(c, Len(c.types))
              = Len(c.types) + 17 * Cardinality({k \in DOMAIN c.types : c.types[k] = ArrayOfStrings})
<1>1. Len(c.types) \in Nat /\ DOMAIN c.types = 1 .. Len(c.types)
  BY Descriptor
<1>2. ASSUME NEW m \in 0 .. Len(c.types)
      PROVE  IsFiniteSet(Arrays(c, m)) /\ Cardinality(Arrays(c, m)) \in Nat
  <2>1. Arrays(c, m) \in SUBSET (1 .. m) /\ IsFiniteSet(1 .. m)
    BY FS_Interval DEF Arrays
  <2> QED BY <2>1, FS_Subset, FS_CardinalityType
<1>3. Counts(c, 0) = 0
  <2>1. Arrays(c, 0) = {}
    BY DEF Arrays
  <2> QED BY <2>1, FS_EmptySet DEF Counts
<1>4. ASSUME NEW m \in 0 .. Len(c.types) - 1
      PROVE  Counts(c, m + 1) = Counts(c, m) + IF c.types[m + 1] = ArrayOfStrings THEN 18 ELSE 1
  <2>1. m \in 0 .. Len(c.types) /\ m \in Nat
    BY <1>1
  <2>2. CASE c.types[m + 1] = ArrayOfStrings
    <3>1. Arrays(c, m + 1) = Arrays(c, m) \cup {m + 1} /\ m + 1 \notin Arrays(c, m)
      BY <2>1, <2>2 DEF Arrays
    <3>2. Cardinality(Arrays(c, m + 1)) = Cardinality(Arrays(c, m)) + 1
      BY <1>2, <2>1, <3>1, FS_AddElement
    <3>3. Cardinality(Arrays(c, m)) \in Nat
      BY <1>2, <2>1
    <3> QED BY <2>1, <2>2, <3>2, <3>3 DEF Counts
  <2>3. CASE c.types[m + 1] # ArrayOfStrings
    <3>1. Arrays(c, m + 1) = Arrays(c, m)
      BY <2>1, <2>3 DEF Arrays
    <3>3. Cardinality(Arrays(c, m)) \in Nat
      BY <1>2, <2>1
    <3> QED BY <2>1, <2>3, <3>1, <3>3 DEF Counts
  <2> QED BY <2>2, <2>3
<1>5. Arrays(c, Len(c.types)) = {k \in DOMAIN c.types : c.types[k] = ArrayOfStrings}
  BY <1>1 DEF Arrays
<1>6. \A m \in 0 .. Len(c.types) : Counts(c, m) \in Nat
  BY <1>2 DEF Counts
<1> QED BY <1>3, <1>4, <1>5, <1>6 DEF Counts

\* The loop stands at the beginning of a type, or in the name of the class of
\* an array, whose letters it counts.
AtType(m) == /\ idx = Start(call, m) + 1 /\ num_params = Counts(call, m)
             /\ phase = "done" => m = Len(call.types)

InName(m) == /\ phase = "parameters" /\ m < Len(call.types) /\ call.types[m + 1] = ArrayOfStrings
             /\ \E p \in 3 .. 19 : idx = Start(call, m) + p /\ num_params = Counts(call, m) + p - 2

CountInv ==
    /\ phase \in {"parameters", "done"} /\ result \in Int
    /\ max_len = 0 /\ all_string = <<>> /\ new_str = <<>> /\ input = <<>>
    /\ \E m \in 0 .. Len(call.types) : AtType(m) \/ InName(m)

InCount == call \in Calls /\ call.op = "parameters" /\ CountInv

LEMMA CountInit ==
  ASSUME Init, call.op = "parameters"
  PROVE  CountInv
<1>1. /\ call \in Calls /\ phase = "parameters" /\ idx = 1 /\ input = <<>>
      /\ result \in Int /\ num_params = 0 /\ max_len = 0 /\ all_string = <<>> /\ new_str = <<>>
  BY StringsAssumption DEF Init
<1>2. Start(call, 0) = 0 /\ Counts(call, 0) = 0 /\ Len(call.types) \in Nat
  BY <1>1, Descriptor, CountsGrow
<1>3. AtType(0) /\ 0 \in 0 .. Len(call.types)
  BY <1>1, <1>2 DEF AtType
<1> QED BY <1>1, <1>3 DEF CountInv

\* First is the first place: of the end of a class, and behind the dimensions.
LEMMA ClassEnd ==
  ASSUME NEW i \in Nat, NEW j \in i .. Len(call.descriptor) - 1, letter(j) = ";",
         \A k \in i .. j - 1 : letter(k) # ";", Len(call.descriptor) \in Nat
  PROVE  First(i, LAMBDA c : c = ";") = j
<1> DEFINE n == Len(call.descriptor) - 1
           Is(h) == letter(h) = ";" /\ \A k \in i .. h - 1 : ~(letter(k) = ";")
           first == CHOOSE h \in i .. n : Is(h)
<1>1. First(i, LAMBDA c : c = ";") = first
  BY Zenon DEF First
<1>2. Is(j) /\ j \in i .. n
  BY Zenon
<1>3. first \in i .. n /\ Is(first)
  <2> HIDE DEF Is, n
  <2> QED BY <1>2
<1> HIDE DEF first
<1>4. PICK T : T = {h \in i .. n : letter(h) = ";"}
  BY Zenon
<1>5. PICK e : e = n
  BY Zenon
<1>6. /\ first \in T /\ (\A k \in i .. first - 1 : k \notin T) /\ first \in i .. e
      /\ j \in T /\ (\A k \in i .. j - 1 : k \notin T) /\ j \in i .. e
  BY <1>2, <1>3, <1>4, <1>5, Zenon
<1>7. i \in Nat /\ e \in Int
  <2>1. PICK d : d = Len(call.descriptor)
    BY Zenon
  <2>2. d \in Nat /\ e = d - 1
    BY <1>5, <2>1, Zenon
  <2> QED BY ONLY <2>2, i \in Nat
<1>8. first = j
  <2>1. first \in Int /\ j \in Int /\ (first < j => first \in i .. j - 1) /\ (j < first => j \in i .. first - 1)
    BY ONLY <1>6, <1>7
  <2> QED BY ONLY <1>6, <2>1
<1> QED BY <1>1, <1>8, Zenon

LEMMA DimensionsEnd ==
  ASSUME NEW i \in Nat, NEW j \in i .. Len(call.descriptor) - 1, letter(j) # "[",
         \A k \in i .. j - 1 : letter(k) = "[", Len(call.descriptor) \in Nat
  PROVE  First(i, LAMBDA c : c # "[") = j
<1> DEFINE n == Len(call.descriptor) - 1
           Is(h) == letter(h) # "[" /\ \A k \in i .. h - 1 : ~(letter(k) # "[")
           first == CHOOSE h \in i .. n : Is(h)
<1>1. First(i, LAMBDA c : c # "[") = first
  BY Zenon DEF First
<1>2. Is(j) /\ j \in i .. n
  OBVIOUS
<1>3. first \in i .. n /\ Is(first)
  <2> HIDE DEF Is, n
  <2> QED BY <1>2
<1> HIDE DEF first
<1>4. ~(first < j) /\ ~(j < first)
  BY <1>2, <1>3
<1>5. first = j
  BY <1>2, <1>3, <1>4
<1> QED BY <1>1, <1>5

LEMMA TypeLetters ==
  ASSUME InCount, NEW m \in 0 .. Len(call.types) - 1
  PROVE  LET t == call.types[m + 1]
             b == Start(call, m)
         IN  /\ b \in Nat /\ t \in Seq(STRING) /\ Len(t) \in Nat
             /\ b + Len(t) < Len(call.descriptor) /\ Len(call.descriptor) \in Nat
             /\ \A j \in 1 .. Len(t) : letter(b + j) = t[j]
             /\ Start(call, m + 1) = b + Len(t)
             /\ IsType(t) \/ t = ArrayOfStrings
<1>1. PICK t, b, n : t = call.types[m + 1] /\ b = Start(call, m) /\ n = Len(call.types)
  OBVIOUS
<1>2. n \in Nat /\ DOMAIN call.types = 1 .. n
  BY <1>1, Descriptor DEF InCount
<1>3. m \in 0 .. n /\ m + 1 \in 0 .. n /\ m + 1 \in 1 .. n
  BY <1>1, <1>2
<1>4. /\ b \in Nat /\ Start(call, m + 1) \in Nat /\ Start(call, m + 1) <= Start(call, n)
      /\ Start(call, n) \in Nat /\ Len(call.descriptor) = Start(call, n) + 2
  <2>1. n \in 0 .. n
    BY <1>2
  <2> QED BY <1>1, <1>3, <2>1, Descriptor DEF InCount
<1>5. /\ Start(call, m + 1) = b + Len(t) /\ t \in Seq(STRING)
      /\ \A j \in 1 .. Len(t) : call.descriptor[b + j + 1] = t[j]
  BY <1>1, Letters DEF InCount
<1>6. \A j \in 1 .. Len(t) : letter(b + j) = t[j]
  BY <1>5 DEF letter
<1>7. IsType(t) \/ t = ArrayOfStrings
  BY <1>1, <1>2, <1>3, DescriptorAssumption DEF InCount
<1>8. Len(t) \in Nat
  BY <1>5
<1>9. b + Len(t) < Len(call.descriptor) /\ Len(call.descriptor) \in Nat
  BY <1>4, <1>5
<1> QED BY <1>1, <1>4, <1>5, <1>6, <1>7, <1>8, <1>9

\* A number, a class or an array of numbers is passed over as one parameter.
LEMMA OneParameter ==
  ASSUME InCount, NEW m \in 0 .. Len(call.types) - 1, idx = Start(call, m) + 1,
         IsType(call.types[m + 1])
  PROVE  letter(idx) # ")" /\ after_dimensions(after_class(idx)) = Start(call, m + 1)
<1>1. PICK t, b, q, d : /\ t = call.types[m + 1] /\ b = Start(call, m) /\ q = Len(t)
                        /\ d = Len(call.descriptor)
  OBVIOUS
<1>2. /\ b \in Nat /\ q \in Nat /\ d \in Nat /\ b + q < d /\ Start(call, m + 1) = b + q
      /\ \A j \in 1 .. q : letter(b + j) = t[j]
  BY <1>1, TypeLetters
<1>3. idx = b + 1 /\ idx \in Nat
  BY <1>1, <1>2
<1>4. CASE /\ q >= 1 /\ t[q] \in BaseTypes
           /\ \A j \in 1 .. q - 1 : t[j] = "["
  <2>1. \A x \in BaseTypes : x # "L" /\ x # "[" /\ x # ")"
    BY DEF BaseTypes
  <2>2. letter(b + q) = t[q] /\ letter(b + q) # "L" /\ letter(b + q) # "[" /\ letter(b + q) # ")"
    <3>1. q \in 1 .. q
      BY <1>2, <1>4
    <3> QED BY <1>2, <1>4, <2>1, <3>1
  <2>3. CASE q = 1
    <3>1. letter(idx) # "L" /\ letter(idx) # "[" /\ letter(idx) # ")"
      BY <1>3, <2>2, <2>3
    <3>2. after_class(idx) = idx
      BY <3>1 DEF after_class
    <3>3. after_dimensions(idx) = idx
      BY <3>1 DEF after_dimensions
    <3> QED BY <1>2, <1>3, <2>3, <3>1, <3>2, <3>3
  <2>4. CASE q # 1
    <3>1. \A k \in idx .. (b + q) - 1 : letter(k) = "["
      <4>1. ASSUME NEW k \in idx .. (b + q) - 1
            PROVE  letter(k) = "["
        <5>1. PICK j : j = k - b
          OBVIOUS
        <5>2. j \in 1 .. q /\ j \in 1 .. q - 1 /\ b + j = k
          BY <1>2, <1>3, <5>1
        <5> QED BY <1>2, <1>4, <5>2
      <4> QED BY <4>1
    <3>2. letter(idx) = "["
      <4>1. idx \in idx .. (b + q) - 1
        BY <1>2, <1>3, <1>4, <2>4
      <4> QED BY <3>1, <4>1
    <3>3. letter(idx) # "L" /\ letter(idx) # ")"
      BY <3>2
    <3>4. after_class(idx) = idx
      BY <3>3 DEF after_class
    <3>5. b + q \in idx .. Len(call.descriptor) - 1 /\ Len(call.descriptor) \in Nat
      <4>1. /\ b \in Nat /\ q \in Nat /\ d \in Nat /\ b + q < d
            /\ idx = b + 1 /\ q >= 1 /\ d = Len(call.descriptor)
        BY <1>1, <1>2, <1>3, <1>4
      <4> QED BY ONLY <4>1
    <3>6. First(idx, LAMBDA c : c # "[") = b + q
      BY <1>3, <2>2, <3>1, <3>5, DimensionsEnd
    <3>7. after_dimensions(idx) = b + q
      BY <2>2, <3>2, <3>6 DEF after_dimensions
    <3> QED BY <1>2, <3>3, <3>4, <3>7
  <2> QED BY <2>3, <2>4
<1>5. CASE /\ q >= 2 /\ t[1] = "L" /\ t[q] = ";"
           /\ \A j \in 2 .. q - 1 : t[j] # ";"
  <2>0. q >= 2
    BY <1>5, Zenon
  <2>1. PICK e : e = ";"
    OBVIOUS
  <2>2. e # "[" /\ "L" # e /\ "L" # ")"
    BY <2>1
  <2>3. t[q] = e /\ \A j \in 2 .. q - 1 : t[j] # e
    BY <1>5, <2>1, Zenon
  <2>4. letter(idx) = "L" /\ letter(b + q) = e
    <3>1. 1 \in 1 .. q /\ q \in 1 .. q
      BY <1>2, <2>0
    <3> QED BY <1>2, <1>3, <1>5, <2>3, <3>1
  <2>5. \A k \in idx .. (b + q) - 1 : letter(k) # e
    <3>1. ASSUME NEW k \in idx .. (b + q) - 1
          PROVE  letter(k) # e
      <4>1. PICK j : j = k - b
        OBVIOUS
      <4>2. j \in 1 .. q /\ (j = 1 \/ j \in 2 .. q - 1) /\ b + j = k
        BY <1>2, <1>3, <4>1
      <4>3. letter(k) = t[j]
        BY <1>2, <4>2
      <4> QED BY <1>3, <2>2, <2>3, <2>4, <4>2, <4>3
    <3> QED BY <3>1
  <2>6. b + q \in idx .. Len(call.descriptor) - 1 /\ Len(call.descriptor) \in Nat
    BY <1>1, <1>2, <1>3, <2>0
  <2>7. First(idx, LAMBDA c : c = ";") = b + q
    <3>1. letter(b + q) = ";" /\ \A k \in idx .. (b + q) - 1 : letter(k) # ";"
      BY <2>1, <2>4, <2>5, Zenon
    <3> QED BY <1>3, <2>6, <3>1, ClassEnd, Zenon
  <2>8. after_class(idx) = b + q
    BY <2>4, <2>7, Zenon DEF after_class
  <2>9. after_dimensions(b + q) = b + q
    BY <2>2, <2>4, Zenon DEF after_dimensions
  <2> QED BY <1>2, <2>2, <2>4, <2>8, <2>9
<1>6. IsType(t)
  BY <1>1
<1> QED BY <1>1, <1>4, <1>5, <1>6, Zenon DEF IsType

LEMMA NotBoth == ~IsType(ArrayOfStrings)
<1> SUFFICES ASSUME IsType(ArrayOfStrings) PROVE FALSE
  OBVIOUS
<1>1. /\ Len(ArrayOfStrings) = 19 /\ ArrayOfStrings[1] = "[" /\ ArrayOfStrings[2] = "L"
  BY ArrayOfStringsLetters
<1>2. ArrayOfStrings[1] # "L"
  BY <1>1
<1>3. \A j \in 1 .. Len(ArrayOfStrings) - 1 : ArrayOfStrings[j] = "["
  BY <1>2, Zenon DEF IsType
<1>4. 2 \in 1 .. 19 - 1
  OBVIOUS
<1>5. ArrayOfStrings[2] = "["
  BY <1>1, <1>3, <1>4
<1> QED BY <1>1, <1>5

LEMMA CountParameter ==
  ASSUME InCount, count_parameter
  PROVE  CountInv'
<1>1. /\ phase = "parameters" /\ letter(idx) # ")" /\ num_params' = num_params + 1
      /\ idx' = after_dimensions(after_class(idx)) + 1
      /\ UNCHANGED <<call, phase, all_string, max_len, new_str, result, input>>
  BY DEF count_parameter
<1>2. /\ result \in Int /\ max_len = 0 /\ all_string = <<>> /\ new_str = <<>> /\ input = <<>>
  BY DEF InCount, CountInv
<1>3. PICK m \in 0 .. Len(call.types) : AtType(m) \/ InName(m)
  BY DEF InCount, CountInv
<1>4. PICK n : n = Len(call.types)
  OBVIOUS
<1>5. n \in Nat /\ m \in 0 .. n
  BY <1>3, <1>4, Descriptor DEF InCount
<1>6. m # n
  <2>1. ASSUME m = n
        PROVE  FALSE
    <3>1. idx = Start(call, n) + 1
      BY <1>3, <1>4, <1>5, <2>1 DEF AtType, InName
    <3>2. call.descriptor[Start(call, n) + 2] = ")" /\ Start(call, n) \in Nat
      <4>1. n \in 0 .. n
        BY <1>5
      <4> QED BY <1>4, <4>1, Descriptor DEF InCount
    <3>3. idx + 1 = Start(call, n) + 2
      BY <3>1, <3>2
    <3> QED BY <1>1, <3>2, <3>3 DEF letter
  <2> QED BY <2>1
<1>7. m \in 0 .. Len(call.types) - 1 /\ m + 1 \in 0 .. Len(call.types)
  BY <1>4, <1>5, <1>6
<1>8. PICK t, b : t = call.types[m + 1] /\ b = Start(call, m)
  OBVIOUS
<1>9. /\ b \in Nat /\ Len(t) \in Nat /\ Start(call, m + 1) = b + Len(t)
      /\ b + Len(t) < Len(call.descriptor) /\ Len(call.descriptor) \in Nat
      /\ \A j \in 1 .. Len(t) : letter(b + j) = t[j]
      /\ IsType(t) \/ t = ArrayOfStrings
  BY <1>7, <1>8, TypeLetters
<1>10. /\ Counts(call, m) \in Nat
       /\ Counts(call, m + 1) = Counts(call, m) + IF t = ArrayOfStrings THEN 18 ELSE 1
  BY <1>3, <1>7, <1>8, CountsGrow DEF InCount
<1>11. /\ Start(call, m)' = b /\ Start(call, m + 1)' = Start(call, m + 1)
       /\ Counts(call, m)' = Counts(call, m) /\ Counts(call, m + 1)' = Counts(call, m + 1)
       /\ call'.types[m + 1] = t /\ Len(call'.types) = n
  BY <1>1, <1>4, <1>8 DEF Start, Counts, Arrays
<1>12. CASE AtType(m) /\ IsType(t)
  <2>1. t # ArrayOfStrings
    BY <1>12, NotBoth
  <2>2. idx' = Start(call, m + 1) + 1
    BY <1>1, <1>7, <1>8, <1>12, OneParameter DEF AtType
  <2>3. num_params' = Counts(call, m + 1)
    BY <1>1, <1>10, <1>12, <2>1 DEF AtType
  <2>4. AtType(m + 1)'
    BY <1>1, <1>11, <2>2, <2>3 DEF AtType
  <2> QED BY <1>1, <1>2, <1>7, <2>4 DEF CountInv
<1>13. CASE AtType(m) /\ t = ArrayOfStrings
  <2>1. idx = b + 1 /\ num_params = Counts(call, m) /\ idx \in Nat
    BY <1>8, <1>9, <1>13 DEF AtType
  <2>2. Len(t) = 19 /\ t[1] = "[" /\ t[2] = "L"
    BY <1>13, ArrayOfStringsLetters
  <2>3. letter(b + 1) = "[" /\ letter(b + 2) = "L"
    <3>1. 1 \in 1 .. Len(t) /\ 2 \in 1 .. Len(t)
      BY <2>2
    <3> QED BY <1>9, <2>2, <3>1
  <2>4. after_class(idx) = idx
    <3>1. letter(idx) # "L"
      BY <2>1, <2>3
    <3> QED BY <3>1 DEF after_class
  <2>5. First(idx, LAMBDA c : c # "[") = b + 2
    <3>1. letter(b + 2) # "["
      BY <2>3
    <3>2. b + 2 \in idx .. Len(call.descriptor) - 1
      <4>1. PICK d : d = Len(call.descriptor)
        OBVIOUS
      <4>2. b + 19 < d /\ d \in Nat /\ b \in Nat /\ idx = b + 1
        BY <1>9, <2>1, <2>2, <4>1
      <4>3. b + 2 \in idx .. d - 1
        BY <4>2
      <4> QED BY <4>1, <4>3
    <3>3. \A k \in idx .. (b + 2) - 1 : k = b + 1
      BY <1>9, <2>1
    <3>4. \A k \in idx .. (b + 2) - 1 : letter(k) = "["
      BY <2>3, <3>3
    <3> QED BY <1>9, <2>1, <3>1, <3>2, <3>4, DimensionsEnd
  <2>6. after_dimensions(idx) = b + 2
    <3>1. letter(idx) = "[" /\ letter(b + 2) # ")"
      BY <2>1, <2>3
    <3> QED BY <2>5, <3>1 DEF after_dimensions
  <2>7. idx' = b + 3 /\ num_params' = Counts(call, m) + 3 - 2
    BY <1>1, <1>9, <1>10, <2>1, <2>4, <2>6
  <2>8. InName(m)'
    <3>1. 3 \in 3 .. 19 /\ m < n
      BY <1>4, <1>5, <1>6
    <3> QED BY <1>1, <1>11, <1>13, <2>7, <3>1 DEF InName
  <2> QED BY <1>1, <1>2, <1>3, <2>8 DEF CountInv
<1>14. CASE InName(m)
  <2>1. PICK p \in 3 .. 19 : idx = b + p /\ num_params = Counts(call, m) + p - 2
    BY <1>8, <1>14 DEF InName
  <2>2. t = ArrayOfStrings
    BY <1>8, <1>14 DEF InName
  <2>3. Len(t) = 19 /\ t[p] \notin {"L", "[", ")"}
    BY <2>2, ArrayOfStringsLetters
  <2>4. letter(idx) = t[p]
    <3>1. p \in 1 .. Len(t)
      BY <2>3
    <3> QED BY <1>9, <2>1, <3>1
  <2>5. after_class(idx) = idx /\ after_dimensions(idx) = idx
    BY <2>3, <2>4 DEF after_class, after_dimensions
  <2>6. idx' = b + (p + 1) /\ num_params' = Counts(call, m) + (p + 1) - 2
    BY <1>1, <1>9, <1>10, <2>1, <2>5
  <2>7. CASE p = 19
    <3>1. idx' = Start(call, m + 1) + 1 /\ num_params' = Counts(call, m + 1)
      BY <1>9, <1>10, <2>2, <2>3, <2>6, <2>7
    <3>2. AtType(m + 1)'
      BY <1>1, <1>11, <3>1 DEF AtType
    <3> QED BY <1>1, <1>2, <1>7, <3>2 DEF CountInv
  <2>8. CASE p # 19
    <3>1. p + 1 \in 3 .. 19 /\ m < n
      BY <1>4, <1>5, <1>6, <2>8
    <3>2. InName(m)'
      BY <1>1, <1>11, <2>2, <2>6, <3>1 DEF InName
    <3> QED BY <1>1, <1>2, <1>3, <3>2 DEF CountInv
  <2> QED BY <2>7, <2>8
<1> QED BY <1>3, <1>9, <1>12, <1>13, <1>14

LEMMA ParametersEnd ==
  ASSUME InCount, parameters_counted
  PROVE  CountInv'
<1>1. /\ phase = "parameters" /\ letter(idx) = ")" /\ phase' = "done"
      /\ UNCHANGED <<call, idx, num_params, all_string, max_len, new_str, result, input>>
  BY DEF parameters_counted
<1>2. /\ result \in Int /\ max_len = 0 /\ all_string = <<>> /\ new_str = <<>> /\ input = <<>>
  BY DEF InCount, CountInv
<1>3. PICK m \in 0 .. Len(call.types) : AtType(m) \/ InName(m)
  BY DEF InCount, CountInv
<1>4. PICK n : n = Len(call.types)
  OBVIOUS
<1>5. n \in Nat /\ m \in 0 .. n
  BY <1>3, <1>4, Descriptor DEF InCount
<1>6. ASSUME m # n
      PROVE  FALSE
  <2>1. m \in 0 .. Len(call.types) - 1
    BY <1>4, <1>5, <1>6
  <2>2. PICK t, b : t = call.types[m + 1] /\ b = Start(call, m)
    OBVIOUS
  <2>3. /\ b \in Nat /\ \A j \in 1 .. Len(t) : letter(b + j) = t[j]
        /\ IsType(t) \/ t = ArrayOfStrings
    BY <2>1, <2>2, TypeLetters
  <2>4. CASE AtType(m) /\ IsType(t)
    BY <1>1, <2>1, <2>2, <2>4, OneParameter DEF AtType
  <2>5. CASE AtType(m) /\ t = ArrayOfStrings
    <3>1. Len(t) = 19 /\ t[1] = "["
      BY <2>5, ArrayOfStringsLetters
    <3>2. 1 \in 1 .. Len(t) /\ idx = b + 1
      BY <2>2, <2>5, <3>1 DEF AtType
    <3>3. letter(idx) = "["
      BY <2>3, <3>1, <3>2
    <3> QED BY <1>1, <3>3
  <2>6. CASE InName(m)
    <3>1. PICK p \in 3 .. 19 : idx = b + p
      BY <2>2, <2>6 DEF InName
    <3>2. t = ArrayOfStrings
      BY <2>2, <2>6 DEF InName
    <3>3. Len(t) = 19 /\ t[p] \notin {"L", "[", ")"}
      BY <3>2, ArrayOfStringsLetters
    <3>4. p \in 1 .. Len(t)
      BY <3>3
    <3> QED BY <1>1, <2>3, <3>1, <3>3, <3>4
  <2> QED BY <1>3, <2>3, <2>4, <2>5, <2>6
<1>7. AtType(m)
  BY <1>3, <1>4, <1>5, <1>6 DEF InName
<1>8. Start(call, m)' = Start(call, m) /\ Counts(call, m)' = Counts(call, m)
  BY <1>1 DEF Start, Counts, Arrays
<1>9. AtType(m)'
  BY <1>1, <1>4, <1>6, <1>7, <1>8 DEF AtType
<1> QED BY <1>1, <1>2, <1>3, <1>9 DEF CountInv

LEMMA Count ==
  ASSUME InCount
  PROVE  ParametersCounted
<1> SUFFICES ASSUME phase = "done" PROVE ParametersCounted
  BY DEF ParametersCounted
<1>1. PICK m \in 0 .. Len(call.types) : AtType(m) \/ InName(m)
  BY DEF InCount, CountInv
<1>2. m = Len(call.types) /\ num_params = Counts(call, m)
  BY <1>1 DEF AtType, InName
<1> QED BY <1>2, CountsGrow DEF ParametersCounted, InCount

-----------------------------------------------------------------------------
\* The inductive invariant: that of the call.
StringsInv ==
    /\ call \in Calls
    /\ call.op = "concat" => ConcatInv
    /\ call.op = "compareTo" => CompareInv
    /\ call.op = "readLine" => ReadInv
    /\ call.op = "parameters" => CountInv

LEMMA OpTyped == call \in Calls => call.op \in {"concat", "compareTo", "readLine", "parameters"}
BY StringsAssumption

LEMMA StringsInit == Init => StringsInv
<1> SUFFICES ASSUME Init PROVE StringsInv
  OBVIOUS
<1>1. call \in Calls
  BY DEF Init
<1> QED BY <1>1, ConcatInit, CompareInit, ReadInit, CountInit DEF StringsInv

LEMMA ConcatStep ==
  ASSUME InConcat, Step
  PROVE  call' = call /\ ConcatInv'
<1>1. phase \notin {"compareTo", "readLine", "parameters"}
  BY DEF InConcat, ConcatInv
<1>2. concatenate
  BY <1>1 DEF Step, compareTo, readLine, end_of_input, count_parameter, parameters_counted
<1>3. call' = call
  BY <1>2 DEF concatenate, count_placeholders, pop_operand, null_operand, add_constants,
              copy_argument, copy_constant, push_result
<1>4. CASE count_placeholders
  BY <1>3, <1>4, CountPlaceholders
<1>5. CASE pop_operand
  BY <1>3, <1>5, PopOperand
<1>6. CASE null_operand
  BY <1>3, <1>6, NullOperand
<1>7. CASE add_constants
  BY <1>3, <1>7, AddConstants
<1>8. CASE copy_argument
  BY <1>3, <1>8, CopyArgument
<1>9. CASE copy_constant
  BY <1>3, <1>9, CopyConstant
<1>10. CASE push_result
  BY <1>3, <1>10, PushResult
<1> QED BY <1>2, <1>3, <1>4, <1>5, <1>6, <1>7, <1>8, <1>9, <1>10 DEF concatenate

LEMMA OtherStep ==
  ASSUME phase \notin {"concat", "operands", "constants", "copy"}, Step
  PROVE  call' = call /\ (compareTo \/ readLine \/ end_of_input \/ count_parameter \/ parameters_counted)
<1>1. compareTo \/ readLine \/ end_of_input \/ count_parameter \/ parameters_counted
  BY DEF Step, concatenate, count_placeholders, pop_operand, null_operand, add_constants,
         copy_argument, copy_constant, push_result
<1>2. call' = call
  BY <1>1 DEF compareTo, readLine, end_of_input, count_parameter, parameters_counted
<1> QED BY <1>1, <1>2

LEMMA StringsStep ==
  ASSUME StringsInv, Step
  PROVE  StringsInv'
<1>1. call \in Calls
  BY DEF StringsInv
<1>2. CASE call.op = "concat"
  <2>1. InConcat
    BY <1>2 DEF StringsInv, InConcat
  <2>2. call' = call /\ ConcatInv'
    BY <2>1, ConcatStep
  <2> QED BY <1>1, <1>2, <2>2 DEF StringsInv
<1>3. CASE call.op = "compareTo"
  <2>1. InCompare
    BY <1>3 DEF StringsInv, InCompare
  <2>2. phase \in {"compareTo", "done"}
    BY <2>1 DEF InCompare, CompareInv
  <2>3. call' = call /\ compareTo
    BY <2>2, OtherStep DEF readLine, end_of_input, count_parameter, parameters_counted
  <2>4. CompareInv'
    BY <2>1, <2>3, CompareStep
  <2> QED BY <1>1, <1>3, <2>3, <2>4 DEF StringsInv
<1>4. CASE call.op = "readLine"
  <2>1. InRead
    BY <1>4 DEF StringsInv, InRead
  <2>2. phase \in {"readLine", "abort", "undefined"}
    BY <2>1 DEF InRead, ReadInv
  <2>3. call' = call /\ (readLine \/ end_of_input)
    BY <2>2, OtherStep DEF compareTo, count_parameter, parameters_counted
  <2>4. ReadInv'
    BY <2>1, <2>3, ReadLine, EndOfInput
  <2> QED BY <1>1, <1>4, <2>3, <2>4 DEF StringsInv
<1>5. CASE call.op = "parameters"
  <2>1. InCount
    BY <1>5 DEF StringsInv, InCount
  <2>2. phase \in {"parameters", "done"}
    BY <2>1 DEF InCount, CountInv
  <2>3. call' = call /\ (count_parameter \/ parameters_counted)
    BY <2>2, OtherStep DEF compareTo, readLine, end_of_input
  <2>4. CountInv'
    BY <2>1, <2>3, CountParameter, ParametersEnd
  <2> QED BY <1>1, <1>5, <2>3, <2>4 DEF StringsInv
<1> QED BY <1>1, <1>2, <1>3, <1>4, <1>5, OpTyped

LEMMA StringsStutter ==
  ASSUME StringsInv, UNCHANGED vars
  PROVE  StringsInv'
<1>1. UNCHANGED <<call, phase, idx, op_stack, all_string, num_params, max_len, new_str, result, input, lines>>
  BY DEF vars
<1>2. ConcatInv' = ConcatInv
  BY <1>1 DEF ConcatInv, Popped, Owned, Built, Taken
<1>3. CompareInv' = CompareInv
  BY <1>1 DEF CompareInv, Shorter
<1>4. ReadInv' = ReadInv
  BY <1>1 DEF ReadInv, OneWords, Consumed, Behind
<1>5. CountInv' = CountInv
  BY <1>1 DEF CountInv, AtType, InName, Start, Counts, Arrays
<1> QED BY <1>1, <1>2, <1>3, <1>4, <1>5 DEF StringsInv

LEMMA StringsInductive == Spec => []StringsInv
<1>1. StringsInv /\ [Step \/ ended]_vars => StringsInv'
  BY StringsStep, StringsStutter DEF ended
<1> QED BY <1>1, StringsInit, PTL DEF Spec

\* What a call's invariant says of the variables.
LEMMA Typed ==
  ASSUME StringsInv
  PROVE  TypeOK
<1>1. SUFFICES ASSUME /\ phase \in {"concat", "operands", "constants", "copy", "compareTo", "readLine", "parameters"}
                                  \cup Ended
                      /\ idx \in Nat /\ num_params \in Nat /\ max_len \in Nat /\ result \in Int
                      /\ Len(all_string) <= num_params \/ phase \in {"copy"} \cup Ended
                      /\ new_str \in Seq(Byte) /\ input \in Seq(Byte)
               PROVE  TypeOK
  <2>1. <<>> \in Seq(Byte) /\ Len(<<>>) = 0
    OBVIOUS
  <2>2. CASE call.op = "concat"
    <3>1. ConcatInv
      BY <2>2 DEF StringsInv
    <3>2. Len(all_string) <= num_params \/ phase \in {"copy"} \cup Ended
      <4>1. Owned \in Nat /\ Popped = Len(all_string) /\ Popped \in Nat
        <5>1. Owned \in Nat
          BY <2>2, ConcatCall DEF Owned, StringsInv
        <5> QED BY <3>1, <5>1 DEF ConcatInv, Popped
      <4> QED BY <3>1, <4>1 DEF ConcatInv, Ended
    <3> QED BY <3>1, <3>2, <2>1, <1>1 DEF ConcatInv, Ended
  <2>3. CASE call.op = "compareTo"
    <3>1. InCompare
      BY <2>3 DEF StringsInv, InCompare
    <3>2. Shorter \in Nat
      BY <3>1, ShorterTyped
    <3> QED BY <3>1, <3>2, <2>1, <1>1 DEF InCompare, CompareInv, Ended
  <2>4. CASE call.op = "readLine"
    BY <2>4, <2>1, <1>1 DEF StringsInv, ReadInv, Ended
  <2>5. CASE call.op = "parameters"
    <3>1. InCount
      BY <2>5 DEF StringsInv, InCount
    <3>2. PICK m \in 0 .. Len(call.types) : AtType(m) \/ InName(m)
      BY <3>1 DEF InCount, CountInv
    <3>3. Start(call, m) \in Nat /\ Counts(call, m) \in Nat
      BY <3>1, <3>2, Descriptor, CountsGrow DEF InCount
    <3>4. idx \in Nat /\ num_params \in Nat
      <4>1. CASE AtType(m)
        BY <3>3, <4>1 DEF AtType
      <4>2. CASE InName(m)
        <5>1. PICK p \in 3 .. 19 : idx = Start(call, m) + p /\ num_params = Counts(call, m) + p - 2
          BY <4>2 DEF InName
        <5> QED BY <3>3, <5>1
      <4> QED BY <3>2, <4>1, <4>2
    <3> QED BY <3>1, <3>4, <2>1, <1>1 DEF InCount, CountInv, Ended
  <2>6. call \in Calls
    BY DEF StringsInv
  <2> QED BY <2>2, <2>3, <2>4, <2>5, <2>6, OpTyped
<1>2. ASSUME NEW s \in Seq(Byte)
      PROVE  \A k \in DOMAIN s : s[k] \in 1 .. 127
  <2>1. \A k \in DOMAIN s : s[k] \in Byte
    OBVIOUS
  <2> QED BY <2>1 DEF Byte
<1> QED BY <1>1, <1>2 DEF TypeOK

LEMMA Concatenated ==
  ASSUME InConcat
  PROVE  ConcatenatesLikeJava
<1>1. Java_concat = FlattenSeq(Pieces(call))
  BY Zenon DEF Java_concat, Pieces, Own, Nth
<1>2. phase # "undefined" /\ Owned = Placeholders(call.recipe)
  BY DEF InConcat, ConcatInv, Owned, Own
<1>3. Built[Len(call.recipe)] = FlattenSeq(Pieces(call))
  <2>1. PICK s : s = Pieces(call)
    OBVIOUS
  <2>2. s \in Seq(Seq(Int)) /\ Len(s) = Len(call.recipe)
    BY <2>1, ConcatCall DEF InConcat
  <2>3. Upto(Int, s)[Len(s)] = FlattenSeq(s)
    BY <2>2, Concatenations
  <2> QED BY <2>1, <2>2, <2>3 DEF Built
<1>4. phase = "done" => /\ Len(new_str) = max_len /\ new_str = Java_concat
                        /\ op_stack = Append(SubSeq(call.operands, 1, Len(call.operands) - Owned),
                                             [type |-> "REF", value |-> new_str])
  BY <1>1, <1>3 DEF InConcat, ConcatInv
<1> QED BY <1>2, <1>4 DEF ConcatenatesLikeJava

\* A call is always in one of the phases of its loop, and no counter is
\* negative, no byte zero (CStrings).
THEOREM StringsTypeOK == Spec => []TypeOK
BY StringsInductive, Typed, PTL

\* A concatenation gives the string it gives in Java (invokedynamic).
THEOREM ConcatenatesHolds == Spec => []ConcatenatesLikeJava
<1>1. StringsInv => ConcatenatesLikeJava
  BY Concatenated DEF StringsInv, InConcat, ConcatenatesLikeJava
<1> QED BY <1>1, StringsInductive, PTL

\* Two strings of which neither is the beginning of the other compare as in
\* Java, whatever an int holds that was never assigned (compareTo).
THEOREM ComparesHolds == Spec => []ComparesLikeJava
<1>1. StringsInv => ComparesLikeJava
  BY Compared DEF StringsInv, InCompare, ComparesLikeJava
<1> QED BY <1>1, StringsInductive, PTL

\* A program whose lines are words, without a byte that isspace() names, that fit
\* into the buffer reads its lines, in order, and nothing else (readLine).
THEOREM ReadsLinesHolds == Spec => []ReadsLines
<1>1. StringsInv => ReadsLines
  BY Read DEF StringsInv, InRead, ReadsLines
<1> QED BY <1>1, StringsInductive, PTL

\* The count of the parameters of a descriptor is right for numbers, classes
\* and arrays of numbers, and 18 for an array of strings
\* (get_number_of_parameters).
THEOREM ParametersCountedHolds == Spec => []ParametersCounted
<1>1. StringsInv => ParametersCounted
  BY Count DEF StringsInv, InCount, ParametersCounted
<1> QED BY <1>1, StringsInductive, PTL
=============================================================================

------------------------- MODULE ClassReadingProofs -------------------------
(***************************************************************************)
(* Proofs about get_class() and free_class_heap(): the types of what has   *)
(* been read, and that the blocks allocated on the way are freed once.     *)
(***************************************************************************)
EXTENDS ClassReading, SequenceLemmas

-----------------------------------------------------------------------------
\* s lists the elements of S, none of them twice.
Lists(s, S) ==
    /\ s \in Seq(S)
    /\ \A b \in S : \E i \in 1 .. Len(s) : s[i] = b
    /\ \A i, j \in 1 .. Len(s) : s[i] = s[j] => i = j

LEMMA ListsNothing ==
  Lists(<<>>, {})
BY DEF Lists

LEMMA ListsOne ==
  ASSUME NEW b
  PROVE  Lists(<<b>>, {b})
<1>1. <<b>> \in Seq({b}) /\ Len(<<b>>) = 1 /\ <<b>>[1] = b
  OBVIOUS
<1> QED BY <1>1 DEF Lists

LEMMA ListsBoth ==
  ASSUME NEW S, NEW T, NEW s, NEW t, Lists(s, S), Lists(t, T), S \cap T = {}
  PROVE  Lists(s \o t, S \cup T)
<1>1. s \in Seq(S \cup T) /\ t \in Seq(S \cup T)
  BY DEF Lists
<1>2. PICK u, m, n : u = s \o t /\ m = Len(s) /\ n = Len(t)
  OBVIOUS
<1>3. /\ u \in Seq(S \cup T) /\ m \in Nat /\ n \in Nat /\ Len(u) = m + n
      /\ \A k \in 1 .. m : u[k] = s[k]
      /\ \A k \in 1 .. n : u[m + k] = t[k]
  BY <1>1, <1>2, ConcatElements
<1>4. /\ \A k \in 1 .. m : s[k] \in S
      /\ \A k \in 1 .. n : t[k] \in T
  BY <1>2 DEF Lists
<1>5. \A k \in 1 .. m : u[k] = s[k] /\ u[k] \in S
  BY <1>3, <1>4
<1>6. ASSUME NEW k \in 1 .. m + n, k > m
      PROVE  k - m \in 1 .. n /\ u[k] = t[k - m] /\ u[k] \in T
  <2>1. k - m \in 1 .. n /\ m + (k - m) = k
    BY <1>3, <1>6
  <2> QED BY <1>3, <1>4, <2>1
<1>7. ASSUME NEW b \in S \cup T
      PROVE  \E i \in 1 .. m + n : u[i] = b
  <2>1. CASE b \in S
    <3>1. PICK i \in 1 .. m : s[i] = b
      BY <1>2, <2>1 DEF Lists
    <3>2. i \in 1 .. m + n
      BY <1>3
    <3> QED BY <1>3, <3>1, <3>2
  <2>2. CASE b \in T
    <3>1. PICK i \in 1 .. n : t[i] = b
      BY <1>2, <2>2 DEF Lists
    <3>2. m + i \in 1 .. m + n
      BY <1>3
    <3> QED BY <1>3, <3>1, <3>2
  <2> QED BY <2>1, <2>2
<1>8. ASSUME NEW i \in 1 .. m + n, NEW j \in 1 .. m + n, u[i] = u[j]
      PROVE  i = j
  <2>1. CASE i <= m /\ j <= m
    <3>1. i \in 1 .. m /\ j \in 1 .. m
      BY <1>3, <2>1
    <3>2. s[i] = s[j]
      BY <1>5, <1>8, <3>1
    <3> QED BY <1>2, <3>1, <3>2 DEF Lists
  <2>2. CASE i > m /\ j > m
    <3>1. i - m \in 1 .. n /\ j - m \in 1 .. n /\ t[i - m] = t[j - m]
      BY <1>6, <1>8, <2>2
    <3>2. i - m = j - m
      BY <1>2, <3>1 DEF Lists
    <3> QED BY <1>3, <3>2
  <2>3. CASE i <= m /\ j > m
    <3>1. i \in 1 .. m
      BY <1>3, <2>3
    <3>2. u[i] \in S /\ u[j] \in T
      BY <1>5, <1>6, <2>3, <3>1
    <3> QED BY <1>8, <3>2
  <2>4. CASE i > m /\ j <= m
    <3>1. j \in 1 .. m
      BY <1>3, <2>4
    <3>2. u[j] \in S /\ u[i] \in T
      BY <1>5, <1>6, <2>4, <3>1
    <3> QED BY <1>8, <3>2
  <2> QED BY <1>3, <2>1, <2>2, <2>3, <2>4
<1>9. Lists(u, S \cup T)
  BY <1>3, <1>7, <1>8 DEF Lists
<1> QED BY <1>2, <1>9

LEMMA ListsTail ==
  ASSUME NEW S, NEW s, Lists(s, S), s # <<>>
  PROVE  Head(s) \in S /\ Lists(Tail(s), S \ {Head(s)})
<1>1. s \in Seq(S) /\ Len(s) \in Nat /\ Len(s) >= 1
  BY DEF Lists
<1>2. PICK t, n, h : t = Tail(s) /\ n = Len(s) /\ h = Head(s)
  OBVIOUS
<1>3. /\ h = s[1] /\ h \in S
      /\ t \in Seq(S) /\ Len(t) = n - 1 /\ n \in Nat /\ n >= 1
      /\ \A i \in 1 .. n - 1 : t[i] = s[i + 1]
  BY <1>1, <1>2, HeadTailProperties
<1>4. /\ \A b \in S : \E i \in 1 .. n : s[i] = b
      /\ \A i, j \in 1 .. n : s[i] = s[j] => i = j
  BY <1>2 DEF Lists
<1>5. ASSUME NEW i \in 1 .. n - 1
      PROVE  t[i] \in S \ {h}
  <2>1. i + 1 \in 1 .. n /\ 1 \in 1 .. n /\ i + 1 # 1 /\ t[i] = s[i + 1]
    BY <1>3
  <2>2. t[i] \in S
    BY <1>3
  <2> QED BY <1>3, <1>4, <2>1, <2>2
<1>6. t \in Seq(S \ {h})
  BY <1>3, <1>5
<1>7. ASSUME NEW b \in S \ {h}
      PROVE  \E i \in 1 .. n - 1 : t[i] = b
  <2>1. PICK i \in 1 .. n : s[i] = b
    BY <1>4
  <2>2. i # 1
    BY <1>3, <2>1
  <2>3. i - 1 \in 1 .. n - 1 /\ (i - 1) + 1 = i
    BY <1>3, <2>2
  <2> QED BY <1>3, <2>1, <2>3
<1>8. ASSUME NEW i \in 1 .. n - 1, NEW j \in 1 .. n - 1, t[i] = t[j]
      PROVE  i = j
  <2>1. i + 1 \in 1 .. n /\ j + 1 \in 1 .. n /\ s[i + 1] = s[j + 1]
    BY <1>3, <1>8
  <2>2. i + 1 = j + 1
    BY <1>4, <2>1
  <2> QED BY <1>3, <2>2
<1>9. Lists(t, S \ {h})
  BY <1>3, <1>6, <1>7, <1>8 DEF Lists
<1> QED BY <1>2, <1>3, <1>9

\* The blocks of a kind.
BlocksOf(kind, indices) == {<<kind, k>> : k \in indices}

Freed(times) == {k \in 1 .. Len(times) : times[k] = 1}

\* A loop that frees each block once or never lists those it frees.
LEMMA ListsFrees ==
  ASSUME NEW kind, NEW times \in Seq({0, 1})
  PROVE  Lists(Frees(kind, times), BlocksOf(kind, Freed(times)))
<1>1. PICK n : n = Len(times)
  OBVIOUS
<1> DEFINE Turn_(k) == [i \in 1 .. times[k] |-> <<kind, k>>]
           s == [k \in 1 .. n |-> Turn_(k)]
           Upto_(k) == BlocksOf(kind, {j \in 1 .. k : times[j] = 1})
           B == {kind} \X Nat
<1>2. n \in Nat /\ DOMAIN times = 1 .. n /\ \A k \in 1 .. n : times[k] \in {0, 1}
  BY <1>1
<1>3. ASSUME NEW k \in 1 .. n
      PROVE  /\ s[k] = Turn_(k) /\ Turn_(k) \in Seq(B)
             /\ times[k] = 0 => Turn_(k) = <<>>
             /\ times[k] = 1 => Turn_(k) = <<<<kind, k>>>>
  <2>1. CASE times[k] = 0
    <3>1. 1 .. times[k] = {}
      BY <2>1
    <3>2. Turn_(k) = <<>>
      BY <3>1
    <3>3. <<>> \in Seq(B)
      OBVIOUS
    <3> HIDE DEF Turn_, B
    <3> QED BY <2>1, <3>2, <3>3
  <2>2. CASE times[k] = 1
    <3>1. 1 .. times[k] = {1}
      BY <2>2
    <3>2. Turn_(k) = <<<<kind, k>>>>
      BY <3>1
    <3>3. <<kind, k>> \in B
      BY <1>2
    <3>4. <<<<kind, k>>>> \in Seq(B)
      <4> HIDE DEF B
      <4> QED BY <3>3
    <3> HIDE DEF Turn_, B
    <3> QED BY <2>2, <3>2, <3>4
  <2> QED BY <1>2, <2>1, <2>2
<1>4. Frees(kind, times) = FlattenSeq(s)
  BY <1>2 DEF Frees
<1> HIDE DEF Turn_
<1>5. s \in Seq(Seq(B)) /\ Len(s) = n
  <2>1. \A k \in 1 .. n : Turn_(k) \in Seq(B)
    BY <1>3
  <2> HIDE DEF B
  <2> QED BY <1>2, <2>1
<1>6. \A k \in 1 .. n : /\ times[k] = 0 => s[k] = <<>>
                        /\ times[k] = 1 => s[k] = <<<<kind, k>>>>
  BY <1>3
<1> HIDE DEF s, B
<1>7. PICK g \in [0 .. n -> Seq(B)] : PrefixElements(g, s)
  BY <1>5, Flattened
<1> DEFINE T == {k \in Nat : k <= n => Lists(g[k], Upto_(k))}
<1>8. 0 \in T
  <2>1. g[0] = <<>> /\ Upto_(0) = {}
    BY <1>7 DEF PrefixElements, BlocksOf
  <2> QED BY <2>1, ListsNothing
<1>9. ASSUME NEW k \in T
      PROVE  k + 1 \in T
  <2>1. ASSUME k + 1 <= n
        PROVE  Lists(g[k + 1], Upto_(k + 1))
    <3>1. PICK p : p = k + 1
      OBVIOUS
    <3>2. /\ k \in Nat /\ p \in 1 .. n /\ p - 1 = k /\ k \in 0 .. n
          /\ Lists(g[k], Upto_(k))
      BY <1>2, <2>1, <3>1
    <3>3. g[p] = g[k] \o s[p] /\ g[k] \in Seq(B)
      BY <1>5, <1>7, <3>2 DEF PrefixElements
    <3>4. CASE times[p] = 0
      <4>1. g[p] = g[k] \o <<>>
        BY <1>6, <3>2, <3>3, <3>4
      <4>2. g[p] = g[k]
        BY <3>3, <4>1
      <4>3. Upto_(p) = Upto_(k)
        <5>1. {j \in 1 .. p : times[j] = 1} = {j \in 1 .. k : times[j] = 1}
          BY <3>1, <3>2, <3>4
        <5> QED BY <5>1
      <4> QED BY <3>1, <3>2, <4>2, <4>3
    <3>5. CASE times[p] = 1
      <4>1. g[p] = g[k] \o <<<<kind, p>>>>
        BY <1>6, <3>2, <3>3, <3>5
      <4>2. {j \in 1 .. p : times[j] = 1} = {j \in 1 .. k : times[j] = 1} \cup {p}
        BY <3>1, <3>2, <3>5
      <4>3. Upto_(p) = Upto_(k) \cup {<<kind, p>>}
        BY <4>2 DEF BlocksOf
      <4>4. Upto_(k) \cap {<<kind, p>>} = {}
        BY <3>1, <3>2 DEF BlocksOf
      <4> HIDE DEF Upto_
      <4>5. Lists(g[k] \o <<<<kind, p>>>>, Upto_(k) \cup {<<kind, p>>})
        BY <3>2, <4>4, ListsOne, ListsBoth
      <4> QED BY <3>1, <4>1, <4>3, <4>5
    <3> QED BY <1>2, <3>2, <3>4, <3>5
  <2> HIDE DEF Upto_
  <2> QED BY <2>1
<1>10. T = Nat
  <2> HIDE DEF T
  <2>1. T \in SUBSET Nat
    BY DEF T
  <2> QED BY <1>8, <1>9, <2>1, SetInduction
<1>11. Lists(g[n], Upto_(n))
  <2>1. n \in T
    <3> HIDE DEF T
    <3> QED BY <1>2, <1>10
  <2> HIDE DEF Upto_
  <2> QED BY <1>2, <2>1
<1>12. g[n] = Frees(kind, times)
  BY <1>4, <1>5, <1>7 DEF PrefixElements
<1>13. Freed(times) = {j \in 1 .. n : times[j] = 1}
  BY <1>1 DEF Freed
<1> QED BY <1>11, <1>12, <1>13

-----------------------------------------------------------------------------
\* What is read, by its types.
Info_ == Seq(Int)
Constant_ == [tag : Tags \cup JunkTags, info : Info_]
Code_Attribute == [max_stack : Nat, max_locals : Nat, code : Info_]
Field_ == [name : Info_, descriptor : Info_]
Method_ == [name : Info_, descriptor : Info_, access_flag : Nat, code : Code_Attribute \cup {NoCode}]
BootstrapMethod_ == [ref : Nat, arguments : Seq(Nat)]
Bootstrap_ == [found : BOOLEAN, methods : Seq(BootstrapMethod_)]
ClassFile_ == [access_flags : Nat, this_class : Nat, super_class : Nat, interfaces : Seq(Nat),
               fields : Seq(Field_), methods : Seq(Method_), bootstrap : Bootstrap_]

Typed ==
    /\ file \in Files
    /\ phase \in Reading \cup Ended \cup {"read", "loaded", "freeing"}
    /\ pos \in Nat /\ left \in Nat /\ attributes \in Nat /\ arguments \in Nat
    /\ count \in 0 .. Word - 1
    /\ cp \in Seq(Constant_) /\ Len(cp) <= count
    /\ clazz \in ClassFile_
    /\ live \in SUBSET Blocks
    /\ to_free \in Seq(Blocks)

\* The phases before each table is allocated.
BeforePool == {"header", "constant_pool"}
BeforeInterfaces == BeforePool \cup {"constants", "class_info", "interfaces_count"}
BeforeFields == BeforeInterfaces \cup {"interfaces", "fields_count"}
BeforeMethods == BeforeFields \cup {"fields", "field_attributes", "methods_count"}
BeforeBootstrap == BeforeMethods \cup {"methods", "method_attributes", "attributes_count",
                                       "class_attributes"}

\* The phases of a class of which nothing has been freed.
Kept == Reading \cup {"read", "loaded"}

Loops == {"interfaces", "fields", "field_attributes", "methods", "method_attributes",
          "class_attributes", "bootstrap_methods", "bootstrap_arguments"}

\* The loops have turns left, the pool is as long as its count says.
Phased ==
    /\ phase \in BeforePool => cp = <<>>
    /\ phase = "constants" => Len(cp) < count
    /\ phase \in Kept \ (BeforePool \cup {"constants"}) => Len(cp) = count
    /\ phase \in Loops => left # 0
    /\ phase \in {"field_attributes", "method_attributes"} => attributes # 0
    /\ phase = "method_attributes" => clazz.methods # <<>>
    /\ phase = "bootstrap_arguments" => arguments # 0 /\ clazz.bootstrap.methods # <<>>
    /\ phase \in BeforeBootstrap \cup {"bootstrap_count"} => ~clazz.bootstrap.found
    /\ phase \in {"bootstrap_methods", "bootstrap_arguments"} => clazz.bootstrap.found
    /\ ~clazz.bootstrap.found => clazz.bootstrap.methods = <<>>

Table(name, there) == IF there THEN {<<name, 0>>} ELSE {}

Tables(at, found) ==
    Table("pool", at \notin BeforePool) \cup Table("interfaces", at \notin BeforeInterfaces)
    \cup Table("fields", at \notin BeforeFields) \cup Table("methods", at \notin BeforeMethods)
    \cup Table("bootstrap", found \/ at = "bootstrap_count") \cup Table("bootstrap_methods", found)
    \cup Table("meta", at = "loaded") \cup Table("name", at = "loaded") \cup Table("clazz", at = "loaded")

Present == {k \in 1 .. Len(cp) : cp[k].info # NULL}
WithCode == {m \in 1 .. Len(clazz.methods) : clazz.methods[m].code # NoCode}

\* The blocks that hold the class.
Allocated ==
    Tables(phase, clazz.bootstrap.found)
    \cup BlocksOf("constant", Present) \cup BlocksOf("value", 1 .. Len(clazz.fields))
    \cup BlocksOf("code", WithCode) \cup BlocksOf("arguments", 1 .. Len(clazz.bootstrap.methods))

Held == phase \in Kept => live = Allocated /\ to_free = <<>>

\* What is to be freed is what is there.
Freeing ==
    OneArgument /\ AllListed =>
      /\ phase \in {"freeing", "freed"} => Lists(to_free, live)
      /\ phase # "freeing" => to_free = <<>>

\* The inductive invariant.
ReadingInv == Typed /\ Phased /\ Held /\ Freeing

-----------------------------------------------------------------------------
\* The numbers in a file.
LEMMA TwoDigits ==
  ASSUME NEW b \in Nat, NEW x \in 0 .. b - 1, NEW y \in 0 .. b - 1
  PROVE  x * b + y \in 0 .. b * b - 1
<1>1. PICK z \in Nat : z = b - 1 - x
  OBVIOUS
<1>2. b * b = (x + z + 1) * b
  BY <1>1
<1>3. (x + z + 1) * b = x * b + z * b + b
  OBVIOUS
<1>4. x * b \in Nat /\ z * b \in Nat
  OBVIOUS
<1> QED BY <1>2, <1>3, <1>4

LEMMA WordNat == Base \in Nat /\ Base > 20 /\ Word \in Nat /\ Word > 0 /\ Word * Word \in Nat
<1>1. Base \in Nat /\ Base > 20
  BY BaseAssumption
<1>2. Base * Base \in Nat /\ Base * Base > 0
  BY <1>1
<1>3. \A n \in Nat : n * n \in Nat
  OBVIOUS
<1> QED BY <1>1, <1>2, <1>3 DEF Word

LEMMA BytesTyped ==
  ASSUME Typed
  PROVE  bytes \in Seq(0 .. Base - 1) /\ Len(bytes) \in Nat
BY FilesAssumption DEF Typed, bytes

LEMMA Reads ==
  ASSUME Typed, NEW p \in Nat
  PROVE  /\ p + 1 <= Len(bytes) => u1(p) \in 0 .. Base - 1
         /\ p + 2 <= Len(bytes) => u2(p) \in 0 .. Word - 1
         /\ p + 4 <= Len(bytes) => u4(p) \in Nat
<1>1. bytes \in Seq(0 .. Base - 1) /\ Len(bytes) \in Nat
  BY BytesTyped
<1>2. ASSUME NEW q \in Nat, q + 1 <= Len(bytes)
      PROVE  u1(q) \in 0 .. Base - 1
  <2>1. PICK i : i = q + 1
    OBVIOUS
  <2>2. i \in 1 .. Len(bytes)
    BY <1>1, <1>2, <2>1
  <2>3. bytes[i] \in 0 .. Base - 1
    BY <1>1, <2>2, ElementOfSeq
  <2> QED BY <2>1, <2>3 DEF u1
<1>3. ASSUME NEW q \in Nat, q + 2 <= Len(bytes)
      PROVE  u2(q) \in 0 .. Word - 1
  <2>1. u1(q) \in 0 .. Base - 1 /\ u1(q + 1) \in 0 .. Base - 1
    BY <1>1, <1>2, <1>3
  <2> QED BY <2>1, TwoDigits, WordNat DEF u2, Word
<1>4. ASSUME p + 4 <= Len(bytes)
      PROVE  u4(p) \in Nat
  <2>1. PICK x, y : x = u2(p) /\ y = u2(p + 2)
    OBVIOUS
  <2>2. x \in Nat /\ y \in Nat
    BY <1>1, <1>3, <1>4, <2>1, WordNat
  <2>3. x * Word \in Nat
    BY <2>2, WordNat
  <2> QED BY <2>1, <2>2, <2>3 DEF u4
<1> QED BY <1>2, <1>3, <1>4

\* n bytes from p on.
LEMMA BytesRead ==
  ASSUME Typed, NEW p \in Nat, NEW n \in Nat, p + n <= Len(bytes)
  PROVE  Bytes(p, n) \in Info_ /\ Bytes(p, n) # NULL
<1>1. bytes \in Seq(0 .. Base - 1) /\ Len(bytes) \in Nat
  BY BytesTyped
<1>2. PICK m, k, t : m = p + 1 /\ k = p + n /\ t = Bytes(p, n)
  OBVIOUS
<1>3. ASSUME NEW i \in m .. k
      PROVE  bytes[i] \in 0 .. Base - 1
  <2>1. i \in 1 .. Len(bytes)
    BY <1>1, <1>2
  <2> QED BY <1>1, <2>1, ElementOfSeq
<1>4. t \in Seq(0 .. Base - 1)
  <2>1. m <= k + 1 /\ m \in Nat /\ k \in Nat
    BY <1>2
  <2> QED BY <1>2, <1>3, <2>1, SubSeqProperties DEF Bytes
<1>5. t # NULL
  <2>1. \A i \in 1 .. Len(t) : t[i] >= 0
    BY <1>4, WordNat
  <2>2. Len(NULL) = 2 /\ NULL[1] = -1
    BY DEF NULL
  <2> QED BY <2>1, <2>2
<1>6. t \in Info_
  BY <1>4, WordNat DEF Info_
<1> QED BY <1>2, <1>5, <1>6

\* The bytes an action has that reads one byte or more of a constant.
LEMMA ConstantRead ==
  ASSUME Typed, In("constants")
  PROVE  /\ pos + 1 <= Len(bytes) /\ pos + Needed <= Len(bytes)
         /\ Needed = ConstantLength /\ ConstantLength \in Nat
<1>1. Needed = ConstantLength
  BY Zenon DEF In, Needed
<1>2. pos + ConstantLength <= Len(bytes) /\ pos \in Nat /\ Len(bytes) \in Nat
  BY <1>1, BytesTyped DEF In, Has, Typed
<1>3. pos + 1 <= Len(bytes) /\ ConstantLength \in Nat
  <2>1. CASE ~Has(1) \/ u1(pos) \notin Tags
    <3>1. ConstantLength = 1
      BY <2>1 DEF ConstantLength, Tags
    <3> QED BY <1>2, <3>1
  <2>2. CASE pos + 1 <= Len(bytes)
    <3>1. CASE u1(pos) = Utf8
      <4>1. pos + 3 <= Len(bytes) => u2(pos + 1) \in Nat
        <5>1. pos + 1 \in Nat /\ (pos + 1) + 2 = pos + 3
          BY <1>2
        <5> QED BY <5>1, Reads, WordNat
      <4>2. ConstantLength = IF pos + 3 <= Len(bytes) THEN 3 + u2(pos + 1) ELSE 3
        BY <2>2, <3>1 DEF ConstantLength, Has, Tags
      <4> QED BY <2>2, <4>1, <4>2
    <3>2. CASE u1(pos) # Utf8 /\ u1(pos) \in Tags
      <4> DEFINE parts == Parts(u1(pos))
      <4>1. ConstantLength = 1 + parts[1] + (IF Len(parts) = 2 THEN parts[2] ELSE 0)
        BY <2>2, <3>2 DEF ConstantLength, Has
      <4>2. parts[1] \in Nat /\ (Len(parts) = 2 => parts[2] \in Nat)
        BY <3>2 DEF Parts, Tags, Utf8, Integer, Long, Class, String, FieldRef, MethodRef,
                    InterfaceMethodref, NameAndType, MethodHandle, InvokeDynamic
      <4> HIDE DEF parts
      <4> QED BY <2>2, <4>1, <4>2
    <3> QED BY <2>1, <2>2, <3>1, <3>2
  <2> QED BY <2>1, <2>2 DEF Has
<1> QED BY <1>1, <1>2, <1>3

LEMMA InfoRead ==
  ASSUME Typed, In("constants"), u1(pos) \in Tags
  PROVE  Info \in Info_ /\ Info # NULL
<1>1. /\ pos \in Nat /\ Len(bytes) \in Nat /\ pos + 1 <= Len(bytes)
      /\ pos + ConstantLength <= Len(bytes)
  BY ConstantRead, BytesTyped DEF Typed
<1>2. CASE u1(pos) = Utf8
  <2>1. Info = Bytes(pos + 3, u2(pos + 1))
    BY <1>2 DEF Info, Utf8, Integer
  <2>2. ConstantLength = IF pos + 3 <= Len(bytes) THEN 3 + u2(pos + 1) ELSE 3
    BY <1>1, <1>2 DEF ConstantLength, Has, Tags
  <2>3. pos + 3 <= Len(bytes)
    BY <1>1, <2>2
  <2>4. u2(pos + 1) \in Nat
    <3>1. pos + 1 \in Nat /\ (pos + 1) + 2 = pos + 3
      BY <1>1
    <3> QED BY <2>3, <3>1, Reads, WordNat
  <2>5. pos + 3 \in Nat /\ (pos + 3) + u2(pos + 1) <= Len(bytes)
    BY <1>1, <2>2, <2>3, <2>4
  <2> QED BY <2>1, <2>4, <2>5, BytesRead
<1>3. CASE u1(pos) = Integer
  <2>1. ConstantLength = 5
    BY <1>1, <1>3 DEF ConstantLength, Has, Parts, Tags, Utf8, Integer, Long, Class, String, FieldRef,
       MethodRef, InterfaceMethodref, NameAndType, MethodHandle, InvokeDynamic
  <2>2. u4(pos + 1) \in Nat
    <3>1. pos + 1 \in Nat /\ (pos + 1) + 4 <= Len(bytes)
      BY <1>1, <2>1
    <3> QED BY <3>1, Reads
  <2>3. AsInt32(u4(pos + 1)) \in Int
    BY <2>2, WordNat DEF AsInt32
  <2>4. Info = <<AsInt32(u4(pos + 1))>>
    BY <1>3 DEF Info, Integer, Utf8
  <2> QED BY <2>3, <2>4 DEF Info_, NULL
<1>4. CASE u1(pos) \in Tags \ {Utf8, Integer}
  <2> DEFINE parts == Parts(u1(pos))
             at(k) == pos + 1 + (IF k = 1 THEN 0 ELSE parts[1])
  <2>1. ConstantLength = 1 + parts[1] + (IF Len(parts) = 2 THEN parts[2] ELSE 0)
    BY <1>1, <1>4 DEF ConstantLength, Has
  <2>2. /\ Len(parts) \in {1, 2} /\ parts[1] \in {1, 2, 4}
        /\ Len(parts) = 2 => parts[2] \in {1, 2, 4}
    BY <1>4 DEF Parts, Tags, Utf8, Integer, Long, Class, String, FieldRef, MethodRef,
                InterfaceMethodref, NameAndType, MethodHandle, InvokeDynamic
  <2>3. Info = [k \in 1 .. Len(parts) |-> PartAt(at(k), parts[k])]
    BY <1>4 DEF Info
  <2> HIDE DEF parts
  <2>4. ASSUME NEW k \in 1 .. Len(parts)
        PROVE  PartAt(at(k), parts[k]) \in Nat
    <3>1. /\ at(k) \in Nat /\ parts[k] \in {1, 2, 4}
          /\ at(k) + parts[k] <= Len(bytes)
      <4>1. CASE k = 1
        BY <1>1, <2>1, <2>2, <4>1
      <4>2. CASE k = 2
        <5>1. Len(parts) = 2
          BY <2>2, <4>2
        <5>2. PICK first, second, offset : first = parts[1] /\ second = parts[2] /\ offset = at(2)
          OBVIOUS
        <5>3. first \in Nat /\ second \in {1, 2, 4} /\ offset = pos + 1 + first
          BY <2>2, <5>1, <5>2
        <5>4. ConstantLength = 1 + first + second
          BY <2>1, <5>1, <5>2
        <5>5. offset \in Nat /\ offset + second <= Len(bytes)
          BY ONLY <1>1, <5>3, <5>4
        <5> QED BY ONLY <4>2, <5>2, <5>3, <5>5
      <4> QED BY <2>2, <4>1, <4>2
    <3> HIDE DEF at
    <3>2. CASE parts[k] = 1
      <4>1. PartAt(at(k), parts[k]) = u1(at(k))
        BY <3>2 DEF PartAt
      <4> QED BY <3>1, <3>2, <4>1, Reads, WordNat
    <3>3. CASE parts[k] = 2
      <4>1. PartAt(at(k), parts[k]) = u2(at(k))
        BY <3>3 DEF PartAt
      <4> QED BY <3>1, <3>3, <4>1, Reads, WordNat
    <3>4. CASE parts[k] = 4
      <4>1. PartAt(at(k), parts[k]) = u4(at(k))
        BY <3>4 DEF PartAt
      <4> QED BY <3>1, <3>4, <4>1, Reads, WordNat
    <3> QED BY <3>1, <3>2, <3>3, <3>4
  <2> HIDE DEF at
  <2>5. Info \in Seq(Nat)
    BY <2>2, <2>3, <2>4
  <2>6. NULL[1] \notin Nat /\ Len(NULL) = 2
    BY DEF NULL
  <2>7. Info # NULL
    BY <2>5, <2>6
  <2> QED BY <2>5, <2>7 DEF Info_
<1> QED BY <1>2, <1>3, <1>4 DEF Tags

-----------------------------------------------------------------------------
\* What every step of get_class() has to keep.
LEMMA Kept_ ==
  ASSUME ReadingInv, phase \in Kept, phase' \in Kept, to_free' = to_free,
         Typed', Phased', live' = Allocated'
  PROVE  ReadingInv'
<1>1. to_free' = <<>>
  BY DEF ReadingInv, Held
<1>2. Held'
  BY <1>1 DEF Held
<1>3. phase' \notin {"freeing", "freed"}
  BY DEF Kept, Reading
<1>4. Freeing'
  BY <1>1, <1>3 DEF Freeing
<1> QED BY <1>2, <1>4 DEF ReadingInv

\* The last element of a table, which is still being read, and another in its place.
LEMMA LastElement ==
  ASSUME NEW S, NEW t \in Seq(S), t # <<>>
  PROVE  Len(t) \in Nat /\ Len(t) >= 1 /\ t[Len(t)] \in S
OBVIOUS

LEMMA LastReplaced ==
  ASSUME NEW S, NEW t \in Seq(S), NEW e \in S, NEW n \in Nat, n = Len(t), n >= 1
  PROVE  LET u == [t EXCEPT ![n] = e] IN u \in Seq(S) /\ Len(u) = n /\ u # <<>>
<1>1. PICK u : u = [t EXCEPT ![n] = e]
  OBVIOUS
<1>2. u \in Seq(S) /\ Len(u) = n
  BY <1>1
<1>3. u # <<>>
  BY <1>2
<1> QED BY <1>1, <1>2, <1>3

\* A step that leaves the pool alone and reads on.
LEMMA StillTyped ==
  ASSUME Typed, phase' \in Kept, pos' \in Nat, left' \in Nat, attributes' \in Nat, arguments' \in Nat,
         UNCHANGED <<file, count, cp, to_free>>, clazz' \in ClassFile_, live' \in SUBSET Blocks
  PROVE  Typed'
BY DEF Typed, Kept

LEMMA Halted ==
  ASSUME ReadingInv, phase \in Reading, NEW how \in {"abort", "error_exit", "undefined"}, Halt(how)
  PROVE  ReadingInv'
<1>1. /\ phase' = how /\ phase' \in Ended /\ phase' \notin Kept /\ phase' \notin {"freeing", "freed"}
      /\ UNCHANGED <<file, pos, left, attributes, arguments, count, cp, clazz, live, to_free>>
  BY DEF Halt, Ended, Kept, Reading
<1>2. Typed'
  <2>1. phase' \in Reading \cup Ended \cup {"read", "loaded", "freeing"}
    BY <1>1
  <2> QED BY <1>1, <2>1 DEF ReadingInv, Typed
<1>3. Phased'
  <2>1. ~clazz.bootstrap.found => clazz.bootstrap.methods = <<>>
    BY DEF ReadingInv, Phased
  <2> QED BY <1>1, <2>1 DEF Phased, BeforePool, BeforeInterfaces, BeforeFields, BeforeMethods, BeforeBootstrap,
          Kept, Loops, Ended, Reading
<1>4. to_free' = <<>>
  BY <1>1 DEF ReadingInv, Held, Kept
<1> QED BY <1>1, <1>2, <1>3, <1>4 DEF ReadingInv, Held, Freeing

LEMMA SameBlocks ==
  ASSUME Held, phase \in Kept, cp' = cp, clazz'.fields = clazz.fields,
         clazz'.methods = clazz.methods, clazz'.bootstrap = clazz.bootstrap, NEW T,
         Tables(phase', clazz.bootstrap.found) = Tables(phase, clazz.bootstrap.found) \cup T,
         live' = live \cup T
  PROVE  live' = Allocated'
<1>1. Present' = Present /\ WithCode' = WithCode
  BY DEF Present, WithCode
<1> QED BY <1>1 DEF Held, Allocated

\* A step from one phase to another that allocates nothing, or one table.
LEMMA SamePhase ==
  ASSUME Held, phase \in Kept, cp' = cp, clazz'.fields = clazz.fields,
         clazz'.methods = clazz.methods, clazz'.bootstrap = clazz.bootstrap, live' = live,
         Tables(phase', clazz.bootstrap.found) = Tables(phase, clazz.bootstrap.found)
  PROVE  live' = Allocated'
<1>1. Tables(phase', clazz.bootstrap.found) = Tables(phase, clazz.bootstrap.found) \cup {}
  OBVIOUS
<1>2. live' = live \cup {}
  OBVIOUS
<1> QED BY <1>1, <1>2, SameBlocks

LEMMA get_class_header_Keeps ==
  ASSUME ReadingInv, get_class_header
  PROVE  ReadingInv'
<1>1. /\ phase = "header" /\ phase' = "constant_pool" /\ pos' = pos + 8
      /\ UNCHANGED <<file, left, attributes, arguments, count, cp, clazz, live, to_free>>
  BY DEF get_class_header, In
<1>2. phase \in Kept /\ phase' \in Kept
  BY <1>1 DEF Kept, Reading
<1>3. Typed'
  BY <1>1, <1>2 DEF ReadingInv, Typed, Kept
<1>4. Phased'
  BY <1>1 DEF ReadingInv, Phased, BeforePool, BeforeInterfaces, BeforeFields, BeforeMethods,
              BeforeBootstrap, Kept, Loops, Reading
<1>5. Tables(phase', clazz.bootstrap.found) = Tables(phase, clazz.bootstrap.found)
  BY <1>1 DEF Tables, BeforePool, BeforeInterfaces, BeforeFields, BeforeMethods
<1>6. live' = Allocated'
  BY <1>1, <1>2, <1>5, SamePhase DEF ReadingInv
<1> QED BY <1>1, <1>2, <1>3, <1>4, <1>6, Kept_

LEMMA get_constant_pool_Keeps ==
  ASSUME ReadingInv, get_constant_pool
  PROVE  ReadingInv'
<1>1. /\ phase = "constant_pool" /\ pos' = pos + 2 /\ count' = (u2(pos) - 1) % Word
      /\ phase' = IF count' = 0 THEN "class_info" ELSE "constants"
      /\ live' = live \cup {<<"pool", 0>>}
      /\ UNCHANGED <<file, left, attributes, arguments, cp, clazz, to_free>>
  BY DEF get_constant_pool, In
<1>2. phase \in Kept /\ phase' \in Kept
  BY <1>1 DEF Kept, Reading
<1>3. count' \in 0 .. Word - 1 /\ cp = <<>> /\ Len(cp) = 0
  <2>1. u2(pos) \in Nat
    <3>1. Needed = 2
      BY <1>1 DEF Needed
    <3>2. pos \in Nat /\ pos + 2 <= Len(bytes)
      BY <3>1 DEF get_constant_pool, In, Has, ReadingInv, Typed
    <3> QED BY <3>2, Reads, WordNat DEF ReadingInv
  <2>2. (u2(pos) - 1) % Word \in 0 .. Word - 1
    BY <2>1, WordNat
  <2> QED BY <1>1, <2>2 DEF ReadingInv, Phased, BeforePool
<1>4. Typed'
  <2>1. live' \in SUBSET Blocks
    BY <1>1 DEF ReadingInv, Typed, Blocks
  <2>2. Len(cp) <= count'
    BY <1>3, WordNat
  <2> QED BY <1>1, <1>2, <1>3, <2>1, <2>2 DEF ReadingInv, Typed, Kept
<1>5. Phased'
  <2>1. count' # 0 => Len(cp) < count'
    BY <1>3, WordNat
  <2>2. ~clazz.bootstrap.found /\ clazz.bootstrap.methods = <<>>
    BY <1>1 DEF ReadingInv, Phased, BeforePool, BeforeInterfaces, BeforeFields, BeforeMethods,
                BeforeBootstrap
  <2> QED BY <1>1, <1>3, <2>1, <2>2 DEF Phased, BeforePool, BeforeInterfaces, BeforeFields,
             BeforeMethods, BeforeBootstrap, Kept, Loops, Reading
<1>6. Tables(phase', clazz.bootstrap.found) = Tables(phase, clazz.bootstrap.found) \cup {<<"pool", 0>>}
  BY <1>1 DEF Tables, Table, BeforePool, BeforeInterfaces, BeforeFields, BeforeMethods
<1>7. live' = Allocated'
  BY <1>1, <1>2, <1>6, SameBlocks DEF ReadingInv
<1> QED BY <1>1, <1>2, <1>4, <1>5, <1>7, Kept_

LEMMA PresentGrows ==
  ASSUME Typed, NEW c \in Constant_, c.info # NULL, NEW t \in Seq(Constant_),
         t = <<>> \/ (\E b \in Constant_ : b.info = NULL /\ t = <<b>>),
         cp' = cp \o (<<c>> \o t)
  PROVE  /\ cp' \in Seq(Constant_) /\ Len(cp') = Len(cp) + 1 + Len(t)
         /\ Present' = Present \cup {Len(cp) + 1}
<1>1. PICK u, v, n : u = <<c>> \o t /\ v = cp \o u /\ n = Len(cp)
  OBVIOUS
<1>2. cp \in Seq(Constant_) /\ n \in Nat
  BY <1>1 DEF Typed
<1>3. /\ u \in Seq(Constant_) /\ Len(u) = 1 + Len(t) /\ Len(t) \in {0, 1} /\ u[1] = c
      /\ \A k \in 1 .. Len(t) : u[1 + k] = t[k]
  <2>1. /\ <<c>> \in Seq(Constant_) /\ Len(<<c>>) = 1 /\ <<c>>[1] = c
        /\ Len(t) \in {0, 1}
    BY Zenon, SMT
  <2> QED BY <1>1, <2>1, ConcatElements
<1>4. \A k \in 2 .. Len(u) : u[k].info = NULL
  <2>1. ASSUME NEW k \in 2 .. Len(u)
        PROVE  u[k].info = NULL
    <3>1. k = 2 /\ Len(t) = 1
      BY <1>3
    <3>2. u[2] = t[1]
      <4>1. 1 \in 1 .. Len(t) /\ 1 + 1 = 2
        BY <3>1
      <4> QED BY <1>3, <4>1
    <3>3. t[1].info = NULL
      <4>1. t # <<>>
        <5>1. Len(<<>>) = 0
          OBVIOUS
        <5> QED BY ONLY <3>1, <5>1
      <4>2. PICK b \in Constant_ : b.info = NULL /\ t = <<b>>
        BY <4>1
      <4> QED BY <4>2
    <3> QED BY <3>1, <3>2, <3>3
  <2> QED BY <2>1
<1>5. /\ v \in Seq(Constant_) /\ Len(v) = n + Len(u)
      /\ \A k \in 1 .. n : v[k] = cp[k]
      /\ \A k \in 1 .. Len(u) : v[n + k] = u[k]
  BY <1>1, <1>2, <1>3, ConcatElements
<1>6. ASSUME NEW k \in 1 .. Len(v)
      PROVE  v[k].info # NULL <=> k \in Present \cup {n + 1}
  <2>1. CASE k \in 1 .. n
    <3>1. k # n + 1 /\ v[k] = cp[k]
      BY <1>2, <1>5, <2>1
    <3> QED BY <1>1, <2>1, <3>1 DEF Present
  <2>2. CASE k \notin 1 .. n
    <3>1. PICK j : j = k - n
      OBVIOUS
    <3>2. j \in 1 .. Len(u) /\ n + j = k
      BY <1>2, <1>3, <1>5, <2>2, <3>1
    <3>3. v[k] = u[j]
      BY <1>5, <3>2
    <3>4. k \notin Present
      BY <1>1, <2>2 DEF Present
    <3>5. CASE j = 1
      BY <1>2, <1>3, <3>2, <3>3, <3>5
    <3>6. CASE j # 1
      <4>1. j \in 2 .. Len(u) /\ k # n + 1
        BY <1>2, <1>3, <3>2, <3>6
      <4> QED BY <1>4, <3>3, <3>4, <4>1
    <3> QED BY <3>5, <3>6
  <2> QED BY <2>1, <2>2
<1>7. Present \cup {n + 1} \subseteq 1 .. Len(v)
  BY <1>1, <1>2, <1>3, <1>5 DEF Present
<1>8. cp' = v /\ Len(v) = n + 1 + Len(t)
  BY <1>1, <1>2, <1>3, <1>5
<1>9. Present' = {k \in 1 .. Len(v) : v[k].info # NULL}
  BY <1>8 DEF Present
<1>10. Present' = Present \cup {n + 1}
  BY <1>6, <1>7, <1>9
<1> QED BY <1>1, <1>5, <1>8, <1>10

LEMMA read_constant_Keeps ==
  ASSUME ReadingInv, read_constant
  PROVE  ReadingInv'
<1>1. /\ phase = "constants" /\ In("constants") /\ u1(pos) \in Tags
      /\ u1(pos) = Long => Len(cp) + 2 <= count
      /\ phase' = IF Len(cp') = count THEN "class_info" ELSE phase
      /\ pos' = pos + Needed
      /\ live' = live \cup {<<"constant", Len(cp) + 1>>}
      /\ UNCHANGED <<file, left, attributes, arguments, count, clazz, to_free>>
  BY DEF read_constant, In
<1>2. phase \in Kept /\ phase' \in Kept /\ phase' \in {"class_info", "constants"}
  BY <1>1 DEF Kept, Reading
<1>3. PICK junk \in JunkTags :
        cp' = cp \o (<<[tag |-> u1(pos), info |-> Info]>>
                     \o IF u1(pos) = Long THEN <<[tag |-> junk, info |-> NULL]>> ELSE <<>>)
  BY DEF read_constant
<1> DEFINE c == [tag |-> u1(pos), info |-> Info]
           b == [tag |-> junk, info |-> NULL]
           t == IF u1(pos) = Long THEN <<b>> ELSE <<>>
<1>4. c \in Constant_ /\ c.info # NULL
  BY <1>1, InfoRead DEF ReadingInv, Constant_
<1>5. b \in Constant_ /\ b.info = NULL
  BY DEF Constant_, Info_, NULL
<1>6. /\ t \in Seq(Constant_) /\ (t = <<>> \/ t = <<b>>)
      /\ Len(t) = IF u1(pos) = Long THEN 1 ELSE 0
  <2> HIDE DEF b
  <2> QED BY <1>5
<1>7. cp' = cp \o (<<c>> \o t)
  BY <1>3
<1> HIDE DEF c, t, b
<1>8. /\ cp' \in Seq(Constant_) /\ Len(cp') = Len(cp) + 1 + Len(t)
      /\ Present' = Present \cup {Len(cp) + 1}
  <2>1. t = <<>> \/ \E e \in Constant_ : e.info = NULL /\ t = <<e>>
    BY <1>5, <1>6
  <2>2. Typed /\ t \in Seq(Constant_)
    BY <1>6 DEF ReadingInv
  <2> QED BY <1>4, <1>7, <2>1, <2>2, PresentGrows
<1>9. Len(cp) \in Nat /\ count \in Nat /\ Len(cp) < count /\ Len(cp') \in Nat /\ Len(cp') <= count
  <2>1. Len(cp) \in Nat /\ count \in Nat /\ Len(cp) < count
    BY <1>1, WordNat DEF ReadingInv, Typed, Phased
  <2> QED BY <1>1, <1>6, <1>8, <2>1
<1>10. Typed'
  <2>1. live' \in SUBSET Blocks
    BY <1>1, <1>9 DEF ReadingInv, Typed, Blocks
  <2>2. pos' \in Nat
    BY <1>1, ConstantRead DEF ReadingInv, Typed
  <2> QED BY <1>1, <1>2, <1>8, <1>9, <2>1, <2>2 DEF ReadingInv, Typed, Kept
<1>11. Phased'
  <2>1. ~clazz.bootstrap.found /\ clazz.bootstrap.methods = <<>>
    BY <1>1 DEF ReadingInv, Phased, BeforePool, BeforeInterfaces, BeforeFields, BeforeMethods,
                BeforeBootstrap
  <2>2. phase' = "constants" => Len(cp') < count
    BY <1>1, <1>9
  <2>3. phase' = "class_info" => Len(cp') = count
    BY <1>1
  <2> QED BY <1>1, <1>2, <2>1, <2>2, <2>3 DEF Phased, BeforePool, BeforeInterfaces, BeforeFields,
             BeforeMethods, BeforeBootstrap, Kept, Loops, Reading
<1>12. live' = Allocated'
  <2>1. Tables(phase', clazz.bootstrap.found) = Tables(phase, clazz.bootstrap.found)
    BY <1>1, <1>2 DEF Tables, BeforePool, BeforeInterfaces, BeforeFields, BeforeMethods
  <2>2. BlocksOf("constant", Present') = BlocksOf("constant", Present) \cup {<<"constant", Len(cp) + 1>>}
    BY <1>8 DEF BlocksOf
  <2>3. WithCode' = WithCode
    BY <1>1 DEF WithCode
  <2>4. live = Allocated
    BY <1>2 DEF ReadingInv, Held
  <2> QED BY <1>1, <2>1, <2>2, <2>3, <2>4 DEF Allocated
<1> QED BY <1>1, <1>2, <1>10, <1>11, <1>12, Kept_

\* The two or eight bytes that most actions read.
LEMMA HalfWords ==
  ASSUME ReadingInv, NEW p, In(p)
  PROVE  /\ p \in {"constant_pool", "interfaces_count", "interfaces", "fields_count", "methods_count",
                   "attributes_count", "bootstrap_count", "bootstrap_arguments"} =>
              u2(pos) \in Nat
         /\ p \in {"class_info", "fields", "methods"} =>
              u2(pos) \in Nat /\ u2(pos + 2) \in Nat /\ u2(pos + 4) \in Nat
         /\ p \in {"fields", "methods"} => u2(pos + 6) \in Nat
         /\ p = "bootstrap_methods" => u2(pos) \in Nat /\ u2(pos + 2) \in Nat
         /\ p \in {"field_attributes", "method_attributes", "class_attributes"} =>
              u4(pos + 2) \in Nat /\ attribute_end \in Nat
<1>1. pos \in Nat /\ Len(bytes) \in Nat /\ phase = p /\ pos + Needed <= Len(bytes) /\ Typed
  BY BytesTyped DEF ReadingInv, Typed, In, Has
<1>2. CASE p \in {"constant_pool", "interfaces_count", "interfaces", "fields_count", "methods_count",
                  "attributes_count", "bootstrap_count", "bootstrap_arguments"}
  <2>1. Needed = 2
    BY <1>1, <1>2 DEF Needed
  <2>2. u2(pos) \in Nat
    BY <1>1, <2>1, Reads, WordNat
  <2> QED BY <1>2, <2>2
<1>3. CASE p = "bootstrap_methods"
  <2>1. Needed = 4
    BY <1>1, <1>3 DEF Needed
  <2>2. pos + 2 \in Nat /\ (pos + 2) + 2 <= Len(bytes) /\ pos + 2 <= Len(bytes)
    BY <1>1, <2>1
  <2>3. u2(pos) \in Nat /\ u2(pos + 2) \in Nat
    BY <1>1, <2>2, Reads, WordNat
  <2> QED BY <1>3, <2>3
<1>4. CASE p \in {"class_info", "fields", "methods"}
  <2>1. Needed \in {6, 8} /\ (p \in {"fields", "methods"} => Needed = 8)
    BY <1>1, <1>4 DEF Needed
  <2>2. /\ pos + 2 \in Nat /\ (pos + 2) + 2 <= Len(bytes) /\ pos + 2 <= Len(bytes)
        /\ pos + 4 \in Nat /\ (pos + 4) + 2 <= Len(bytes) /\ pos + 6 \in Nat
        /\ p \in {"fields", "methods"} => (pos + 6) + 2 <= Len(bytes)
    BY <1>1, <2>1
  <2>3. /\ u2(pos) \in Nat /\ u2(pos + 2) \in Nat /\ u2(pos + 4) \in Nat
        /\ p \in {"fields", "methods"} => u2(pos + 6) \in Nat
    BY <1>1, <2>2, Reads, WordNat
  <2> QED BY <1>4, <2>3
<1>5. CASE p \in {"field_attributes", "class_attributes", "method_attributes"}
  <2>1. pos + 6 <= Len(bytes)
    <3>1. CASE p \in {"field_attributes", "class_attributes"}
      <4>1. Needed = 6
        BY <1>1, <3>1 DEF Needed, Attribute
      <4> QED BY <1>1, <4>1
    <3>2. CASE p = "method_attributes"
      <4>1. Needed = IF Has(Attribute) /\ Constant(u2(pos), Utf8) /\ Named(CodeText)
                     THEN Attribute + 8 + (IF Has(Attribute + 8) THEN code_length ELSE 0)
                     ELSE Attribute
        BY <1>1, <3>2 DEF Needed
      <4>2. CASE Has(Attribute)
        BY <1>1, <4>2 DEF Has, Attribute
      <4>3. CASE ~Has(Attribute)
        <5>1. Needed = 6
          BY <4>1, <4>3 DEF Attribute
        <5> QED BY <1>1, <5>1
      <4> QED BY <4>2, <4>3
    <3> QED BY <1>5, <3>1, <3>2
  <2>2. pos + 2 \in Nat /\ (pos + 2) + 4 <= Len(bytes)
    BY <1>1, <2>1
  <2>3. u4(pos + 2) \in Nat
    BY <1>1, <2>2, Reads
  <2>4. attribute_end \in Nat
    BY <1>1, <2>3 DEF attribute_end, Attribute
  <2> QED BY <1>5, <2>3, <2>4
<1> QED BY <1>2, <1>3, <1>4, <1>5

LEMMA get_class_info_Keeps ==
  ASSUME ReadingInv, get_class_info
  PROVE  ReadingInv'
<1>1. /\ phase = "class_info" /\ phase' = "interfaces_count" /\ pos' = pos + 6
      /\ clazz' = [clazz EXCEPT !.access_flags = u2(pos), !.this_class = u2(pos + 2),
                                !.super_class = u2(pos + 4)]
      /\ UNCHANGED <<file, left, attributes, arguments, count, cp, live, to_free>>
  BY DEF get_class_info, In
<1>2. phase \in Kept /\ phase' \in Kept
  BY <1>1 DEF Kept, Reading
<1>3. u2(pos) \in Nat /\ u2(pos + 2) \in Nat /\ u2(pos + 4) \in Nat
  BY HalfWords DEF get_class_info
<1>4. /\ clazz' \in ClassFile_ /\ clazz'.fields = clazz.fields
      /\ clazz'.methods = clazz.methods /\ clazz'.bootstrap = clazz.bootstrap
  BY <1>1, <1>3 DEF ReadingInv, Typed, ClassFile_
<1>5. Typed'
  BY <1>1, <1>2, <1>4 DEF ReadingInv, Typed, Kept
<1>6. Phased'
  BY <1>1, <1>4 DEF ReadingInv, Phased, BeforePool, BeforeInterfaces, BeforeFields, BeforeMethods,
                    BeforeBootstrap, Kept, Loops, Reading
<1>7. Tables(phase', clazz.bootstrap.found) = Tables(phase, clazz.bootstrap.found)
  BY <1>1 DEF Tables, BeforePool, BeforeInterfaces, BeforeFields, BeforeMethods
<1>8. live' = Allocated'
  BY <1>1, <1>2, <1>4, <1>7, SamePhase DEF ReadingInv
<1> QED BY <1>1, <1>2, <1>5, <1>6, <1>8, Kept_

\* What the loops have in common.
LEMMA Looping ==
  ASSUME NEW n \in Nat, NEW turn, NEW after, Loop(n, turn, after)
  PROVE  left' = n /\ left' \in Nat /\ (phase' = after \/ (phase' = turn /\ left' # 0))
BY DEF Loop

LEMMA Turning ==
  ASSUME left \in Nat, left # 0, NEW after, Turn(after)
  PROVE  left' \in Nat /\ (phase' = after \/ (phase' = phase /\ left' # 0))
BY DEF Turn

LEMMA get_interface_Keeps ==
  ASSUME ReadingInv, get_interface
  PROVE  ReadingInv'
<1>1. /\ phase = "interfaces_count" /\ Loop(u2(pos), "interfaces", "fields_count") /\ pos' = pos + 2
      /\ live' = live \cup {<<"interfaces", 0>>}
      /\ UNCHANGED <<file, attributes, arguments, count, cp, clazz, to_free>>
  BY DEF get_interface, In
<1>2. u2(pos) \in Nat
  BY HalfWords DEF get_interface
<1>3. left' \in Nat /\ (phase' = "fields_count" \/ (phase' = "interfaces" /\ left' # 0))
  BY <1>1, <1>2, Looping
<1>4. phase \in Kept /\ phase' \in Kept
  BY <1>1, <1>3 DEF Kept, Reading
<1>5. Typed'
  <2>1. live' \in SUBSET Blocks
    BY <1>1 DEF ReadingInv, Typed, Blocks
  <2> QED BY <1>1, <1>3, <1>4, <2>1 DEF ReadingInv, Typed, Kept
<1>6. Phased'
  BY <1>1, <1>3 DEF ReadingInv, Phased, BeforePool, BeforeInterfaces, BeforeFields, BeforeMethods,
                    BeforeBootstrap, Kept, Loops, Reading
<1>7. Tables(phase', clazz.bootstrap.found)
      = Tables(phase, clazz.bootstrap.found) \cup {<<"interfaces", 0>>}
  BY <1>1, <1>3 DEF Tables, Table, BeforePool, BeforeInterfaces, BeforeFields, BeforeMethods
<1>8. live' = Allocated'
  BY <1>1, <1>4, <1>7, SameBlocks DEF ReadingInv
<1> QED BY <1>1, <1>4, <1>5, <1>6, <1>8, Kept_

LEMMA read_interface_Keeps ==
  ASSUME ReadingInv, read_interface
  PROVE  ReadingInv'
<1>1. /\ phase = "interfaces" /\ Turn("fields_count") /\ pos' = pos + 2
      /\ clazz' = [clazz EXCEPT !.interfaces = Append(@, u2(pos))]
      /\ UNCHANGED <<file, attributes, arguments, count, cp, live, to_free>>
  BY DEF read_interface, In
<1>2. u2(pos) \in Nat
  BY HalfWords DEF read_interface
<1>3. left' \in Nat /\ (phase' = "fields_count" \/ (phase' = "interfaces" /\ left' # 0))
  <2>1. left \in Nat /\ left # 0
    BY <1>1 DEF ReadingInv, Typed, Phased, Loops
  <2> QED BY <1>1, <2>1, Turning
<1>4. phase \in Kept /\ phase' \in Kept
  BY <1>1, <1>3 DEF Kept, Reading
<1>5. /\ clazz' \in ClassFile_ /\ clazz'.fields = clazz.fields
      /\ clazz'.methods = clazz.methods /\ clazz'.bootstrap = clazz.bootstrap
  <2>1. PICK s : s = Append(clazz.interfaces, u2(pos))
    OBVIOUS
  <2>2. clazz \in ClassFile_ /\ clazz.interfaces \in Seq(Nat)
    BY DEF ReadingInv, Typed, ClassFile_
  <2>3. s \in Seq(Nat)
    BY <1>2, <2>1, <2>2, AppendProperties
  <2>4. clazz' = [clazz EXCEPT !.interfaces = s]
    BY <1>1, <2>1
  <2> QED BY <2>2, <2>3, <2>4 DEF ClassFile_
<1>6. Typed'
  BY <1>1, <1>3, <1>4, <1>5 DEF ReadingInv, Typed, Kept
<1>7. Phased'
  BY <1>1, <1>3, <1>5 DEF ReadingInv, Phased, BeforePool, BeforeInterfaces, BeforeFields,
     BeforeMethods, BeforeBootstrap, Kept, Loops, Reading
<1>8. Tables(phase', clazz.bootstrap.found) = Tables(phase, clazz.bootstrap.found)
  BY <1>1, <1>3 DEF Tables, BeforePool, BeforeInterfaces, BeforeFields, BeforeMethods
<1>9. live' = Allocated'
  BY <1>1, <1>4, <1>5, <1>8, SamePhase DEF ReadingInv
<1> QED BY <1>1, <1>4, <1>6, <1>7, <1>9, Kept_

LEMMA get_fields_Keeps ==
  ASSUME ReadingInv, get_fields
  PROVE  ReadingInv'
<1>1. /\ phase = "fields_count" /\ Loop(u2(pos), "fields", "methods_count") /\ pos' = pos + 2
      /\ live' = live \cup {<<"fields", 0>>}
      /\ UNCHANGED <<file, attributes, arguments, count, cp, clazz, to_free>>
  BY DEF get_fields, In
<1>2. u2(pos) \in Nat
  BY HalfWords DEF get_fields
<1>3. left' \in Nat /\ (phase' = "methods_count" \/ (phase' = "fields" /\ left' # 0))
  BY <1>1, <1>2, Looping
<1>4. phase \in Kept /\ phase' \in Kept
  BY <1>1, <1>3 DEF Kept, Reading
<1>5. Typed'
  <2>1. live' \in SUBSET Blocks
    BY <1>1 DEF ReadingInv, Typed, Blocks
  <2> QED BY <1>1, <1>3, <1>4, <2>1 DEF ReadingInv, Typed, Kept
<1>6. Phased'
  BY <1>1, <1>3 DEF ReadingInv, Phased, BeforePool, BeforeInterfaces, BeforeFields, BeforeMethods,
                    BeforeBootstrap, Kept, Loops, Reading
<1>7. Tables(phase', clazz.bootstrap.found)
      = Tables(phase, clazz.bootstrap.found) \cup {<<"fields", 0>>}
  BY <1>1, <1>3 DEF Tables, Table, BeforePool, BeforeInterfaces, BeforeFields, BeforeMethods
<1>8. live' = Allocated'
  BY <1>1, <1>4, <1>7, SameBlocks DEF ReadingInv
<1> QED BY <1>1, <1>4, <1>5, <1>6, <1>8, Kept_

LEMMA NextMembers ==
  ASSUME left \in Nat, left # 0, NEW members, NEW after, NextMember(members, after)
  PROVE  left' \in Nat /\ (phase' = after \/ (phase' = members /\ left' # 0))
BY DEF NextMember

LEMMA MemberTexts ==
  ASSUME ReadingInv, phase \in {"fields", "methods"}, MemberNamed
  PROVE  member_name \in Info_ /\ member_descriptor \in Info_
<1>1. cp \in Seq(Constant_) /\ Len(cp) = count
  BY DEF ReadingInv, Typed, Phased, Kept, Reading, BeforePool
<1>2. ASSUME NEW i \in 1 .. count
      PROVE  cp[i].info \in Info_
  <2>1. cp[i] \in Constant_
    BY <1>1, ElementOfSeq
  <2> QED BY <2>1 DEF Constant_
<1>3. u2(pos + 2) \in 1 .. count /\ u2(pos + 4) \in 1 .. count
  BY DEF MemberNamed, Constant
<1> QED BY <1>2, <1>3 DEF member_name, member_descriptor

LEMMA read_field_Keeps ==
  ASSUME ReadingInv, read_field
  PROVE  ReadingInv'
<1>1. /\ phase = "fields" /\ MemberNamed
      /\ clazz' = [clazz EXCEPT !.fields =
                     Append(@, [name |-> member_name, descriptor |-> member_descriptor])]
      /\ attributes' = u2(pos + 6) /\ pos' = pos + 8
      /\ live' = live \cup {<<"value", Len(clazz.fields) + 1>>}
      /\ IF attributes' = 0 THEN NextMember("fields", "methods_count")
         ELSE phase' = "field_attributes" /\ UNCHANGED left
      /\ UNCHANGED <<file, arguments, count, cp, to_free>>
  BY DEF read_field, In
<1>2. attributes' \in Nat
  BY <1>1, HalfWords DEF read_field
<1>3. /\ left' \in Nat
      /\ \/ phase' = "methods_count"
         \/ phase' = "fields" /\ left' # 0
         \/ phase' = "field_attributes" /\ left' # 0 /\ attributes' # 0
  <2>1. left \in Nat /\ left # 0
    BY <1>1 DEF ReadingInv, Typed, Phased, Loops
  <2> QED BY <1>1, <2>1, NextMembers
<1>4. phase \in Kept /\ phase' \in Kept
  BY <1>1, <1>3 DEF Kept, Reading
<1>5. /\ clazz' \in ClassFile_ /\ clazz'.methods = clazz.methods
      /\ clazz'.bootstrap = clazz.bootstrap
      /\ Len(clazz.fields) \in Nat /\ Len(clazz'.fields) = Len(clazz.fields) + 1
  <2>1. PICK f, s : /\ f = [name |-> member_name, descriptor |-> member_descriptor]
                    /\ s = Append(clazz.fields, f)
    OBVIOUS
  <2>2. clazz \in ClassFile_ /\ clazz.fields \in Seq(Field_)
    BY DEF ReadingInv, Typed, ClassFile_
  <2>3. f \in Field_
    BY <1>1, <2>1, MemberTexts DEF Field_
  <2>4. s \in Seq(Field_) /\ Len(clazz.fields) \in Nat /\ Len(s) = Len(clazz.fields) + 1
    BY <2>1, <2>2, <2>3, AppendProperties
  <2>5. clazz' = [clazz EXCEPT !.fields = s]
    BY <1>1, <2>1
  <2> QED BY <2>2, <2>4, <2>5 DEF ClassFile_
<1>6. Typed'
  <2>1. live' \in SUBSET Blocks
    <3>1. PICK b : b = <<"value", Len(clazz.fields) + 1>>
      OBVIOUS
    <3>2. b \in Blocks
      BY <1>5, <3>1 DEF Blocks
    <3>3. live' = live \cup {b}
      BY <1>1, <3>1
    <3> QED BY <3>2, <3>3 DEF ReadingInv, Typed
  <2>2. pos' \in Nat /\ arguments' \in Nat /\ UNCHANGED <<file, count, cp, to_free>> /\ Typed
    BY <1>1 DEF ReadingInv, Typed
  <2> QED BY ONLY <1>2, <1>3, <1>4, <1>5, <2>1, <2>2, StillTyped
<1>7. Phased'
  BY <1>1, <1>3, <1>5 DEF ReadingInv, Phased, BeforePool, BeforeInterfaces, BeforeFields,
     BeforeMethods, BeforeBootstrap, Kept, Loops, Reading
<1>8. live' = Allocated'
  <2>1. Tables(phase', clazz.bootstrap.found) = Tables(phase, clazz.bootstrap.found)
    BY <1>1, <1>3 DEF Tables, BeforePool, BeforeInterfaces, BeforeFields, BeforeMethods
  <2>2. BlocksOf("value", 1 .. Len(clazz'.fields))
        = BlocksOf("value", 1 .. Len(clazz.fields)) \cup {<<"value", Len(clazz.fields) + 1>>}
    <3>1. 1 .. Len(clazz'.fields) = 1 .. Len(clazz.fields) \cup {Len(clazz.fields) + 1}
      BY <1>5
    <3> QED BY <3>1 DEF BlocksOf
  <2>3. WithCode' = WithCode /\ Present' = Present
    BY <1>1, <1>5 DEF WithCode, Present
  <2>4. live = Allocated
    BY <1>4 DEF ReadingInv, Held
  <2> QED BY <1>1, <1>5, <2>1, <2>2, <2>3, <2>4 DEF Allocated
<1> QED BY <1>1, <1>4, <1>6, <1>7, <1>8, Kept_

LEMMA read_field_attributes_Keeps ==
  ASSUME ReadingInv, read_field_attributes
  PROVE  ReadingInv'
<1>1. /\ phase = "field_attributes"
      /\ pos' = attribute_end /\ attributes' = attributes - 1
      /\ IF attributes = 1 THEN NextMember("fields", "methods_count") ELSE UNCHANGED <<phase, left>>
      /\ UNCHANGED <<file, arguments, count, cp, clazz, live, to_free>>
  BY DEF read_field_attributes, In
<1>2. pos' \in Nat
  BY <1>1, HalfWords DEF read_field_attributes
<1>3. /\ left' \in Nat /\ attributes' \in Nat
      /\ \/ phase' = "methods_count"
         \/ phase' = "fields" /\ left' # 0
         \/ phase' = "field_attributes" /\ left' # 0 /\ attributes' # 0
  <2>1. left \in Nat /\ left # 0 /\ attributes \in Nat /\ attributes # 0
    BY <1>1 DEF ReadingInv, Typed, Phased, Loops
  <2> QED BY <1>1, <2>1, NextMembers
<1>4. phase \in Kept /\ phase' \in Kept
  BY <1>1, <1>3 DEF Kept, Reading
<1>5. Typed'
  BY <1>1, <1>2, <1>3, <1>4 DEF ReadingInv, Typed, Kept
<1>6. Phased'
  BY <1>1, <1>3 DEF ReadingInv, Phased, BeforePool, BeforeInterfaces, BeforeFields,
     BeforeMethods, BeforeBootstrap, Kept, Loops, Reading
<1>7. Tables(phase', clazz.bootstrap.found) = Tables(phase, clazz.bootstrap.found)
  BY <1>1, <1>3 DEF Tables, BeforePool, BeforeInterfaces, BeforeFields, BeforeMethods
<1>8. live' = Allocated'
  BY <1>1, <1>4, <1>7, SamePhase DEF ReadingInv
<1> QED BY <1>1, <1>4, <1>5, <1>6, <1>8, Kept_

LEMMA get_methods_Keeps ==
  ASSUME ReadingInv, get_methods
  PROVE  ReadingInv'
<1>1. /\ phase = "methods_count" /\ Loop(u2(pos), "methods", "attributes_count") /\ pos' = pos + 2
      /\ live' = live \cup {<<"methods", 0>>}
      /\ UNCHANGED <<file, attributes, arguments, count, cp, clazz, to_free>>
  BY DEF get_methods, In
<1>2. u2(pos) \in Nat
  BY HalfWords DEF get_methods
<1>3. left' \in Nat /\ (phase' = "attributes_count" \/ (phase' = "methods" /\ left' # 0))
  BY <1>1, <1>2, Looping
<1>4. phase \in Kept /\ phase' \in Kept
  BY <1>1, <1>3 DEF Kept, Reading
<1>5. Typed'
  <2>1. live' \in SUBSET Blocks
    BY <1>1 DEF ReadingInv, Typed, Blocks
  <2> QED BY <1>1, <1>3, <1>4, <2>1 DEF ReadingInv, Typed, Kept
<1>6. Phased'
  BY <1>1, <1>3 DEF ReadingInv, Phased, BeforePool, BeforeInterfaces, BeforeFields, BeforeMethods,
                    BeforeBootstrap, Kept, Loops, Reading
<1>7. Tables(phase', clazz.bootstrap.found)
      = Tables(phase, clazz.bootstrap.found) \cup {<<"methods", 0>>}
  BY <1>1, <1>3 DEF Tables, Table, BeforePool, BeforeInterfaces, BeforeFields, BeforeMethods
<1>8. live' = Allocated'
  BY <1>1, <1>4, <1>7, SameBlocks DEF ReadingInv
<1> QED BY <1>1, <1>4, <1>5, <1>6, <1>8, Kept_

LEMMA read_method_Keeps ==
  ASSUME ReadingInv, read_method
  PROVE  ReadingInv'
<1>1. /\ phase = "methods" /\ MemberNamed
      /\ clazz' = [clazz EXCEPT !.methods =
                     Append(@, [name |-> member_name, descriptor |-> member_descriptor,
                                access_flag |-> u2(pos), code |-> NoCode])]
      /\ attributes' = u2(pos + 6) /\ pos' = pos + 8
      /\ IF attributes' = 0 THEN NextMember("methods", "attributes_count")
         ELSE phase' = "method_attributes" /\ UNCHANGED left
      /\ UNCHANGED <<file, arguments, count, cp, live, to_free>>
  BY DEF read_method, In
<1>2. attributes' \in Nat /\ u2(pos) \in Nat
  BY <1>1, HalfWords DEF read_method
<1>3. /\ left' \in Nat
      /\ \/ phase' = "attributes_count"
         \/ phase' = "methods" /\ left' # 0
         \/ phase' = "method_attributes" /\ left' # 0 /\ attributes' # 0
  <2>1. left \in Nat /\ left # 0
    BY <1>1 DEF ReadingInv, Typed, Phased, Loops
  <2> QED BY <1>1, <2>1, NextMembers
<1>4. phase \in Kept /\ phase' \in Kept
  BY <1>1, <1>3 DEF Kept, Reading
<1>5. PICK m, s : /\ m = [name |-> member_name, descriptor |-> member_descriptor,
                          access_flag |-> u2(pos), code |-> NoCode]
                  /\ s = Append(clazz.methods, m)
  OBVIOUS
<1>6. clazz \in ClassFile_ /\ clazz.methods \in Seq(Method_)
  BY DEF ReadingInv, Typed, ClassFile_
<1>7. m \in Method_ /\ m.code = NoCode
  BY <1>1, <1>2, <1>5, MemberTexts DEF Method_
<1>8. PICK n : n = Len(clazz.methods)
  OBVIOUS
<1>9. /\ s \in Seq(Method_) /\ n \in Nat /\ Len(s) = n + 1 /\ s # <<>>
      /\ \A k \in 1 .. n : s[k] = clazz.methods[k]
      /\ s[n + 1] = m
  BY <1>5, <1>6, <1>7, <1>8, AppendProperties
<1>10. clazz' = [clazz EXCEPT !.methods = s]
  BY <1>1, <1>5
<1>11. /\ clazz' \in ClassFile_ /\ clazz'.methods = s /\ clazz'.fields = clazz.fields
       /\ clazz'.bootstrap = clazz.bootstrap
  BY <1>6, <1>9, <1>10 DEF ClassFile_
<1>12. Typed'
  <2>1. pos' \in Nat /\ arguments' \in Nat /\ live' \in SUBSET Blocks
    BY <1>1 DEF ReadingInv, Typed
  <2>2. UNCHANGED <<file, count, cp, to_free>> /\ Typed
    BY <1>1 DEF ReadingInv
  <2> QED BY ONLY <1>2, <1>3, <1>4, <1>11, <2>1, <2>2, StillTyped
<1>13. Phased'
  BY <1>1, <1>3, <1>9, <1>11 DEF ReadingInv, Phased, BeforePool, BeforeInterfaces, BeforeFields,
     BeforeMethods, BeforeBootstrap, Kept, Loops, Reading
<1>14. live' = Allocated'
  <2>1. Tables(phase', clazz.bootstrap.found) = Tables(phase, clazz.bootstrap.found)
    BY <1>1, <1>3 DEF Tables, BeforePool, BeforeInterfaces, BeforeFields, BeforeMethods
  <2>2. WithCode' = WithCode
    <3>1. WithCode' = {k \in 1 .. n + 1 : s[k].code # NoCode}
      BY <1>9, <1>11 DEF WithCode, NoCode
    <3>2. WithCode = {k \in 1 .. n : s[k].code # NoCode}
      BY <1>8, <1>9 DEF WithCode, NoCode
    <3> HIDE DEF NoCode
    <3> QED BY <1>7, <1>9, <3>1, <3>2
  <2>3. Present' = Present
    BY <1>1 DEF Present
  <2>4. live = Allocated
    BY <1>4 DEF ReadingInv, Held
  <2> QED BY <1>1, <1>11, <2>1, <2>2, <2>3, <2>4 DEF Allocated
<1> QED BY <1>1, <1>4, <1>12, <1>13, <1>14, Kept_

LEMMA read_method_attributes_Keeps ==
  ASSUME ReadingInv, read_method_attributes
  PROVE  ReadingInv'
<1>1. /\ phase = "method_attributes" /\ Constant(u2(pos), Utf8)
      /\ pos' = attribute_end /\ attributes' = attributes - 1
      /\ IF attributes = 1 THEN NextMember("methods", "attributes_count")
         ELSE UNCHANGED <<phase, left>>
      /\ UNCHANGED <<file, arguments, count, cp, to_free>>
  BY DEF read_method_attributes, In
<1>2. pos' \in Nat /\ pos \in Nat
  BY <1>1, HalfWords DEF read_method_attributes, ReadingInv, Typed
<1>3. /\ left' \in Nat /\ attributes' \in Nat
      /\ \/ phase' = "attributes_count"
         \/ phase' = "methods" /\ left' # 0
         \/ phase' = "method_attributes" /\ left' # 0 /\ attributes' # 0
  <2>1. left \in Nat /\ left # 0 /\ attributes \in Nat /\ attributes # 0
    BY <1>1 DEF ReadingInv, Typed, Phased, Loops
  <2> QED BY <1>1, <2>1, NextMembers
<1>4. phase \in Kept /\ phase' \in Kept
  BY <1>1, <1>3 DEF Kept, Reading
<1>5. Tables(phase', clazz.bootstrap.found) = Tables(phase, clazz.bootstrap.found)
  BY <1>1, <1>3 DEF Tables, BeforePool, BeforeInterfaces, BeforeFields, BeforeMethods
<1>6. CASE ~Named(CodeText)
  <2>1. UNCHANGED <<clazz, live>>
    BY <1>6 DEF read_method_attributes
  <2>2. Typed'
    BY <1>1, <1>2, <1>3, <1>4, <2>1 DEF ReadingInv, Typed, Kept
  <2>3. Phased'
    BY <1>1, <1>3, <2>1 DEF ReadingInv, Phased, BeforePool, BeforeInterfaces, BeforeFields,
       BeforeMethods, BeforeBootstrap, Kept, Loops, Reading
  <2>4. live' = Allocated'
    BY <1>1, <1>4, <1>5, <2>1, SamePhase DEF ReadingInv
  <2> QED BY <1>1, <1>4, <2>2, <2>3, <2>4, Kept_
<1>7. CASE Named(CodeText)
  <2> DEFINE code_ == [max_stack |-> u2(pos + Attribute), max_locals |-> u2(pos + Attribute + 2),
                       code |-> Bytes(pos + Attribute + 8, code_length)]
  <2>1. /\ clazz' = [clazz EXCEPT !.methods[method].code = code_]
        /\ live' = live \cup {<<"code", method>>}
    BY <1>7 DEF read_method_attributes
  <2>2. code_ \in Code_Attribute /\ code_.code # NULL
    <3>1. /\ pos + 14 <= Len(bytes) /\ code_length \in Nat /\ Len(bytes) \in Nat
          /\ pos + 14 + code_length <= Len(bytes)
      <4>1. Needed = IF Has(Attribute) /\ Constant(u2(pos), Utf8) /\ Named(CodeText)
                     THEN Attribute + 8 + (IF Has(Attribute + 8) THEN code_length ELSE 0)
                     ELSE Attribute
        BY <1>1 DEF Needed
      <4>2. Has(Needed) /\ Len(bytes) \in Nat
        BY BytesTyped DEF read_method_attributes, In, ReadingInv
      <4>3. Has(Attribute)
        <5>1. CASE ~Has(Attribute)
          BY <4>1, <4>2, <5>1
        <5> QED BY <5>1
      <4>4. Needed = Attribute + 8 + (IF Has(Attribute + 8) THEN code_length ELSE 0)
        BY <1>1, <1>7, <4>1, <4>3
      <4>5. Has(Attribute + 8)
        <5>1. CASE ~Has(Attribute + 8)
          <6>1. Needed = Attribute + 8
            BY <4>4, <5>1 DEF Attribute
          <6> QED BY <4>2, <5>1, <6>1
        <5> QED BY <5>1
      <4>6. pos + 14 <= Len(bytes)
        BY <1>2, <4>5 DEF Has, Attribute
      <4>7. code_length \in Nat
        <5>1. pos + 10 \in Nat /\ (pos + 10) + 4 <= Len(bytes) /\ pos + Attribute + 4 = pos + 10
          BY <1>2, <4>2, <4>6 DEF Attribute
        <5> QED BY <5>1, Reads DEF code_length, ReadingInv
      <4> QED BY <1>2, <4>2, <4>4, <4>5, <4>6, <4>7 DEF Has, Attribute
    <3>2. /\ pos + Attribute \in Nat /\ (pos + Attribute) + 2 <= Len(bytes)
          /\ pos + Attribute + 2 \in Nat /\ (pos + Attribute + 2) + 2 <= Len(bytes)
          /\ pos + Attribute + 8 \in Nat /\ (pos + Attribute + 8) + code_length <= Len(bytes)
      BY <1>2, <3>1 DEF Attribute
    <3>3. u2(pos + Attribute) \in Nat /\ u2(pos + Attribute + 2) \in Nat
      BY <3>2, Reads, WordNat DEF ReadingInv
    <3>4. /\ Bytes(pos + Attribute + 8, code_length) \in Info_
          /\ Bytes(pos + Attribute + 8, code_length) # NULL
      BY <3>1, <3>2, BytesRead DEF ReadingInv
    <3> QED BY <3>3, <3>4 DEF Code_Attribute
  <2>3. code_ # NoCode
    BY <2>2 DEF NoCode
  <2> HIDE DEF code_
  <2>4. PICK n, s : n = method /\ s = [clazz.methods EXCEPT ![n].code = code_]
    OBVIOUS
  <2>5. /\ clazz \in ClassFile_ /\ clazz.methods \in Seq(Method_)
        /\ n = Len(clazz.methods) /\ n \in Nat /\ n >= 1
    <3>1. clazz \in ClassFile_ /\ clazz.methods \in Seq(Method_) /\ clazz.methods # <<>>
      BY <1>1 DEF ReadingInv, Typed, Phased, ClassFile_
    <3> QED BY <2>4, <3>1 DEF method
  <2>6. clazz.methods[n] \in Method_
    BY <2>5, ElementOfSeq
  <2>7. PICK e : e = [clazz.methods[n] EXCEPT !.code = code_]
    OBVIOUS
  <2>8. e \in Method_ /\ e.code = code_
    BY <2>2, <2>6, <2>7 DEF Method_
  <2>9. s = [clazz.methods EXCEPT ![n] = e]
    BY <2>4, <2>7
  <2>10. /\ s \in Seq(Method_) /\ Len(s) = n /\ s[n] = e
         /\ \A k \in 1 .. n - 1 : s[k] = clazz.methods[k]
    BY <2>5, <2>8, <2>9
  <2>11. clazz' = [clazz EXCEPT !.methods = s]
    BY <2>1, <2>4
  <2>12. /\ clazz' \in ClassFile_ /\ clazz'.methods = s /\ clazz'.fields = clazz.fields
         /\ clazz'.bootstrap = clazz.bootstrap /\ s # <<>>
    <3>1. s # <<>>
      <4>1. Len(<<>>) = 0
        OBVIOUS
      <4> QED BY ONLY <2>5, <2>10, <4>1
    <3>2. s \in Seq(Method_)
      BY <2>10
    <3> QED BY <2>5, <2>11, <3>1, <3>2 DEF ClassFile_
  <2>13. Typed'
    <3>1. live' \in SUBSET Blocks
      BY <2>1, <2>4, <2>5 DEF ReadingInv, Typed, Blocks
    <3> QED BY <1>1, <1>2, <1>3, <1>4, <2>12, <3>1 DEF ReadingInv, Typed, Kept
  <2>14. Phased'
    BY <1>1, <1>3, <2>12 DEF ReadingInv, Phased, BeforePool, BeforeInterfaces, BeforeFields,
       BeforeMethods, BeforeBootstrap, Kept, Loops, Reading
  <2>15. live' = Allocated'
    <3>1. WithCode' = WithCode \cup {n}
      <4>1. WithCode' = {k \in 1 .. n : s[k].code # NoCode}
        BY <2>10, <2>12 DEF WithCode, NoCode
      <4>2. WithCode = {k \in 1 .. n : clazz.methods[k].code # NoCode}
        BY <2>5 DEF WithCode
      <4> HIDE DEF NoCode
      <4>3. ASSUME NEW k \in 1 .. n
            PROVE  s[k].code # NoCode <=> k = n \/ clazz.methods[k].code # NoCode
        <5>1. CASE k = n
          <6>1. s[k].code = code_
            BY <2>8, <2>10, <5>1
          <6> QED BY <2>3, <5>1, <6>1
        <5>2. CASE k # n
          <6>1. k \in 1 .. n - 1
            BY <2>5, <5>2
          <6>2. s[k] = clazz.methods[k]
            BY <2>10, <6>1
          <6> QED BY <5>2, <6>2
        <5> QED BY <5>1, <5>2
      <4>4. n \in 1 .. n
        BY <2>5
      <4> QED BY ONLY <4>1, <4>2, <4>3, <4>4
    <3>2. BlocksOf("code", WithCode') = BlocksOf("code", WithCode) \cup {<<"code", n>>}
      BY <3>1 DEF BlocksOf
    <3>3. Present' = Present
      BY <1>1 DEF Present
    <3>4. live = Allocated
      BY <1>4 DEF ReadingInv, Held
    <3> QED BY <1>1, <1>5, <2>1, <2>4, <2>12, <3>2, <3>3, <3>4 DEF Allocated
  <2> QED BY <1>1, <1>4, <2>13, <2>14, <2>15, Kept_
<1> QED BY <1>6, <1>7

LEMMA read_bootstrap_attribute_Keeps ==
  ASSUME ReadingInv, read_bootstrap_attribute
  PROVE  ReadingInv'
<1>1. /\ phase = "attributes_count" /\ Loop(u2(pos), "class_attributes", "read") /\ pos' = pos + 2
      /\ UNCHANGED <<file, attributes, arguments, count, cp, clazz, live, to_free>>
  BY DEF read_bootstrap_attribute, In
<1>2. u2(pos) \in Nat
  BY HalfWords DEF read_bootstrap_attribute
<1>3. left' \in Nat /\ (phase' = "read" \/ (phase' = "class_attributes" /\ left' # 0))
  BY <1>1, <1>2, Looping
<1>4. phase \in Kept /\ phase' \in Kept
  BY <1>1, <1>3 DEF Kept, Reading
<1>5. Typed'
  BY <1>1, <1>3, <1>4 DEF ReadingInv, Typed, Kept
<1>6. Phased'
  BY <1>1, <1>3 DEF ReadingInv, Phased, BeforePool, BeforeInterfaces, BeforeFields, BeforeMethods,
                    BeforeBootstrap, Kept, Loops, Reading
<1>7. Tables(phase', clazz.bootstrap.found) = Tables(phase, clazz.bootstrap.found)
  BY <1>1, <1>3 DEF Tables, BeforePool, BeforeInterfaces, BeforeFields, BeforeMethods
<1>8. live' = Allocated'
  BY <1>1, <1>4, <1>7, SamePhase DEF ReadingInv
<1> QED BY <1>1, <1>4, <1>5, <1>6, <1>8, Kept_

LEMMA skip_class_attribute_Keeps ==
  ASSUME ReadingInv, skip_class_attribute
  PROVE  ReadingInv'
<1>1. /\ phase = "class_attributes" /\ Turn("read") /\ pos' = attribute_end
      /\ UNCHANGED <<file, attributes, arguments, count, cp, clazz, live, to_free>>
  BY DEF skip_class_attribute, In
<1>2. pos' \in Nat
  BY <1>1, HalfWords DEF skip_class_attribute
<1>3. left' \in Nat /\ (phase' = "read" \/ (phase' = "class_attributes" /\ left' # 0))
  <2>1. left \in Nat /\ left # 0
    BY <1>1 DEF ReadingInv, Typed, Phased, Loops
  <2> QED BY <1>1, <2>1, Turning
<1>4. phase \in Kept /\ phase' \in Kept
  BY <1>1, <1>3 DEF Kept, Reading
<1>5. Typed'
  BY <1>1, <1>2, <1>3, <1>4 DEF ReadingInv, Typed, Kept
<1>6. Phased'
  BY <1>1, <1>3 DEF ReadingInv, Phased, BeforePool, BeforeInterfaces, BeforeFields, BeforeMethods,
                    BeforeBootstrap, Kept, Loops, Reading
<1>7. Tables(phase', clazz.bootstrap.found) = Tables(phase, clazz.bootstrap.found)
  BY <1>1, <1>3 DEF Tables, BeforePool, BeforeInterfaces, BeforeFields, BeforeMethods
<1>8. live' = Allocated'
  BY <1>1, <1>4, <1>7, SamePhase DEF ReadingInv
<1> QED BY <1>1, <1>4, <1>5, <1>6, <1>8, Kept_

LEMMA enter_bootstrap_methods_Keeps ==
  ASSUME ReadingInv, enter_bootstrap_methods
  PROVE  ReadingInv'
<1>1. /\ phase = "class_attributes" /\ phase' = "bootstrap_count" /\ pos' = pos + Attribute
      /\ live' = live \cup {<<"bootstrap", 0>>}
      /\ UNCHANGED <<file, left, attributes, arguments, count, cp, clazz, to_free>>
  BY DEF enter_bootstrap_methods, In
<1>2. phase \in Kept /\ phase' \in Kept
  BY <1>1 DEF Kept, Reading
<1>3. Typed'
  <2>1. live' \in SUBSET Blocks
    BY <1>1 DEF ReadingInv, Typed, Blocks
  <2>2. pos' \in Nat
    BY <1>1 DEF ReadingInv, Typed, Attribute
  <2> QED BY <1>1, <1>2, <2>1, <2>2 DEF ReadingInv, Typed, Kept
<1>4. Phased'
  BY <1>1 DEF ReadingInv, Phased, BeforePool, BeforeInterfaces, BeforeFields, BeforeMethods,
              BeforeBootstrap, Kept, Loops, Reading
<1>5. Tables(phase', clazz.bootstrap.found)
      = Tables(phase, clazz.bootstrap.found) \cup {<<"bootstrap", 0>>}
  BY <1>1 DEF Tables, Table, BeforePool, BeforeInterfaces, BeforeFields, BeforeMethods
<1>6. live' = Allocated'
  BY <1>1, <1>2, <1>5, SameBlocks DEF ReadingInv
<1> QED BY <1>1, <1>2, <1>3, <1>4, <1>6, Kept_

LEMMA num_bootstrap_methods_Keeps ==
  ASSUME ReadingInv, num_bootstrap_methods
  PROVE  ReadingInv'
<1>1. /\ phase = "bootstrap_count" /\ Loop(u2(pos), "bootstrap_methods", "read") /\ pos' = pos + 2
      /\ clazz' = [clazz EXCEPT !.bootstrap = [found |-> TRUE, methods |-> <<>>]]
      /\ live' = live \cup {<<"bootstrap_methods", 0>>}
      /\ UNCHANGED <<file, attributes, arguments, count, cp, to_free>>
  BY DEF num_bootstrap_methods, In
<1>2. u2(pos) \in Nat
  BY HalfWords DEF num_bootstrap_methods
<1>3. left' \in Nat /\ (phase' = "read" \/ (phase' = "bootstrap_methods" /\ left' # 0))
  BY <1>1, <1>2, Looping
<1>4. phase \in Kept /\ phase' \in Kept
  BY <1>1, <1>3 DEF Kept, Reading
<1>5. /\ clazz' \in ClassFile_ /\ clazz'.fields = clazz.fields /\ clazz'.methods = clazz.methods
      /\ clazz'.bootstrap.found = TRUE /\ clazz'.bootstrap.methods = <<>>
  <2>1. clazz \in ClassFile_
    BY DEF ReadingInv, Typed
  <2>2. [found |-> TRUE, methods |-> <<>>] \in Bootstrap_
    BY DEF Bootstrap_
  <2> QED BY <1>1, <2>1, <2>2 DEF ClassFile_
<1>6. Typed'
  <2>1. live' \in SUBSET Blocks
    BY <1>1 DEF ReadingInv, Typed, Blocks
  <2> QED BY <1>1, <1>3, <1>4, <1>5, <2>1 DEF ReadingInv, Typed, Kept
<1>7. Phased'
  BY <1>1, <1>3, <1>5 DEF ReadingInv, Phased, BeforePool, BeforeInterfaces, BeforeFields,
     BeforeMethods, BeforeBootstrap, Kept, Loops, Reading
<1>8. live' = Allocated'
  <2>1. ~clazz.bootstrap.found /\ clazz.bootstrap.methods = <<>>
    BY <1>1 DEF ReadingInv, Phased
  <2>2. Tables(phase', TRUE) = Tables(phase, FALSE) \cup {<<"bootstrap_methods", 0>>}
    BY <1>1, <1>3 DEF Tables, Table, BeforePool, BeforeInterfaces, BeforeFields, BeforeMethods
  <2>3. Tables(phase, clazz.bootstrap.found) = Tables(phase, FALSE)
    <3>1. clazz.bootstrap.found \in BOOLEAN
      BY DEF ReadingInv, Typed, ClassFile_, Bootstrap_
    <3>2. clazz.bootstrap.found = FALSE
      BY <2>1, <3>1
    <3> QED BY <3>2
  <2>4. WithCode' = WithCode /\ Present' = Present
    BY <1>1, <1>5 DEF WithCode, Present
  <2>5. live = Allocated
    BY <1>4 DEF ReadingInv, Held
  <2> QED BY <1>1, <1>5, <2>1, <2>2, <2>3, <2>4, <2>5 DEF Allocated
<1> QED BY <1>1, <1>4, <1>6, <1>7, <1>8, Kept_

LEMMA read_bootstrap_method_Keeps ==
  ASSUME ReadingInv, read_bootstrap_method
  PROVE  ReadingInv'
<1>1. /\ phase = "bootstrap_methods"
      /\ clazz' = [clazz EXCEPT !.bootstrap.methods =
                     Append(@, [ref |-> u2(pos), arguments |-> <<>>])]
      /\ arguments' = u2(pos + 2) /\ pos' = pos + 4
      /\ live' = live \cup {<<"arguments", Len(clazz.bootstrap.methods) + 1>>}
      /\ IF arguments' = 0 THEN NextMember("bootstrap_methods", "read")
         ELSE phase' = "bootstrap_arguments" /\ UNCHANGED left
      /\ UNCHANGED <<file, attributes, count, cp, to_free>>
  BY DEF read_bootstrap_method, In
<1>2. arguments' \in Nat /\ u2(pos) \in Nat
  BY <1>1, HalfWords DEF read_bootstrap_method
<1>3. /\ left' \in Nat
      /\ \/ phase' = "read"
         \/ phase' = "bootstrap_methods" /\ left' # 0
         \/ phase' = "bootstrap_arguments" /\ left' # 0 /\ arguments' # 0
  <2>1. left \in Nat /\ left # 0
    BY <1>1 DEF ReadingInv, Typed, Phased, Loops
  <2> QED BY <1>1, <2>1, NextMembers
<1>4. phase \in Kept /\ phase' \in Kept
  BY <1>1, <1>3 DEF Kept, Reading
<1>5. PICK m, s, b, n : /\ m = [ref |-> u2(pos), arguments |-> <<>>]
                        /\ s = Append(clazz.bootstrap.methods, m)
                        /\ b = [clazz.bootstrap EXCEPT !.methods = s]
                        /\ n = Len(clazz.bootstrap.methods)
  OBVIOUS
<1>6. /\ clazz \in ClassFile_ /\ clazz.bootstrap \in Bootstrap_
      /\ clazz.bootstrap.methods \in Seq(BootstrapMethod_)
  BY DEF ReadingInv, Typed, ClassFile_, Bootstrap_
<1>7. m \in BootstrapMethod_
  BY <1>2, <1>5 DEF BootstrapMethod_
<1>8. s \in Seq(BootstrapMethod_) /\ n \in Nat /\ Len(s) = n + 1 /\ s # <<>>
  BY <1>5, <1>6, <1>7, AppendProperties
<1>9. b \in Bootstrap_ /\ b.methods = s /\ b.found = clazz.bootstrap.found
  BY <1>5, <1>6, <1>8 DEF Bootstrap_
<1>10. clazz' = [clazz EXCEPT !.bootstrap = b]
  BY <1>1, <1>5
<1>11. /\ clazz' \in ClassFile_ /\ clazz'.fields = clazz.fields /\ clazz'.methods = clazz.methods
       /\ clazz'.bootstrap.found = clazz.bootstrap.found /\ clazz'.bootstrap.methods = s
  BY <1>6, <1>9, <1>10 DEF ClassFile_
<1>12. Typed'
  <2>1. live' \in SUBSET Blocks
    <3>1. <<"arguments", n + 1>> \in Blocks
      BY <1>8 DEF Blocks
    <3>2. live' = live \cup {<<"arguments", n + 1>>}
      BY <1>1, <1>5
    <3> QED BY <3>1, <3>2 DEF ReadingInv, Typed
  <2>2. pos' \in Nat /\ UNCHANGED <<file, count, cp, to_free>> /\ Typed
    BY <1>1 DEF ReadingInv, Typed
  <2>3. left' \in Nat /\ attributes' \in Nat /\ arguments' \in Nat
    BY <1>1, <1>2, <1>3 DEF ReadingInv, Typed
  <2> QED BY ONLY <1>4, <1>11, <2>1, <2>2, <2>3, StillTyped
<1>13. clazz.bootstrap.found
  BY <1>1 DEF ReadingInv, Phased
<1>14. Phased'
  BY <1>1, <1>3, <1>8, <1>11, <1>13 DEF ReadingInv, Phased, BeforePool, BeforeInterfaces,
     BeforeFields, BeforeMethods, BeforeBootstrap, Kept, Loops, Reading
<1>15. live' = Allocated'
  <2>1. Tables(phase', clazz.bootstrap.found) = Tables(phase, clazz.bootstrap.found)
    BY <1>1, <1>3 DEF Tables, BeforePool, BeforeInterfaces, BeforeFields, BeforeMethods
  <2>2. BlocksOf("arguments", 1 .. n + 1) = BlocksOf("arguments", 1 .. n) \cup {<<"arguments", n + 1>>}
    BY <1>8 DEF BlocksOf
  <2>3. WithCode' = WithCode /\ Present' = Present
    BY <1>1, <1>11 DEF WithCode, Present
  <2>4. live = Allocated
    BY <1>4 DEF ReadingInv, Held
  <2> QED BY <1>1, <1>5, <1>8, <1>11, <2>1, <2>2, <2>3, <2>4 DEF Allocated
<1> QED BY <1>1, <1>4, <1>12, <1>14, <1>15, Kept_

LEMMA read_bootstrap_argument_Keeps ==
  ASSUME ReadingInv, read_bootstrap_argument
  PROVE  ReadingInv'
<1>1. /\ phase = "bootstrap_arguments"
      /\ clazz' = [clazz EXCEPT !.bootstrap.methods[Len(clazz.bootstrap.methods)].arguments =
                     Append(@, u2(pos))]
      /\ arguments' = arguments - 1 /\ pos' = pos + 2
      /\ IF arguments = 1 THEN NextMember("bootstrap_methods", "read") ELSE UNCHANGED <<phase, left>>
      /\ UNCHANGED <<file, attributes, count, cp, live, to_free>>
  BY DEF read_bootstrap_argument, In
<1>2. u2(pos) \in Nat
  BY <1>1, HalfWords DEF read_bootstrap_argument
<1>3. /\ left' \in Nat /\ arguments' \in Nat
      /\ \/ phase' = "read"
         \/ phase' = "bootstrap_methods" /\ left' # 0
         \/ phase' = "bootstrap_arguments" /\ left' # 0 /\ arguments' # 0
  <2>1. left \in Nat /\ left # 0 /\ arguments \in Nat /\ arguments # 0
    BY <1>1 DEF ReadingInv, Typed, Phased, Loops
  <2> QED BY <1>1, <2>1, NextMembers
<1>4. phase \in Kept /\ phase' \in Kept
  BY <1>1, <1>3 DEF Kept, Reading
<1>5. PICK n, a, e, s, b : /\ n = Len(clazz.bootstrap.methods)
                           /\ a = Append(clazz.bootstrap.methods[n].arguments, u2(pos))
                           /\ e = [clazz.bootstrap.methods[n] EXCEPT !.arguments = a]
                           /\ s = [clazz.bootstrap.methods EXCEPT ![n] = e]
                           /\ b = [clazz.bootstrap EXCEPT !.methods = s]
  OBVIOUS
<1>6. /\ clazz \in ClassFile_ /\ clazz.bootstrap \in Bootstrap_
      /\ clazz.bootstrap.methods \in Seq(BootstrapMethod_)
      /\ clazz.bootstrap.methods # <<>> /\ clazz.bootstrap.found
  BY <1>1 DEF ReadingInv, Typed, Phased, ClassFile_, Bootstrap_
<1>7. n \in Nat /\ n >= 1
  BY <1>5, <1>6, LastElement
<1>8. clazz.bootstrap.methods[n] \in BootstrapMethod_
  BY <1>5, <1>6, LastElement
<1>9. e \in BootstrapMethod_
  <2>1. clazz.bootstrap.methods[n].arguments \in Seq(Nat)
    BY <1>8 DEF BootstrapMethod_
  <2>2. a \in Seq(Nat)
    BY <1>2, <1>5, <2>1, AppendProperties
  <2> QED BY <1>5, <1>8, <2>2 DEF BootstrapMethod_
<1>10. s \in Seq(BootstrapMethod_) /\ Len(s) = n /\ s # <<>>
  <2>1. PICK t : t = clazz.bootstrap.methods
    OBVIOUS
  <2>2. /\ t \in Seq(BootstrapMethod_) /\ e \in BootstrapMethod_
        /\ n \in Nat /\ n = Len(t) /\ n >= 1 /\ s = [t EXCEPT ![n] = e]
    BY <1>5, <1>6, <1>7, <1>9, <2>1
  <2> QED BY ONLY <2>2, LastReplaced
<1>11. b \in Bootstrap_ /\ b.methods = s /\ b.found = clazz.bootstrap.found
  BY <1>5, <1>6, <1>10 DEF Bootstrap_
<1>12. clazz' = [clazz EXCEPT !.bootstrap = b]
  BY <1>1, <1>5
<1>13. /\ clazz' \in ClassFile_ /\ clazz'.fields = clazz.fields /\ clazz'.methods = clazz.methods
       /\ clazz'.bootstrap.found = clazz.bootstrap.found /\ clazz'.bootstrap.methods = s
  BY <1>6, <1>11, <1>12 DEF ClassFile_
<1>14. Typed'
  BY <1>1, <1>3, <1>4, <1>13 DEF ReadingInv, Typed, Kept
<1>15. Phased'
  BY <1>1, <1>3, <1>6, <1>10, <1>13 DEF ReadingInv, Phased, BeforePool, BeforeInterfaces,
     BeforeFields, BeforeMethods, BeforeBootstrap, Kept, Loops, Reading
<1>16. live' = Allocated'
  <2>1. Tables(phase', clazz.bootstrap.found) = Tables(phase, clazz.bootstrap.found)
    BY <1>1, <1>3 DEF Tables, BeforePool, BeforeInterfaces, BeforeFields, BeforeMethods
  <2>2. WithCode' = WithCode /\ Present' = Present
    BY <1>1, <1>13 DEF WithCode, Present
  <2>3. live = Allocated
    BY <1>4 DEF ReadingInv, Held
  <2>4. Len(clazz'.bootstrap.methods) = Len(clazz.bootstrap.methods)
    BY <1>5, <1>10, <1>13
  <2> QED BY <1>1, <1>13, <2>1, <2>2, <2>3, <2>4 DEF Allocated
<1> QED BY <1>1, <1>4, <1>14, <1>15, <1>16, Kept_

LEMMA add_class_Keeps ==
  ASSUME ReadingInv, add_class
  PROVE  ReadingInv'
<1> DEFINE entry == {<<"meta", 0>>, <<"name", 0>>, <<"clazz", 0>>}
<1>1. /\ phase = "read" /\ phase' = "loaded" /\ live' = live \cup entry
      /\ UNCHANGED <<file, pos, left, attributes, arguments, count, cp, clazz, to_free>>
  BY DEF add_class
<1>2. phase \in Kept /\ phase' \in Kept
  BY <1>1 DEF Kept, Reading
<1>3. Typed'
  <2>1. live' \in SUBSET Blocks
    BY <1>1 DEF ReadingInv, Typed, Blocks
  <2> QED BY <1>1, <1>2, <2>1 DEF ReadingInv, Typed, Kept
<1>4. Phased'
  BY <1>1 DEF ReadingInv, Phased, BeforePool, BeforeInterfaces, BeforeFields, BeforeMethods,
              BeforeBootstrap, Kept, Loops, Reading
<1>5. Tables(phase', clazz.bootstrap.found) = Tables(phase, clazz.bootstrap.found) \cup entry
  BY <1>1 DEF Tables, Table, BeforePool, BeforeInterfaces, BeforeFields, BeforeMethods
<1> HIDE DEF entry
<1>6. live' = Allocated'
  BY <1>1, <1>2, <1>5, SameBlocks DEF ReadingInv
<1> QED BY <1>1, <1>2, <1>3, <1>4, <1>6, Kept_

-----------------------------------------------------------------------------
\* What free_class_heap() frees.
LEMMA FreesTyped ==
  ASSUME NEW kind, NEW times \in Seq(Nat)
  PROVE  Frees(kind, times) \in Seq({kind} \X Nat)
<1>1. PICK n : n = Len(times)
  OBVIOUS
<1> DEFINE Turn_(k) == [i \in 1 .. times[k] |-> <<kind, k>>]
           s == [k \in 1 .. n |-> Turn_(k)]
           B == {kind} \X Nat
<1>2. n \in Nat /\ DOMAIN times = 1 .. n /\ \A k \in 1 .. n : times[k] \in Nat
  BY <1>1
<1>3. ASSUME NEW k \in 1 .. n
      PROVE  Turn_(k) \in Seq(B)
  <2>1. PICK t, e : t = times[k] /\ e = <<kind, k>>
    OBVIOUS
  <2>2. e \in B /\ t \in Nat
    BY <1>2, <2>1
  <2> HIDE DEF B
  <2>3. [i \in 1 .. t |-> e] \in Seq(B)
    BY <2>2
  <2> QED BY <2>1, <2>3
<1>4. Frees(kind, times) = FlattenSeq(s)
  BY <1>2 DEF Frees
<1> HIDE DEF Turn_, B
<1>5. s \in Seq(Seq(B)) /\ Len(s) = n
  BY <1>2, <1>3
<1> HIDE DEF s
<1>6. PICK g \in [0 .. n -> Seq(B)] : PrefixElements(g, s)
  BY <1>5, Flattened
<1>7. g[n] = FlattenSeq(s) /\ g[n] \in Seq(B)
  BY <1>2, <1>5, <1>6 DEF PrefixElements
<1> QED BY <1>4, <1>7 DEF B

LEMMA ListedUpto ==
  ASSUME Typed
  PROVE  \E j \in Nat : listed = 1 .. j
<1>1. PICK n, s : s = clazz.methods /\ n = Len(s)
  OBVIOUS
<1>2. n \in Nat
  BY <1>1 DEF Typed, ClassFile_
<1>3. listed = {m \in 1 .. n : \A k \in 1 .. m : s[k].name # NULL}
  BY <1>1 DEF listed
<1> DEFINE S == {0} \cup listed
<1>4. S \in SUBSET (0 .. n) /\ 0 \in S
  BY <1>2, <1>3
<1>5. PICK j \in S : \A i \in S : i <= j
  <2> HIDE DEF S
  <2> QED BY <1>2, <1>4, Largest
<1>6. j \in Nat
  BY <1>2, <1>4
<1>7. ASSUME NEW m
      PROVE  m \in listed <=> m \in 1 .. j
  <2>1. ASSUME m \in listed
        PROVE  m \in 1 .. j
    BY <1>2, <1>3, <1>5, <1>6, <2>1
  <2>2. ASSUME m \in 1 .. j
        PROVE  m \in listed
    <3>1. j \in listed /\ m \in 1 .. n /\ \A k \in 1 .. m : k \in 1 .. j
      BY <1>2, <1>3, <1>5, <1>6, <2>2
    <3>2. \A k \in 1 .. j : s[k].name # NULL
      BY <1>3, <3>1
    <3> HIDE DEF S
    <3> QED BY <1>3, <3>1, <3>2
  <2> QED BY <2>1, <2>2
<1>8. listed = 1 .. j
  BY <1>7
<1> QED BY <1>6, <1>8

LEMMA FreeOrderTyped ==
  ASSUME Typed
  PROVE  FreeOrder \in Seq(Blocks)
<1> DEFINE Kinds == {"pool", "constant", "interfaces", "fields", "value", "methods", "code",
                     "bootstrap", "bootstrap_methods", "arguments", "meta", "name", "clazz"}
<1>1. ASSUME NEW kind \in Kinds, NEW times \in Seq(Nat)
      PROVE  Frees(kind, times) \in Seq(Blocks)
  <2>1. Frees(kind, times) \in Seq({kind} \X Nat)
    BY FreesTyped
  <2>2. {kind} \X Nat \subseteq Blocks
    BY DEF Blocks
  <2> QED BY <2>1, <2>2
<1>2. \A kind \in Kinds : <<kind, 0>> \in Blocks
  BY DEF Blocks
<1>3. ConstantFrees \in Seq(Blocks)
  <2>1. [k \in 1 .. count |-> Unless(cp[k].info = NULL)] \in Seq(Nat)
    BY WordNat DEF Typed, Unless
  <2> QED BY <1>1, <2>1 DEF ConstantFrees
<1>4. ValueFrees \in Seq(Blocks)
  <2>1. Len(clazz.fields) \in Nat
    BY DEF Typed, ClassFile_
  <2>2. [k \in 1 .. Len(clazz.fields) |-> 1] \in Seq(Nat)
    BY <2>1
  <2> QED BY <1>1, <2>2 DEF ValueFrees
<1>5. CodeFrees \in Seq(Blocks)
  <2>1. PICK j \in Nat : listed = 1 .. j
    BY ListedUpto
  <2>2. [m \in 1 .. j |-> Unless(clazz.methods[m].code = NoCode)] \in Seq(Nat)
    BY <2>1 DEF Unless
  <2> QED BY <1>1, <2>1, <2>2 DEF CodeFrees
<1>6. BootstrapFrees \in Seq(Blocks)
  <2>1. ArgumentsFrees \in Seq(Blocks)
    <3>1. clazz.bootstrap.methods \in Seq(BootstrapMethod_)
      BY DEF Typed, ClassFile_, Bootstrap_
    <3>2. ASSUME NEW k \in 1 .. Len(clazz.bootstrap.methods)
          PROVE  Len(clazz.bootstrap.methods[k].arguments) \in Nat
      <4>1. clazz.bootstrap.methods[k] \in BootstrapMethod_
        BY <3>1, ElementOfSeq
      <4>2. clazz.bootstrap.methods[k].arguments \in Seq(Nat)
        BY <4>1 DEF BootstrapMethod_
      <4> QED BY ONLY <4>2
    <3>3. [k \in 1 .. Len(clazz.bootstrap.methods) |-> Len(clazz.bootstrap.methods[k].arguments)]
          \in Seq(Nat)
      BY <3>1, <3>2
    <3> QED BY <1>1, <3>3 DEF ArgumentsFrees
  <2>2. <<<<"bootstrap_methods", 0>>, <<"bootstrap", 0>>>> \in Seq(Blocks)
    BY <1>2
  <2> QED BY <2>1, <2>2, ConcatElements DEF BootstrapFrees
<1>7. /\ <<<<"pool", 0>>>> \in Seq(Blocks) /\ <<<<"fields", 0>>>> \in Seq(Blocks)
      /\ <<<<"methods", 0>>, <<"interfaces", 0>>>> \in Seq(Blocks)
      /\ <<<<"clazz", 0>>, <<"name", 0>>, <<"meta", 0>>>> \in Seq(Blocks)
  BY <1>2
<1> HIDE DEF Kinds
<1> QED BY <1>3, <1>4, <1>5, <1>6, <1>7, ConcatElements DEF FreeOrder

\* Blocks of other kinds are other blocks.
OfKinds(S, kinds) == \A b \in S : b[1] \in kinds

LEMMA ListsKinds ==
  ASSUME NEW S, NEW T, NEW s, NEW t, Lists(s, S), Lists(t, T),
         NEW K, NEW L, OfKinds(S, K), OfKinds(T, L), K \cap L = {}
  PROVE  Lists(s \o t, S \cup T) /\ OfKinds(S \cup T, K \cup L)
<1>1. S \cap T = {}
  BY DEF OfKinds
<1> QED BY <1>1, ListsBoth DEF OfKinds

LEMMA ListsTable ==
  ASSUME NEW kind
  PROVE  Lists(<<<<kind, 0>>>>, {<<kind, 0>>}) /\ OfKinds({<<kind, 0>>}, {kind})
BY ListsOne DEF OfKinds

LEMMA ListsTables ==
  ASSUME NEW kind, NEW other, kind # other
  PROVE  /\ Lists(<<<<kind, 0>>, <<other, 0>>>>, {<<kind, 0>>, <<other, 0>>})
         /\ OfKinds({<<kind, 0>>, <<other, 0>>}, {kind, other})
<1>1. PICK a, b : a = <<kind, 0>> /\ b = <<other, 0>>
  OBVIOUS
<1>2. a # b
  BY <1>1
<1>3. Lists(<<a, b>>, {a, b})
  <2>1. /\ <<a, b>> \in Seq({a, b}) /\ Len(<<a, b>>) = 2
        /\ <<a, b>>[1] = a /\ <<a, b>>[2] = b
    OBVIOUS
  <2> QED BY <1>2, <2>1 DEF Lists
<1>4. OfKinds({a, b}, {kind, other})
  BY <1>1 DEF OfKinds
<1> QED BY <1>1, <1>3, <1>4

LEMMA FreesLoaded ==
  ASSUME ReadingInv, phase = "loaded", OneArgument, AllListed
  PROVE  /\ Lists(ConstantFrees, BlocksOf("constant", Present))
         /\ Lists(ValueFrees, BlocksOf("value", 1 .. Len(clazz.fields)))
         /\ Lists(CodeFrees, BlocksOf("code", WithCode))
         /\ Lists(ArgumentsFrees, BlocksOf("arguments", 1 .. Len(clazz.bootstrap.methods)))
<1>1. Typed /\ count \in Nat /\ Len(cp) = count
  BY WordNat DEF ReadingInv, Typed, Phased, Kept, Reading, BeforePool
<1>2. clazz \in ClassFile_
  BY <1>1 DEF Typed
<1>3. Lists(ConstantFrees, BlocksOf("constant", Present))
  <2> DEFINE times == [k \in 1 .. count |-> Unless(cp[k].info = NULL)]
  <2>1. times \in Seq({0, 1}) /\ Len(times) = count
    BY <1>1 DEF Unless
  <2>2. \A k \in 1 .. count : times[k] = 1 <=> cp[k].info # NULL
    BY DEF Unless
  <2>3. ConstantFrees = Frees("constant", times)
    BY DEF ConstantFrees
  <2> HIDE DEF times
  <2>4. Freed(times) = Present
    BY <1>1, <2>1, <2>2 DEF Freed, Present
  <2> QED BY <2>1, <2>3, <2>4, ListsFrees
<1>4. Lists(ValueFrees, BlocksOf("value", 1 .. Len(clazz.fields)))
  <2> DEFINE times == [k \in 1 .. Len(clazz.fields) |-> 1]
  <2>1. Len(clazz.fields) \in Nat
    BY <1>2 DEF ClassFile_
  <2>2. times \in Seq({0, 1}) /\ Len(times) = Len(clazz.fields)
    BY <2>1
  <2>3. \A k \in 1 .. Len(clazz.fields) : times[k] = 1
    OBVIOUS
  <2>4. ValueFrees = Frees("value", times)
    BY DEF ValueFrees
  <2> HIDE DEF times
  <2>5. Freed(times) = 1 .. Len(clazz.fields)
    BY <2>2, <2>3 DEF Freed
  <2> QED BY <2>2, <2>4, <2>5, ListsFrees
<1>5. Lists(CodeFrees, BlocksOf("code", WithCode))
  <2>1. clazz.methods \in Seq(Method_)
    BY <1>2 DEF ClassFile_
  <2>2. PICK n : n = Len(clazz.methods)
    OBVIOUS
  <2>3. n \in Nat /\ listed = 1 .. n
    BY <2>1, <2>2 DEF AllListed
  <2> DEFINE times == [m \in 1 .. n |-> Unless(clazz.methods[m].code = NoCode)]
  <2>4. times \in Seq({0, 1}) /\ Len(times) = n
    BY <2>3 DEF Unless
  <2>5. \A m \in 1 .. n : times[m] = 1 <=> clazz.methods[m].code # NoCode
    BY DEF Unless
  <2>6. CodeFrees = Frees("code", times)
    BY <2>3 DEF CodeFrees
  <2> HIDE DEF times
  <2>7. Freed(times) = WithCode
    BY <2>2, <2>4, <2>5 DEF Freed, WithCode
  <2> QED BY <2>4, <2>6, <2>7, ListsFrees
<1>6. Lists(ArgumentsFrees, BlocksOf("arguments", 1 .. Len(clazz.bootstrap.methods)))
  <2>1. clazz.bootstrap.methods \in Seq(BootstrapMethod_)
    BY <1>2 DEF ClassFile_, Bootstrap_
  <2>2. PICK n : n = Len(clazz.bootstrap.methods)
    OBVIOUS
  <2>3. n \in Nat /\ \A k \in 1 .. n : Len(clazz.bootstrap.methods[k].arguments) = 1
    BY <2>1, <2>2 DEF OneArgument
  <2> DEFINE times == [k \in 1 .. n |-> Len(clazz.bootstrap.methods[k].arguments)]
  <2>4. times \in Seq({0, 1}) /\ Len(times) = n /\ \A k \in 1 .. n : times[k] = 1
    BY <2>3
  <2>5. ArgumentsFrees = Frees("arguments", times)
    BY <2>2 DEF ArgumentsFrees
  <2> HIDE DEF times
  <2>6. Freed(times) = 1 .. n
    BY <2>4 DEF Freed
  <2> QED BY <2>2, <2>4, <2>5, <2>6, ListsFrees
<1> QED BY <1>3, <1>4, <1>5, <1>6

LEMMA FreeOrderLists ==
  ASSUME ReadingInv, phase = "loaded", OneArgument, AllListed
  PROVE  Lists(FreeOrder, live)
<1> DEFINE C == BlocksOf("constant", Present)
           V == BlocksOf("value", 1 .. Len(clazz.fields))
           M == BlocksOf("code", WithCode)
           A == BlocksOf("arguments", 1 .. Len(clazz.bootstrap.methods))
           P == {<<"pool", 0>>}
           F == {<<"fields", 0>>}
           I == {<<"methods", 0>>, <<"interfaces", 0>>}
           E == {<<"clazz", 0>>, <<"name", 0>>, <<"meta", 0>>}
           B == {<<"bootstrap_methods", 0>>, <<"bootstrap", 0>>}
           Z == IF clazz.bootstrap.found THEN A \cup B ELSE {}
<1>1. /\ OfKinds(C, {"constant"}) /\ OfKinds(V, {"value"}) /\ OfKinds(M, {"code"})
      /\ OfKinds(A, {"arguments"})
  BY DEF OfKinds, BlocksOf
<1>2. /\ Lists(<<<<"pool", 0>>>>, P) /\ OfKinds(P, {"pool"})
      /\ Lists(<<<<"fields", 0>>>>, F) /\ OfKinds(F, {"fields"})
  BY ListsTable
<1>3. /\ Lists(<<<<"methods", 0>>, <<"interfaces", 0>>>>, I) /\ OfKinds(I, {"methods", "interfaces"})
      /\ Lists(<<<<"bootstrap_methods", 0>>, <<"bootstrap", 0>>>>, B)
      /\ OfKinds(B, {"bootstrap_methods", "bootstrap"})
  <2>1. "methods" # "interfaces" /\ "bootstrap_methods" # "bootstrap"
    OBVIOUS
  <2> QED BY <2>1, ListsTables
<1>4. Lists(<<<<"clazz", 0>>, <<"name", 0>>, <<"meta", 0>>>>, E) /\ OfKinds(E, {"clazz", "name", "meta"})
  <2>1. PICK a, b, c : a = <<"clazz", 0>> /\ b = <<"name", 0>> /\ c = <<"meta", 0>>
    OBVIOUS
  <2>2. a # b /\ a # c /\ b # c
    BY <2>1
  <2>3. Lists(<<a, b, c>>, {a, b, c})
    <3>1. /\ <<a, b, c>> \in Seq({a, b, c}) /\ Len(<<a, b, c>>) = 3
          /\ <<a, b, c>>[1] = a /\ <<a, b, c>>[2] = b /\ <<a, b, c>>[3] = c
      OBVIOUS
    <3> QED BY <2>2, <3>1 DEF Lists
  <2>4. OfKinds({a, b, c}, {"clazz", "name", "meta"})
    BY <2>1 DEF OfKinds
  <2> QED BY <2>1, <2>3, <2>4
<1>5. Lists(BootstrapFrees, Z) /\ OfKinds(Z, {"arguments", "bootstrap_methods", "bootstrap"})
  <2>1. CASE clazz.bootstrap.found
    <3>1. BootstrapFrees = ArgumentsFrees \o <<<<"bootstrap_methods", 0>>, <<"bootstrap", 0>>>>
      BY <2>1 DEF BootstrapFrees
    <3>2. Z = A \cup B
      BY <2>1
    <3>3. Lists(ArgumentsFrees, A)
      BY FreesLoaded
    <3>4. {"arguments"} \cap {"bootstrap_methods", "bootstrap"} = {}
      OBVIOUS
    <3>5. {"arguments"} \cup {"bootstrap_methods", "bootstrap"}
          = {"arguments", "bootstrap_methods", "bootstrap"}
      OBVIOUS
    <3> HIDE DEF A, B, Z
    <3>6. /\ Lists(ArgumentsFrees \o <<<<"bootstrap_methods", 0>>, <<"bootstrap", 0>>>>, A \cup B)
          /\ OfKinds(A \cup B, {"arguments"} \cup {"bootstrap_methods", "bootstrap"})
      BY <1>1, <1>3, <3>3, <3>4, ListsKinds
    <3> QED BY <3>1, <3>2, <3>5, <3>6
  <2>2. CASE ~clazz.bootstrap.found
    <3>1. BootstrapFrees = <<>> /\ Z = {}
      BY <2>2 DEF BootstrapFrees
    <3> QED BY <3>1, ListsNothing DEF OfKinds
  <2> QED BY <2>1, <2>2
<1>6. live = C \cup P \cup V \cup F \cup M \cup I \cup Z \cup E
  <2>1. live = Tables("loaded", clazz.bootstrap.found) \cup C \cup V \cup M \cup A
    BY DEF ReadingInv, Held, Kept, Allocated
  <2>2. CASE clazz.bootstrap.found
    <3>1. Tables("loaded", clazz.bootstrap.found) = P \cup F \cup I \cup B \cup E
      BY <2>2 DEF Tables, Table, BeforePool, BeforeInterfaces, BeforeFields, BeforeMethods
    <3>2. Z = A \cup B
      BY <2>2
    <3> HIDE DEF A, B, C, E, F, I, M, P, V, Z
    <3> QED BY <2>1, <3>1, <3>2
  <2>3. CASE ~clazz.bootstrap.found
    <3>1. Tables("loaded", clazz.bootstrap.found) = P \cup F \cup I \cup E
      BY <2>3 DEF Tables, Table, BeforePool, BeforeInterfaces, BeforeFields, BeforeMethods
    <3>2. clazz.bootstrap.methods = <<>>
      BY <2>3 DEF ReadingInv, Phased
    <3>3. A = {} /\ Z = {}
      BY <2>3, <3>2 DEF BlocksOf
    <3> HIDE DEF A, B, C, E, F, I, M, P, V, Z
    <3> QED BY <2>1, <3>1, <3>3
  <2> QED BY <2>2, <2>3
<1>7. Lists(ConstantFrees, C) /\ Lists(ValueFrees, V) /\ Lists(CodeFrees, M)
  BY FreesLoaded
<1> HIDE DEF A, B, C, E, F, I, M, P, V, Z
<1> DEFINE K1 == {"constant"} \cup {"pool"}
           K2 == K1 \cup {"value"}
           K3 == K2 \cup {"fields"}
           K4 == K3 \cup {"code"}
           K5 == K4 \cup {"methods", "interfaces"}
           K6 == K5 \cup {"arguments", "bootstrap_methods", "bootstrap"}
           s1 == ConstantFrees \o <<<<"pool", 0>>>>
           s2 == s1 \o ValueFrees
           s3 == s2 \o <<<<"fields", 0>>>>
           s4 == s3 \o CodeFrees
           s5 == s4 \o <<<<"methods", 0>>, <<"interfaces", 0>>>>
           s6 == s5 \o BootstrapFrees
           S1 == C \cup P
           S2 == S1 \cup V
           S3 == S2 \cup F
           S4 == S3 \cup M
           S5 == S4 \cup I
           S6 == S5 \cup Z
<1>8. /\ {"constant"} \cap {"pool"} = {} /\ K1 \cap {"value"} = {} /\ K2 \cap {"fields"} = {}
      /\ K3 \cap {"code"} = {} /\ K4 \cap {"methods", "interfaces"} = {}
      /\ K5 \cap {"arguments", "bootstrap_methods", "bootstrap"} = {}
      /\ K6 \cap {"clazz", "name", "meta"} = {}
  OBVIOUS
<1>9. FreeOrder = s6 \o <<<<"clazz", 0>>, <<"name", 0>>, <<"meta", 0>>>> /\ live = S6 \cup E
  BY <1>6 DEF FreeOrder
<1>10. Lists(s1, S1) /\ OfKinds(S1, K1)
  BY <1>1, <1>2, <1>7, <1>8, ListsKinds
<1> HIDE DEF s1, S1, K1
<1>11. Lists(s2, S2) /\ OfKinds(S2, K2)
  BY <1>1, <1>7, <1>8, <1>10, ListsKinds
<1> HIDE DEF s2, S2, K2
<1>12. Lists(s3, S3) /\ OfKinds(S3, K3)
  BY <1>2, <1>8, <1>11, ListsKinds
<1> HIDE DEF s3, S3, K3
<1>13. Lists(s4, S4) /\ OfKinds(S4, K4)
  BY <1>1, <1>7, <1>8, <1>12, ListsKinds
<1> HIDE DEF s4, S4, K4
<1>14. Lists(s5, S5) /\ OfKinds(S5, K5)
  BY <1>3, <1>8, <1>13, ListsKinds
<1> HIDE DEF s5, S5, K5
<1>15. Lists(s6, S6) /\ OfKinds(S6, K6)
  BY <1>5, <1>8, <1>14, ListsKinds
<1> HIDE DEF s6, S6, K6
<1>16. Lists(s6 \o <<<<"clazz", 0>>, <<"name", 0>>, <<"meta", 0>>>>, S6 \cup E)
  BY <1>4, <1>8, <1>15, ListsKinds
<1> QED BY <1>9, <1>16

LEMMA free_class_heap_Keeps ==
  ASSUME ReadingInv, free_class_heap
  PROVE  ReadingInv'
<1>1. /\ phase = "loaded" /\ phase' = "freeing" /\ to_free' = FreeOrder
      /\ UNCHANGED <<file, pos, left, attributes, arguments, count, cp, clazz, live>>
  BY DEF free_class_heap
<1>2. phase' \notin Kept /\ phase' \notin Reading
  BY <1>1 DEF Kept, Reading
<1>3. Typed'
  BY <1>1, FreeOrderTyped DEF ReadingInv, Typed
<1>4. Phased'
  BY <1>1, <1>2 DEF ReadingInv, Phased, BeforePool, BeforeInterfaces, BeforeFields, BeforeMethods,
                    BeforeBootstrap, Kept, Loops, Reading
<1>5. Freeing'
  <2>1. SUFFICES ASSUME OneArgument', AllListed'
                 PROVE  Lists(FreeOrder, live)
    BY <1>1 DEF Freeing
  <2>2. OneArgument /\ AllListed
    BY <1>1, <2>1 DEF OneArgument, AllListed, listed
  <2> QED BY <1>1, <2>2, FreeOrderLists
<1> QED BY <1>2, <1>3, <1>4, <1>5 DEF ReadingInv, Held

LEMMA free_Keeps ==
  ASSUME ReadingInv, free
  PROVE  ReadingInv'
<1>1. /\ phase = "freeing" /\ to_free # <<>>
      /\ IF Head(to_free) \in live
         THEN live' = live \ {Head(to_free)} /\ to_free' = Tail(to_free) /\ UNCHANGED phase
         ELSE phase' = "undefined" /\ UNCHANGED <<live, to_free>>
      /\ UNCHANGED <<file, pos, left, attributes, arguments, count, cp, clazz>>
  BY DEF free
<1>2. phase' \in {"freeing", "undefined"}
  BY <1>1
<1>3. phase' \notin Kept /\ phase' \notin Reading
  BY <1>2 DEF Kept, Reading
<1>4. Typed'
  <2>1. to_free \in Seq(Blocks) /\ live \in SUBSET Blocks
    BY DEF ReadingInv, Typed
  <2>2. Tail(to_free) \in Seq(Blocks)
    BY <1>1, <2>1, HeadTailProperties
  <2>3. to_free' \in Seq(Blocks) /\ live' \in SUBSET Blocks
    BY <1>1, <2>1, <2>2
  <2> QED BY <1>1, <1>2, <2>3 DEF ReadingInv, Typed, Ended
<1>5. Phased'
  BY <1>1, <1>2, <1>3 DEF ReadingInv, Phased, BeforePool, BeforeInterfaces, BeforeFields,
     BeforeMethods, BeforeBootstrap, Kept, Loops, Reading
<1>6. Freeing'
  <2>1. SUFFICES ASSUME OneArgument', AllListed'
                 PROVE  /\ phase' \in {"freeing", "freed"} => Lists(to_free', live')
                        /\ phase' # "freeing" => to_free' = <<>>
    BY DEF Freeing
  <2>2. OneArgument /\ AllListed
    BY <1>1, <2>1 DEF OneArgument, AllListed, listed
  <2>3. Lists(to_free, live)
    BY <1>1, <2>2 DEF ReadingInv, Freeing
  <2>4. Head(to_free) \in live /\ Lists(Tail(to_free), live \ {Head(to_free)})
    BY <1>1, <2>3, ListsTail
  <2> QED BY <1>1, <2>4
<1> QED BY <1>3, <1>4, <1>5, <1>6 DEF ReadingInv, Held

LEMMA all_freed_Keeps ==
  ASSUME ReadingInv, all_freed
  PROVE  ReadingInv'
<1>1. /\ phase = "freeing" /\ to_free = <<>> /\ phase' = "freed"
      /\ UNCHANGED <<file, pos, left, attributes, arguments, count, cp, clazz, live, to_free>>
  BY DEF all_freed, Halt
<1>2. phase' \notin Kept /\ phase' \notin Reading
  BY <1>1 DEF Kept, Reading
<1>3. Typed'
  BY <1>1 DEF ReadingInv, Typed, Ended
<1>4. Phased'
  BY <1>1, <1>2 DEF ReadingInv, Phased, BeforePool, BeforeInterfaces, BeforeFields, BeforeMethods,
                    BeforeBootstrap, Kept, Loops, Reading
<1>5. Freeing'
  <2>1. SUFFICES ASSUME OneArgument', AllListed'
                 PROVE  Lists(to_free', live')
    BY <1>1 DEF Freeing
  <2>2. OneArgument /\ AllListed
    BY <1>1, <2>1 DEF OneArgument, AllListed, listed
  <2>3. Lists(to_free, live)
    BY <1>1, <2>2 DEF ReadingInv, Freeing
  <2> QED BY <1>1, <2>3
<1> QED BY <1>2, <1>3, <1>4, <1>5 DEF ReadingInv, Held

LEMMA halts_Keep ==
  ASSUME ReadingInv,
         unknown_constant \/ long_in_last_slot \/ assertion_fails \/ no_text \/ premature_end
  PROVE  ReadingInv'
<1>1. CASE unknown_constant
  <2>1. phase \in Reading /\ Halt("error_exit")
    BY <1>1 DEF unknown_constant, In, Reading
  <2> QED BY <2>1, Halted
<1>2. CASE long_in_last_slot
  <2>1. phase \in Reading /\ Halt("undefined")
    BY <1>2 DEF long_in_last_slot, In, Reading
  <2> QED BY <2>1, Halted
<1>3. CASE assertion_fails
  <2>1. phase \in Reading /\ Halt("abort")
    BY <1>3 DEF assertion_fails, In, Reading
  <2> QED BY <2>1, Halted
<1>4. CASE no_text
  <2>1. phase \in Reading /\ Halt("undefined")
    BY <1>4 DEF no_text, In, Reading
  <2> QED BY <2>1, Halted
<1>5. CASE premature_end
  <2>1. phase \in Reading /\ Halt("abort")
    BY <1>5 DEF premature_end
  <2> QED BY <2>1, Halted
<1> QED BY <1>1, <1>2, <1>3, <1>4, <1>5

LEMMA Stutter ==
  ASSUME ReadingInv, UNCHANGED vars
  PROVE  ReadingInv'
<1>1. UNCHANGED <<file, phase, pos, left, attributes, arguments, count, cp, clazz, live, to_free>>
  BY DEF vars
<1>2. Typed' /\ Phased'
  BY <1>1 DEF ReadingInv, Typed, Phased
<1>3. Held'
  <2>1. Present' = Present /\ WithCode' = WithCode
    BY <1>1 DEF Present, WithCode
  <2>2. Allocated' = Allocated
    BY <1>1, <2>1 DEF Allocated
  <2> QED BY <1>1, <2>2 DEF ReadingInv, Held
<1>4. Freeing'
  <2>1. OneArgument' = OneArgument /\ AllListed' = AllListed
    BY <1>1 DEF OneArgument, AllListed, listed
  <2> QED BY <1>1, <2>1 DEF ReadingInv, Freeing
<1> QED BY <1>2, <1>3, <1>4 DEF ReadingInv

-----------------------------------------------------------------------------
LEMMA ReadingInvInit == Init => ReadingInv
<1> SUFFICES ASSUME Init PROVE ReadingInv
  OBVIOUS
<1>1. /\ file \in Files /\ phase = "header" /\ pos = 0 /\ left = 0 /\ attributes = 0
      /\ arguments = 0 /\ count = 0 /\ cp = <<>> /\ live = {} /\ to_free = <<>>
      /\ clazz.fields = <<>> /\ clazz.methods = <<>> /\ clazz.bootstrap.found = FALSE
      /\ clazz.bootstrap.methods = <<>>
  BY DEF Init
<1>2. Typed
  <2>1. clazz \in ClassFile_
    <3>1. [found |-> FALSE, methods |-> <<>>] \in Bootstrap_
      BY DEF Bootstrap_
    <3> QED BY <3>1 DEF Init, ClassFile_
  <2>2. phase \in Reading /\ count \in 0 .. Word - 1
    BY <1>1, WordNat DEF Reading
  <2>3. cp \in Seq(Constant_) /\ Len(cp) = 0 /\ to_free \in Seq(Blocks)
    BY <1>1
  <2> QED BY <1>1, <2>1, <2>2, <2>3 DEF Typed
<1>3. Phased
  BY <1>1 DEF Phased, BeforePool, BeforeInterfaces, BeforeFields, BeforeMethods, BeforeBootstrap,
              Kept, Loops, Reading
<1>4. Held
  <2>1. Tables(phase, clazz.bootstrap.found) = {}
    BY <1>1 DEF Tables, Table, BeforePool, BeforeInterfaces, BeforeFields, BeforeMethods
  <2>2. Present = {} /\ WithCode = {}
    BY <1>1 DEF Present, WithCode
  <2> QED BY <1>1, <2>1, <2>2 DEF Held, Allocated, BlocksOf
<1>5. Freeing
  BY <1>1 DEF Freeing
<1> QED BY <1>2, <1>3, <1>4, <1>5 DEF ReadingInv

LEMMA ReadingInvStep == ReadingInv /\ [Step \/ ended]_vars => ReadingInv'
<1> SUFFICES ASSUME ReadingInv, [Step \/ ended]_vars PROVE ReadingInv'
  OBVIOUS
<1>1. CASE get_class
  BY <1>1, get_class_header_Keeps, get_constant_pool_Keeps, read_constant_Keeps,
     get_class_info_Keeps, get_interface_Keeps, read_interface_Keeps, get_fields_Keeps,
     read_field_Keeps, read_field_attributes_Keeps, get_methods_Keeps, read_method_Keeps,
     read_method_attributes_Keeps, read_bootstrap_attribute_Keeps, skip_class_attribute_Keeps,
     enter_bootstrap_methods_Keeps, num_bootstrap_methods_Keeps, read_bootstrap_method_Keeps,
     read_bootstrap_argument_Keeps, halts_Keep
  DEF get_class
<1>2. CASE add_class \/ free_class_heap \/ free \/ all_freed
  BY <1>2, add_class_Keeps, free_class_heap_Keeps, free_Keeps, all_freed_Keeps
<1>3. CASE ended \/ UNCHANGED vars
  BY <1>3, Stutter DEF ended
<1> QED BY <1>1, <1>2, <1>3 DEF Step

LEMMA ReadingInvHolds == Spec => []ReadingInv
<1> QED BY ReadingInvInit, ReadingInvStep, PTL DEF Spec

\* What get_class() has read has the types of java_file.h, and the constants it
\* has are never more than constant_pool_count says.
THEOREM ReaderTypeOK == Spec => []TypeOK
<1>1. ReadingInv => TypeOK
  <2> SUFFICES ASSUME Typed PROVE TypeOK
    BY DEF ReadingInv
  <2>1. ASSUME NEW i \in 1 .. Len(cp)
        PROVE  cp[i].tag \in Tags \cup JunkTags
    <3>1. cp[i] \in Constant_
      BY ElementOfSeq DEF Typed
    <3> QED BY <3>1 DEF Constant_
  <2>2. \A i \in 1 .. Len(to_free) : to_free[i] \in Blocks
    BY ElementOfSeq DEF Typed
  <2>3. {pos, left, attributes, arguments, count} \subseteq Nat /\ count < Word
    BY WordNat DEF Typed
  <2> QED BY <2>1, <2>2, <2>3 DEF Typed, TypeOK
<1> QED BY <1>1, ReadingInvHolds, PTL

\* free_class_heap() frees what get_class() and add_class() allocated for a
\* class, each block once, whatever the file says, if every bootstrap method has
\* one argument and the list of methods does not end early.
THEOREM FreedOnceHolds == Spec => []FreedOnce
<1>1. ReadingInv => FreedOnce
  <2> SUFFICES ASSUME ReadingInv, OneArgument, AllListed
               PROVE  /\ to_free # <<>> => Head(to_free) \in live
                      /\ phase = "freed" => live = {}
    BY DEF FreedOnce
  <2>1. ASSUME to_free # <<>>
        PROVE  Head(to_free) \in live
    <3>1. phase = "freeing" /\ Lists(to_free, live)
      BY <2>1 DEF ReadingInv, Freeing
    <3> QED BY <2>1, <3>1, ListsTail
  <2>2. ASSUME phase = "freed"
        PROVE  live = {}
    <3>1. to_free = <<>> /\ Lists(to_free, live)
      BY <2>2 DEF ReadingInv, Freeing
    <3>2. 1 .. Len(to_free) = {}
      BY <3>1
    <3> QED BY <3>1, <3>2 DEF Lists
  <2> QED BY <2>1, <2>2
<1> QED BY <1>1, ReadingInvHolds, PTL
=============================================================================

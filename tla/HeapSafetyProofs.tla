-------------------------- MODULE HeapSafetyProofs --------------------------
(***************************************************************************)
(* The memory of Java objects, for all verified programs: every block has  *)
(* exactly one owner (OwnedInv), and no reference is stray as long as no   *)
(* static reference field is read before it is assigned (PointersInv).     *)
(* Both are inductive on top of SafeInv, the invariant of TypeSafetyProofs.*)
(***************************************************************************)
EXTENDS HeapSafety, TypeSafetyProofs

USE DEF heaps, control

-----------------------------------------------------------------------------
\* o is what frees block p: an entry of the object heap, or a row of an array.
Frees(o, p) ==
    \/ \E i \in 1 .. Len(object_heap) : o = <<"heap", i>> /\ object_heap[i] = p
    \/ \E q \in 1 .. Len(memory) : \E i \in DOMAIN memory[q].cells :
         /\ o = <<"row", q, i>>
         /\ memory[q].kind = "int[][]" /\ memory[q].cells[i] = p

OwnedBy(o, p) == Frees(o, p) /\ \A o2 : Frees(o2, p) => o2 = o

OwnedInv ==
    /\ IsSequence(object_heap)
    /\ \A i \in 1 .. Len(object_heap) : object_heap[i] \in 0 .. Len(memory)
    /\ \A q \in 1 .. Len(memory) :
         memory[q].kind = "int[][]" =>
           \A i \in DOMAIN memory[q].cells : memory[q].cells[i] \in 0 .. Len(memory)
    /\ \A p \in 1 .. Len(memory) : \E o : OwnedBy(o, p)

\* Owners, member by member.
LEMMA OwnersAre ==
  ASSUME NEW p, NEW o
  PROVE  o \in Owners(p) <=> Frees(o, p)
<1>1. o \in UNION {{<<"row", q, i>> : i \in RowsOf(q, p)} : q \in 1 .. Len(memory)}
        <=> \E q \in 1 .. Len(memory) : \E i \in DOMAIN memory[q].cells :
              /\ o = <<"row", q, i>>
              /\ memory[q].kind = "int[][]" /\ memory[q].cells[i] = p
  BY DEF RowsOf
<1> QED BY <1>1 DEF Owners, Frees

\* A string is freed with an object only if the program assigns one to the first
\* field of a class.
LEMMA FreedWithFirst ==
  ASSUME SafeInv, NEW q, StringsFreedWith(q) # {}
  PROVE  StringsFirst
<1>1. Points(q, "object")
  BY DEF StringsFreedWith
<1>2. PICK b, f : b = memory[q] /\ f = Class(b.clazz).first
  OBVIOUS
<1>3. f \in DOMAIN b.cells /\ b.cells[f].type = "STR_PTR"
  BY <1>2 DEF StringsFreedWith, FirstField
<1>4. BlockTypeOK(b) /\ b.kind = "object"
  BY <1>1, <1>2 DEF Points, SafeInv, HeapsOK
<1>5. b.clazz \in DOMAIN prog.classes /\ TakesString(f)
  BY <1>3, <1>4 DEF BlockTypeOK
<1> QED BY <1>2, <1>5 DEF StringsFirst

LEMMA OwnedInvImplies ==
  ASSUME SafeInv, OwnedInv
  PROVE  OwnedOnce
<1>1. ASSUME NEW p \in 1 .. Len(memory)
      PROVE  Cardinality(Owners(p)) = 1
  <2>1. PICK o : OwnedBy(o, p)
    BY DEF OwnedInv
  <2>2. Owners(p) = {o}
    BY <2>1, OwnersAre DEF OwnedBy
  <2> QED BY <2>2, FS_Singleton
<1>2. ASSUME ~StringsFirst, NEW p \in 1 .. Len(memory)
      PROVE  Freeings(p) = Owners(p)
  <2>1. \A q : StringsFreedWith(q) = {}
    BY <1>2, FreedWithFirst
  <2>2. {j \in 1 .. Len(object_heap) : p \in StringsFreedWith(object_heap[j])} = {}
    BY <2>1
  <2> QED BY <2>2 DEF Freeings
<1> QED BY <1>1, <1>2 DEF OwnedOnce

-----------------------------------------------------------------------------
\* The heap grows: what was there stays as it was, but for the content of
\* blocks that are not arrays of arrays, and what is new refers to new blocks.
Grows ==
    /\ IsSequence(memory) /\ IsSequence(memory)' /\ IsSequence(object_heap)'
    /\ Len(memory) <= Len(memory') /\ Len(object_heap) <= Len(object_heap')
    /\ \A p \in 1 .. Len(memory) :
         /\ memory'[p].kind = memory[p].kind
         /\ memory[p].kind = "int[][]" => memory'[p].cells = memory[p].cells
    /\ \A i \in 1 .. Len(object_heap) : object_heap'[i] = object_heap[i]

Fresh(p) == p \in Nat /\ Len(memory) < p /\ p <= Len(memory')

LEMMA GrowthOwned ==
  ASSUME OwnedInv, Grows,
         \A i \in 1 .. Len(object_heap') : i > Len(object_heap) =>
           object_heap'[i] = NULL \/ Fresh(object_heap'[i]),
         \A q : Fresh(q) /\ memory'[q].kind = "int[][]" =>
           \A i \in DOMAIN memory'[q].cells : memory'[q].cells[i] = NULL \/ Fresh(memory'[q].cells[i]),
         \A p : Fresh(p) => \E o : OwnedBy(o, p)'
  PROVE  OwnedInv'
<1>1. /\ Len(memory) \in Nat /\ Len(memory') \in Nat
      /\ Len(object_heap) \in Nat /\ Len(object_heap') \in Nat
  BY DEF Grows, IsSequence, OwnedInv
<1>2. ASSUME NEW i \in 1 .. Len(object_heap')
      PROVE  object_heap'[i] \in 0 .. Len(memory')
  <2>1. CASE i \in 1 .. Len(object_heap)
    BY <1>1, <2>1 DEF OwnedInv, Grows
  <2>2. CASE i \notin 1 .. Len(object_heap)
    BY <1>1, <2>2 DEF Fresh, NULL
  <2> QED BY <2>1, <2>2
<1>3. ASSUME NEW q \in 1 .. Len(memory'), memory'[q].kind = "int[][]",
             NEW i \in DOMAIN memory'[q].cells
      PROVE  memory'[q].cells[i] \in 0 .. Len(memory')
  <2>1. CASE q \in 1 .. Len(memory)
    BY <1>1, <1>3, <2>1 DEF OwnedInv, Grows
  <2>2. CASE q \notin 1 .. Len(memory)
    <3>1. Fresh(q)
      BY <1>1, <2>2 DEF Fresh
    <3> QED BY <1>1, <1>3, <3>1 DEF Fresh, NULL
  <2> QED BY <2>1, <2>2
<1>4. ASSUME NEW p \in 1 .. Len(memory), NEW o
      PROVE  Frees(o, p)' <=> Frees(o, p)
  <2>1. ~Fresh(p) /\ p # NULL
    BY <1>1 DEF Fresh, NULL
  <2>2. (\E i \in 1 .. Len(object_heap') : o = <<"heap", i>> /\ object_heap'[i] = p)
        <=> (\E i \in 1 .. Len(object_heap) : o = <<"heap", i>> /\ object_heap[i] = p)
    <3>1. ASSUME NEW i \in 1 .. Len(object_heap'), object_heap'[i] = p
          PROVE  i \in 1 .. Len(object_heap) /\ object_heap[i] = p
      BY <1>1, <2>1, <3>1 DEF Grows
    <3>2. ASSUME NEW i \in 1 .. Len(object_heap), object_heap[i] = p
          PROVE  i \in 1 .. Len(object_heap') /\ object_heap'[i] = p
      BY <1>1, <3>2 DEF Grows
    <3> QED BY <3>1, <3>2
  <2>3. (\E q \in 1 .. Len(memory') : \E i \in DOMAIN memory'[q].cells :
           o = <<"row", q, i>> /\ memory'[q].kind = "int[][]" /\ memory'[q].cells[i] = p)
        <=> (\E q \in 1 .. Len(memory) : \E i \in DOMAIN memory[q].cells :
               o = <<"row", q, i>> /\ memory[q].kind = "int[][]" /\ memory[q].cells[i] = p)
    <3>1. ASSUME NEW q \in 1 .. Len(memory'), NEW i \in DOMAIN memory'[q].cells,
                 memory'[q].kind = "int[][]", memory'[q].cells[i] = p
          PROVE  /\ q \in 1 .. Len(memory) /\ i \in DOMAIN memory[q].cells
                 /\ memory[q].kind = "int[][]" /\ memory[q].cells[i] = p
      <4>1. q \in 1 .. Len(memory)
        <5>1. ~Fresh(q)
          BY <2>1, <3>1
        <5> QED BY <1>1, <5>1 DEF Fresh
      <4> QED BY <3>1, <4>1 DEF Grows
    <3>2. ASSUME NEW q \in 1 .. Len(memory), NEW i \in DOMAIN memory[q].cells,
                 memory[q].kind = "int[][]", memory[q].cells[i] = p
          PROVE  /\ q \in 1 .. Len(memory') /\ i \in DOMAIN memory'[q].cells
                 /\ memory'[q].kind = "int[][]" /\ memory'[q].cells[i] = p
      BY <1>1, <3>2 DEF Grows
    <3> QED BY <3>1, <3>2
  <2> QED BY <2>2, <2>3 DEF Frees
<1>5. ASSUME NEW p \in 1 .. Len(memory')
      PROVE  \E o : OwnedBy(o, p)'
  <2>1. CASE p \in 1 .. Len(memory)
    <3>1. PICK o : OwnedBy(o, p)
      BY <2>1 DEF OwnedInv
    <3>2. Frees(o, p)' /\ \A o2 : Frees(o2, p)' => o2 = o
      BY <1>4, <2>1, <3>1 DEF OwnedBy
    <3>3. OwnedBy(o, p)'
      BY <3>2 DEF OwnedBy
    <3> QED BY <3>3
  <2>2. CASE p \notin 1 .. Len(memory)
    <3>1. Fresh(p)
      BY <1>1, <2>2 DEF Fresh
    <3> QED BY <3>1
  <2> QED BY <2>1, <2>2
<1> QED BY <1>2, <1>3, <1>5 DEF OwnedInv, Grows

\* Nothing is allocated or registered.
LEMMA ContentOwned ==
  ASSUME OwnedInv, IsSequence(memory), IsSequence(memory'), UNCHANGED object_heap,
         Len(memory') = Len(memory),
         \A p \in 1 .. Len(memory) :
           /\ memory'[p].kind = memory[p].kind
           /\ memory[p].kind = "int[][]" => memory'[p].cells = memory[p].cells
  PROVE  OwnedInv'
<1>1. Len(memory) \in Nat /\ Len(object_heap) \in Nat
  BY DEF IsSequence, OwnedInv
<1>2. \A p : ~Fresh(p)
  BY <1>1 DEF Fresh
<1>3. Grows
  BY <1>1 DEF Grows, OwnedInv
<1> QED BY <1>1, <1>2, <1>3, GrowthOwned

LEMMA SameOwned ==
  ASSUME SafeInv, OwnedInv, UNCHANGED <<memory, object_heap>>
  PROVE  OwnedInv'
BY ContentOwned DEF SafeInv, HeapsOK

\* malloc() has failed, and its NULL is registered.
LEMMA NullOwned ==
  ASSUME SafeInv, OwnedInv, object_heap' = Append(object_heap, NULL), UNCHANGED memory
  PROVE  OwnedInv'
<1>1. /\ IsSequence(memory) /\ Len(memory) \in Nat
      /\ IsSequence(object_heap') /\ Len(object_heap) \in Nat /\ Len(object_heap') = Len(object_heap) + 1
      /\ \A i \in 1 .. Len(object_heap) : object_heap'[i] = object_heap[i]
      /\ object_heap'[Len(object_heap) + 1] = NULL
  BY AppendElements DEF SafeInv, HeapsOK, IsSequence, OwnedInv
<1>2. \A p : ~Fresh(p)
  BY <1>1 DEF Fresh
<1>3. Grows
  BY <1>1 DEF Grows
<1>4. \A i \in 1 .. Len(object_heap') : i > Len(object_heap) => object_heap'[i] = NULL
  BY <1>1
<1> QED BY <1>2, <1>3, <1>4, GrowthOwned

\* New blocks, each of them registered and none an array of arrays.
LEMMA RegisteredOwned ==
  ASSUME SafeInv, OwnedInv, NEW blocks, IsSequence(blocks), memory' = memory \o blocks,
         \A i \in 1 .. Len(blocks) : blocks[i].kind # "int[][]",
         IsSequence(object_heap'), Len(object_heap') = Len(object_heap) + Len(blocks),
         \A i \in 1 .. Len(object_heap) : object_heap'[i] = object_heap[i],
         \A i \in 1 .. Len(blocks) : object_heap'[Len(object_heap) + i] = Len(memory) + i
  PROVE  OwnedInv'
<1>1. /\ IsSequence(memory) /\ IsSequence(memory')
      /\ Len(memory) \in Nat /\ Len(blocks) \in Nat /\ Len(memory') = Len(memory) + Len(blocks)
      /\ \A i \in 1 .. Len(memory) : memory'[i] = memory[i]
      /\ \A i \in 1 .. Len(blocks) : memory'[Len(memory) + i] = blocks[i]
  <2>1. IsSequence(memory)
    BY DEF SafeInv, HeapsOK
  <2>2. Joined(memory, blocks, memory')
    BY <2>1, Join
  <2> QED BY <2>1, <2>2 DEF Joined
<1>2. Len(object_heap) \in Nat
  BY DEF OwnedInv, IsSequence
<1>3. Grows
  BY <1>1, <1>2 DEF Grows
<1>4. ASSUME NEW i \in 1 .. Len(object_heap'), i > Len(object_heap)
      PROVE  object_heap'[i] = Len(memory) + (i - Len(object_heap)) /\ Fresh(object_heap'[i])
  <2>1. i - Len(object_heap) \in 1 .. Len(blocks) /\ i = Len(object_heap) + (i - Len(object_heap))
    BY <1>1, <1>2, <1>4
  <2>2. object_heap'[i] = Len(memory) + (i - Len(object_heap))
    BY <1>2, <2>1
  <2> QED BY <1>1, <2>1, <2>2 DEF Fresh
<1>5. ASSUME NEW q, Fresh(q)
      PROVE  memory'[q].kind # "int[][]"
  <2>1. q - Len(memory) \in 1 .. Len(blocks) /\ q = Len(memory) + (q - Len(memory))
    BY <1>1, <1>5 DEF Fresh
  <2> QED BY <1>1, <2>1
<1>6. ASSUME NEW p, Fresh(p)
      PROVE  \E o : OwnedBy(o, p)'
  <2>5. PICK i : i = Len(object_heap) + (p - Len(memory))
    OBVIOUS
  <2>1. /\ p - Len(memory) \in 1 .. Len(blocks) /\ p = Len(memory) + (p - Len(memory))
        /\ p \in Nat /\ p # NULL
    BY <1>1, <1>6 DEF Fresh, NULL
  <2>2. i \in 1 .. Len(object_heap') /\ object_heap'[i] = p
    BY <1>1, <1>2, <2>1, <2>5
  <2>3. Frees(<<"heap", i>>, p)'
    BY <2>2 DEF Frees
  <2>4. ASSUME NEW o2, Frees(o2, p)'
        PROVE  o2 = <<"heap", i>>
    <3>1. CASE \E j \in 1 .. Len(object_heap') : o2 = <<"heap", j>> /\ object_heap'[j] = p
      <4>1. PICK j \in 1 .. Len(object_heap') : o2 = <<"heap", j>> /\ object_heap'[j] = p
        BY <3>1
      <4>2. j > Len(object_heap)
        <5>1. CASE j \in 1 .. Len(object_heap)
          BY <1>1, <1>2, <1>6, <4>1, <5>1 DEF OwnedInv, Fresh
        <5> QED BY <1>2, <5>1
      <4>3. p = Len(memory) + (j - Len(object_heap))
        BY <1>4, <4>1, <4>2
      <4>4. j = i
        BY <1>1, <1>2, <2>1, <2>5, <4>3
      <4> QED BY <4>1, <4>4
    <3>2. CASE \E q \in 1 .. Len(memory') : \E k \in DOMAIN memory'[q].cells :
                 /\ o2 = <<"row", q, k>>
                 /\ memory'[q].kind = "int[][]" /\ memory'[q].cells[k] = p
      <4>1. PICK q \in 1 .. Len(memory') :
              memory'[q].kind = "int[][]" /\ \E k \in DOMAIN memory'[q].cells : memory'[q].cells[k] = p
        BY <3>2
      <4>2. q \in 1 .. Len(memory)
        BY <1>1, <1>5, <4>1 DEF Fresh
      <4> QED BY <1>1, <1>6, <4>1, <4>2 DEF OwnedInv, Fresh
    <3> QED BY <2>4, <3>1, <3>2 DEF Frees
  <2> QED BY <2>3, <2>4 DEF OwnedBy
<1> QED BY <1>3, <1>4, <1>5, <1>6, GrowthOwned

\* create_object, create_array and create_string.
LEMMA BlockOwned ==
  ASSUME SafeInv, OwnedInv, NEW block, Allocate(<<block>>), block.kind # "int[][]"
  PROVE  OwnedInv'
<1>1. IsSequence(<<block>>) /\ Len(<<block>>) = 1 /\ <<block>>[1] = block
  <2>1. <<block>> \in Seq({block})
    OBVIOUS
  <2> QED BY <2>1, SequenceOfSet
<1>2. PICK blocks : blocks = <<block>>
  OBVIOUS
<1>3. memory' = memory \o blocks /\ object_heap' = Append(object_heap, Len(memory) + 1)
  BY <1>1, <1>2 DEF Allocate
<1>4. /\ IsSequence(object_heap') /\ Len(object_heap') = Len(object_heap) + 1
      /\ \A i \in 1 .. Len(object_heap) : object_heap'[i] = object_heap[i]
      /\ object_heap'[Len(object_heap) + 1] = Len(memory) + 1
  BY <1>3, AppendElements DEF OwnedInv
<1>5. IsSequence(blocks) /\ Len(blocks) = 1 /\ blocks[1] = block
  BY <1>1, <1>2
<1>6. \A i \in 1 .. Len(blocks) :
        /\ blocks[i].kind # "int[][]"
        /\ object_heap'[Len(object_heap) + i] = Len(memory) + i
  BY <1>4, <1>5
<1> QED BY <1>3, <1>4, <1>5, <1>6, RegisteredOwned

\* create_two_dimension_array: the rows belong to the array, which is registered.
LEMMA TableOwned ==
  ASSUME SafeInv, OwnedInv, NEW x \in Nat, NEW height \in {0, x}, NEW last,
         last = Len(memory) + height + 1,
         IsSequence(memory'), Len(memory') = last,
         \A p \in 1 .. Len(memory) : memory'[p] = memory[p],
         \A j \in 1 .. height : memory'[Len(memory) + j].kind = "int[]",
         memory'[last].kind = "int[][]",
         memory'[last].cells = [i \in 0 .. x - 1 |-> IF height = 0 THEN NULL ELSE Len(memory) + 1 + i],
         object_heap' = Append(object_heap, last)
  PROVE  OwnedInv'
<1>1. IsSequence(memory) /\ Len(memory) \in Nat /\ height \in Nat /\ last \in Nat
  BY DEF SafeInv, HeapsOK, IsSequence
<1>2. /\ IsSequence(object_heap') /\ Len(object_heap) \in Nat
      /\ Len(object_heap') = Len(object_heap) + 1
      /\ \A i \in 1 .. Len(object_heap) : object_heap'[i] = object_heap[i]
      /\ object_heap'[Len(object_heap) + 1] = last
  BY AppendElements DEF OwnedInv
<1>3. Grows
  BY <1>1, <1>2 DEF Grows
<1>4. ASSUME NEW i \in 1 .. Len(object_heap'), i > Len(object_heap)
      PROVE  i = Len(object_heap) + 1 /\ object_heap'[i] = last
  BY <1>2, <1>4
<1>5. ASSUME NEW q, Fresh(q), q # last
      PROVE  memory'[q].kind = "int[]"
  <2>1. q - Len(memory) \in 1 .. height /\ q = Len(memory) + (q - Len(memory))
    BY <1>1, <1>5 DEF Fresh
  <2> QED BY <2>1
<1>6. \A i \in DOMAIN memory'[last].cells :
        /\ i \in 0 .. x - 1
        /\ memory'[last].cells[i] = IF height = 0 THEN NULL ELSE Len(memory) + 1 + i
  OBVIOUS
<1>7. ASSUME NEW i \in DOMAIN memory'[last].cells
      PROVE  memory'[last].cells[i] = NULL \/ (Fresh(memory'[last].cells[i]) /\ memory'[last].cells[i] # last)
  <2>1. CASE height = 0
    BY <1>6, <2>1
  <2>2. CASE height # 0
    <3>1. memory'[last].cells[i] = Len(memory) + 1 + i /\ height = x /\ i \in 0 .. x - 1
      BY <1>6, <2>2
    <3>2. Len(memory) + 1 + i \in Nat /\ Len(memory) < Len(memory) + 1 + i /\ Len(memory) + 1 + i < last
      BY <1>1, <3>1
    <3> QED BY <1>1, <3>1, <3>2 DEF Fresh
  <2> QED BY <2>1, <2>2
<1>8. ASSUME NEW p, Fresh(p), NEW o, Frees(o, p)'
      PROVE  \/ p = last /\ o = <<"heap", Len(object_heap) + 1>>
             \/ p # last /\ o = <<"row", last, p - (Len(memory) + 1)>>
  <2>1. p \in Nat /\ p > Len(memory) /\ p # NULL
    BY <1>1, <1>8 DEF Fresh, NULL
  <2>2. CASE \E j \in 1 .. Len(object_heap') : o = <<"heap", j>> /\ object_heap'[j] = p
    <3>1. PICK j \in 1 .. Len(object_heap') : o = <<"heap", j>> /\ object_heap'[j] = p
      BY <2>2
    <3>2. CASE j \in 1 .. Len(object_heap)
      BY <1>1, <1>2, <2>1, <3>1, <3>2 DEF OwnedInv
    <3>3. CASE j = Len(object_heap) + 1
      BY <1>2, <3>1, <3>3
    <3> QED BY <1>2, <3>2, <3>3
  <2>3. CASE \E q \in 1 .. Len(memory') : \E k \in DOMAIN memory'[q].cells :
               o = <<"row", q, k>> /\ memory'[q].kind = "int[][]" /\ memory'[q].cells[k] = p
    <3>1. PICK q \in 1 .. Len(memory') : \E k \in DOMAIN memory'[q].cells :
            o = <<"row", q, k>> /\ memory'[q].kind = "int[][]" /\ memory'[q].cells[k] = p
      BY <2>3
    <3>2. PICK k \in DOMAIN memory'[q].cells :
            o = <<"row", q, k>> /\ memory'[q].kind = "int[][]" /\ memory'[q].cells[k] = p
      BY <3>1
    <3>3. CASE q \in 1 .. Len(memory)
      BY <1>1, <2>1, <3>2, <3>3 DEF OwnedInv
    <3>4. CASE q \notin 1 .. Len(memory)
      <4>1. Fresh(q)
        BY <1>1, <3>4 DEF Fresh
      <4>2. q = last
        BY <1>5, <3>2, <4>1
      <4>3. p # last
        BY <1>7, <2>1, <3>2, <4>2
      <4>4. k \in 0 .. x - 1 /\ p = Len(memory) + 1 + k
        BY <1>6, <2>1, <3>2, <4>2
      <4>5. k = p - (Len(memory) + 1)
        BY <1>1, <4>4
      <4> QED BY <3>2, <4>2, <4>3, <4>5
    <3> QED BY <3>3, <3>4
  <2> QED BY <1>8, <2>2, <2>3 DEF Frees
<1>9. ASSUME NEW p, Fresh(p)
      PROVE  \E o : OwnedBy(o, p)'
  <2>1. CASE p = last
    <3>1. PICK i : i = Len(object_heap) + 1
      OBVIOUS
    <3>2. i \in 1 .. Len(object_heap') /\ object_heap'[i] = p
      BY <1>2, <2>1, <3>1
    <3>3. Frees(<<"heap", i>>, p)'
      BY <3>2 DEF Frees
    <3>4. OwnedBy(<<"heap", i>>, p)'
      BY <1>8, <1>9, <2>1, <3>1, <3>3 DEF OwnedBy
    <3> QED BY <3>4
  <2>2. CASE p # last
    <3>1. PICK k : k = p - (Len(memory) + 1)
      OBVIOUS
    <3>2. k \in 0 .. height - 1 /\ p = Len(memory) + 1 + k
      BY <1>1, <1>9, <2>2, <3>1 DEF Fresh
    <3>3. height = x /\ height # 0
      BY <1>1, <3>2
    <3>4. k \in DOMAIN memory'[last].cells /\ memory'[last].cells[k] = p
      BY <3>2, <3>3
    <3>5. last \in 1 .. Len(memory')
      BY <1>1
    <3>6. Frees(<<"row", last, k>>, p)'
      BY <3>4, <3>5 DEF Frees
    <3>7. OwnedBy(<<"row", last, k>>, p)'
      BY <1>8, <1>9, <2>2, <3>1, <3>6 DEF OwnedBy
    <3> QED BY <3>7
  <2> QED BY <2>1, <2>2
<1>10. \A i \in 1 .. Len(object_heap') : i > Len(object_heap) => Fresh(object_heap'[i])
  BY <1>1, <1>4 DEF Fresh
<1>11. \A q : Fresh(q) /\ memory'[q].kind = "int[][]" =>
          \A i \in DOMAIN memory'[q].cells : memory'[q].cells[i] = NULL \/ Fresh(memory'[q].cells[i])
  BY <1>5, <1>7
<1> QED BY <1>3, <1>9, <1>10, <1>11, GrowthOwned

-----------------------------------------------------------------------------
\* The steps that leave the memory and the object heap alone.
LEMMA QuietMain ==
  ASSUME main
  PROVE  UNCHANGED <<memory, object_heap>>
BY DEF main, native_clinit, add_main_class, call_main, shutdown, add_class, Crash

LEMMA SwitchStep ==
  ASSUME tableswitch
  PROVE  /\ status = "run" /\ ins.op = "tableswitch"
         /\ (\E len : Advance(drop(opst, 1), len)) \/ \E how : Crash(how)
<1>1. status = "run" /\ ins.op = "tableswitch"
  BY DEF tableswitch, Fetch
<1>2. (\E len : Advance(drop(opst, 1), len)) \/ \E how : Crash(how)
  BY ZenonT(30) DEF tableswitch
<1> QED BY <1>1, <1>2

LEMMA QuietExecute ==
  ASSUME stores \/ operators \/ branches \/ returns \/ load_class \/ no_case \/ no_return
  PROVE  UNCHANGED <<memory, object_heap>>
<1>1. CASE stores
  BY <1>1 DEF stores, istore, lstore, astore, iinc, Store
<1>2. CASE operators
  BY <1>2 DEF operators, i2l, i2c, ineg, int_arithmetic, long_arithmetic, lcmp, Advance, Crash
<1>3. CASE branches
  <2>1. CASE if_cond \/ if_icmp \/ ifnull \/ goto
    BY <2>1 DEF if_cond, if_icmp, ifnull, goto, Branch, Advance
  <2>2. CASE tableswitch
    BY <2>2, SwitchStep DEF Advance, Crash
  <2> QED BY <1>3, <2>1, <2>2 DEF branches
<1>4. CASE returns
  BY <1>4 DEF returns, wrong_return, return_to_main, return_from_clinit, return_from_special,
              return_value, Resume, Crash
<1>5. CASE load_class
  BY <1>5 DEF load_class, add_class, Crash
<1>6. CASE no_case \/ no_return
  BY <1>6 DEF no_case, no_return, Crash, vars
<1> QED BY <1>1, <1>2, <1>3, <1>4, <1>5, <1>6

\* The handlers that allocate or write to blocks keep every block owned.
LEMMA PushesOwned ==
  ASSUME SafeInv, OwnedInv, pushes
  PROVE  OwnedInv'
<1>1. CASE ldc
  <2>1. CASE Allocate(<<new_string(frame.clazz)>>)
    BY <2>1, BlockOwned DEF new_string, Block
  <2>2. CASE UNCHANGED <<memory, object_heap>>
    BY <2>2, SameOwned
  <2> QED BY <1>1, <2>1, <2>2 DEF ldc, Advance, Crash
<1>2. CASE iconst \/ bipush \/ sipush \/ ldc2_w \/ iload \/ lload \/ aload \/ dup \/ dup2
  <2>1. UNCHANGED <<memory, object_heap>>
    BY <1>2 DEF iconst, bipush, sipush, ldc2_w, iload, lload, aload, dup, dup2, Advance
  <2> QED BY <2>1, SameOwned
<1> QED BY <1>1, <1>2 DEF pushes

LEMMA NewarrayOwned ==
  ASSUME SafeInv, OwnedInv, newarray
  PROVE  OwnedInv'
<1>1. ASSUME NEW n, NEW junk, Allocate(<<new_array(frame.clazz, n, junk)>>)
      PROVE  OwnedInv'
  <2>1. new_array(frame.clazz, n, junk).kind # "int[][]"
    BY DEF new_array, Block
  <2> QED BY <1>1, <2>1, BlockOwned
<1>2. CASE object_heap' = Append(object_heap, NULL) /\ UNCHANGED memory
  BY <1>2, NullOwned
<1>3. CASE UNCHANGED <<memory, object_heap>>
  BY <1>3, SameOwned
<1> QED BY <1>1, <1>2, <1>3 DEF newarray, Crash

LEMMA MultianewarrayOwned ==
  ASSUME SafeInv, OwnedInv, multianewarray
  PROVE  OwnedInv'
<1>1. status = "run" /\ ins.op = "multianewarray" /\ ArrayRule(method, frame.pc, ins.op, ins.arg)
  BY Rules DEF multianewarray, Fetch
<1>2. Top2(rule.stk, "I", "I")
  BY <1>1 DEF ArrayRule, rule
<1>3. PICK x, y, height : /\ x = int32(top(opst)) /\ y = int32(peek(opst, 1))
                          /\ height = IF y < 0 THEN 0 ELSE x
  OBVIOUS
<1>4. x \in Int /\ y \in Int
  BY <1>1, <1>2, <1>3, Top2Read, TopRead
<1> DEFINE row(i) == IF y < 0 THEN NULL ELSE Len(memory) + 1 + i
           table == Block("int[][]", frame.clazz, [i \in 0 .. x - 1 |-> row(i)])
           rows(junk) == [j \in 1 .. height |-> new_array(frame.clazz, y, junk)]
<1>5. ASSUME x >= 0, NEW junk, Allocate(rows(junk) \o <<table>>)
      PROVE  OwnedInv'
  <2>1. x \in Nat /\ height \in Nat /\ height \in {0, x} /\ IsSequence(memory) /\ Len(memory) \in Nat
    BY <1>3, <1>4, <1>5 DEF SafeInv, HeapsOK, IsSequence
  <2>2. PICK blocks, t : blocks = rows(junk) /\ t = table
    OBVIOUS
  <2>3. /\ IsSequence(blocks) /\ Len(blocks) = height
        /\ \A j \in 1 .. height : blocks[j].kind = "int[]"
    <3>1. blocks \in Seq({new_array(frame.clazz, y, junk)}) /\ Len(blocks) = height
      BY <2>1, <2>2
    <3>2. IsSequence(blocks)
      BY <3>1, SequenceOfSet
    <3> QED BY <2>1, <2>2, <3>1, <3>2 DEF new_array, Block
  <2>4. /\ t.kind = "int[][]"
        /\ t.cells = [i \in 0 .. x - 1 |-> IF height = 0 THEN NULL ELSE Len(memory) + 1 + i]
    <3>1. \A i \in 0 .. x - 1 : row(i) = IF height = 0 THEN NULL ELSE Len(memory) + 1 + i
      BY <1>3, <1>4, <2>1
    <3>2. t.kind = "int[][]" /\ t.cells = [i \in 0 .. x - 1 |-> row(i)]
      BY <2>2 DEF Block
    <3> HIDE DEF row
    <3> QED BY <3>1, <3>2
  <2>5. PICK added : added = Append(blocks, t)
    OBVIOUS
  <2>6. /\ IsSequence(added) /\ Len(added) = height + 1 /\ added[height + 1] = t
        /\ \A j \in 1 .. height : added[j] = blocks[j]
    BY <2>3, <2>5, AppendElements
  <2>7. added = rows(junk) \o <<table>>
    <3>1. blocks \in Seq(Elements(blocks) \cup {t}) /\ t \in Elements(blocks) \cup {t}
      BY <2>3 DEF IsSequence
    <3>2. Append(blocks, t) = blocks \o <<t>>
      BY <3>1
    <3> QED BY <2>2, <2>5, <3>2
  <2>8. /\ IsSequence(memory') /\ Len(memory') = Len(memory) + (height + 1)
        /\ \A p \in 1 .. Len(memory) : memory'[p] = memory[p]
        /\ \A j \in 1 .. height + 1 : memory'[Len(memory) + j] = added[j]
    <3> HIDE DEF rows, table
    <3>1. memory' = memory \o added
      BY <1>5, <2>7 DEF Allocate
    <3>2. Joined(memory, added, memory')
      BY <2>1, <2>6, <3>1, Join
    <3> QED BY <2>6, <3>2 DEF Joined
  <2>9. PICK last : last = Len(memory) + height + 1
    OBVIOUS
  <2>10. object_heap' = Append(object_heap, last)
    <3> HIDE DEF rows, table
    <3>1. Len(rows(junk) \o <<table>>) = height + 1
      BY <2>6, <2>7
    <3>2. PICK n : n = Len(rows(junk) \o <<table>>)
      OBVIOUS
    <3>3. object_heap' = Append(object_heap, Len(memory) + n)
      BY <1>5, <3>2 DEF Allocate
    <3>4. Len(memory) + n = last
      BY <2>1, <2>9, <3>1, <3>2
    <3> QED BY <3>3, <3>4
  <2>11. /\ Len(memory') = last /\ memory'[last] = t
         /\ \A j \in 1 .. height : memory'[Len(memory) + j].kind = "int[]"
    <3> HIDE DEF rows, table, row
    <3>1. Len(memory') = last
      BY <2>1, <2>8, <2>9
    <3>2. height + 1 \in 1 .. height + 1 /\ last = Len(memory) + (height + 1)
      BY <2>1, <2>9
    <3>3. memory'[last] = t
      BY <2>6, <2>8, <3>2
    <3>4. ASSUME NEW j \in 1 .. height
          PROVE  memory'[Len(memory) + j].kind = "int[]"
      <4>1. j \in 1 .. height + 1
        BY <2>1
      <4>2. memory'[Len(memory) + j] = added[j] /\ added[j] = blocks[j]
        BY <2>6, <2>8, <4>1
      <4> QED BY <2>3, <4>2
    <3> QED BY <3>1, <3>3, <3>4
  <2> HIDE DEF rows, table
  <2> QED BY <2>1, <2>4, <2>8, <2>9, <2>10, <2>11, TableOwned
<1>6. CASE object_heap' = Append(object_heap, NULL) /\ UNCHANGED memory
  BY <1>6, NullOwned
<1>7. CASE UNCHANGED <<memory, object_heap>>
  BY <1>7, SameOwned
<1> QED BY <1>3, <1>5, <1>6, <1>7 DEF multianewarray, Crash

\* An element or a field is assigned.
LEMMA CellOwned ==
  ASSUME SafeInv, OwnedInv, NEW p \in 1 .. Len(memory), NEW i, NEW v,
         memory' = [memory EXCEPT ![p].cells[i] = v], UNCHANGED object_heap,
         memory[p].kind # "int[][]"
  PROVE  OwnedInv'
<1>1. IsSequence(memory) /\ Len(memory) \in Nat /\ BlockTypeOK(memory[p])
  BY DEF SafeInv, HeapsOK, IsSequence
<1>2. PICK T : memory \in Seq(T)
  BY <1>1 DEF IsSequence
<1>3. PICK b : b = [memory[p] EXCEPT !.cells[i] = v]
  OBVIOUS
<1>4. memory' = [memory EXCEPT ![p] = b]
  BY <1>3
<1>5. memory' \in Seq(T \cup {b}) /\ Len(memory') = Len(memory)
  BY <1>2, <1>4
<1>6. IsSequence(memory')
  BY <1>5, SequenceOfSet
<1>7. b.kind = memory[p].kind
  BY <1>1, <1>3 DEF BlockTypeOK
<1>8. ASSUME NEW q \in 1 .. Len(memory)
      PROVE  /\ memory'[q].kind = memory[q].kind
             /\ memory[q].kind = "int[][]" => memory'[q].cells = memory[q].cells
  BY <1>2, <1>4, <1>7
<1> QED BY <1>1, <1>5, <1>6, <1>8, ContentOwned

LEMMA ArraysOwned ==
  ASSUME SafeInv, OwnedInv, arrays
  PROVE  OwnedInv'
<1>1. CASE iastore
  <2>1. PICK arr, index, value : IF Element(arr, "int[]", index)
                                 THEN memory' = [memory EXCEPT ![arr].cells[index] = value] /\ UNCHANGED object_heap
                                 ELSE WildAccess(arr)
    BY <1>1 DEF iastore
  <2>2. CASE Element(arr, "int[]", index)
    BY <2>1, <2>2, CellOwned DEF Element, Points
  <2>3. CASE ~Element(arr, "int[]", index)
    BY <2>1, <2>3, SameOwned DEF WildAccess, Crash
  <2> QED BY <2>2, <2>3
<1>2. CASE iaload \/ aaload
  <2>1. UNCHANGED <<memory, object_heap>>
    BY <1>2 DEF iaload, aaload, Advance, WildAccess, Crash
  <2> QED BY <2>1, SameOwned
<1> QED BY <1>1, <1>2, NewarrayOwned, MultianewarrayOwned DEF arrays

LEMMA FieldsOwned ==
  ASSUME SafeInv, OwnedInv, fields
  PROVE  OwnedInv'
<1>1. CASE putfield
  <2>1. /\ Points(Receiver, "object") /\ UNCHANGED object_heap
        /\ memory' = [memory EXCEPT ![Receiver].cells[ins.arg.name] = Stored(ins.arg.desc, top(opst))]
    BY <1>1 DEF putfield, Addressed
  <2>2. PICK p, v : p = Receiver /\ v = Stored(ins.arg.desc, top(opst))
    OBVIOUS
  <2> QED BY <2>1, <2>2, CellOwned DEF Points
<1>2. CASE static_lookup_fails \/ getstatic \/ putstatic \/ field_lookup_fails \/ getfield
  <2>1. UNCHANGED <<memory, object_heap>>
    BY <1>2 DEF static_lookup_fails, getstatic, putstatic, field_lookup_fails, getfield,
                Advance, WildAccess, Crash, vars
  <2> QED BY <2>1, SameOwned
<1> QED BY <1>1, <1>2 DEF fields

LEMMA NewOwned ==
  ASSUME SafeInv, OwnedInv, new
  PROVE  OwnedInv'
<1>1. CASE Allocate(<<new_object(ins.arg.clazz)>>)
  BY <1>1, BlockOwned DEF new_object, Block
<1>2. CASE UNCHANGED <<memory, object_heap>>
  BY <1>2, SameOwned
<1> QED BY <1>1, <1>2 DEF new, Crash

LEMMA ConcatenationStep ==
  ASSUME invokedynamic
  PROVE  LET n == ins.arg.params
             operands == SubSeq(opst, Len(opst) - n + 1, Len(opst))
             made == Cardinality({i \in 1 .. n : operands[i].type # "REF"}) + 1
         IN  \/ \E how : Crash(how)
             \/ \E p : WildAccess(p)
             \/ /\ memory' = memory \o [i \in 1 .. made |-> new_string(frame.clazz)]
                /\ object_heap' = object_heap \o [i \in 1 .. made |-> Len(memory) + i]
                /\ Goto(push_ref(drop(opst, n), Len(memory) + made), frame.pc + 5)
BY ZenonT(30) DEF invokedynamic

LEMMA ConcatenationOwned ==
  ASSUME SafeInv, OwnedInv, invokedynamic
  PROVE  OwnedInv'
<1> DEFINE numbers == {i \in 1 .. ins.arg.params :
                         SubSeq(opst, Len(opst) - ins.arg.params + 1, Len(opst))[i].type # "REF"}
<1>1. PICK made : made = Cardinality(numbers) + 1
  <2> HIDE DEF numbers
  <2> QED OBVIOUS
<1>2. made \in Nat
  <2>1. /\ status = "run" /\ ins.op = "invokedynamic"
        /\ FieldRule(method, frame.pc, ins.op, ins.arg, prog.classes)
    BY Rules DEF invokedynamic, Fetch
  <2>2. ins.arg.params \in 0 .. Len(rule.stk) /\ Len(rule.stk) \in Nat
    BY <2>1, Current DEF FieldRule, rule
  <2>3. Cardinality(numbers) \in Nat
    BY <2>2, NumbersCounted
  <2> HIDE DEF numbers
  <2> QED BY <1>1, <2>3
<1>3. CASE /\ memory' = memory \o [i \in 1 .. made |-> new_string(frame.clazz)]
           /\ object_heap' = object_heap \o [i \in 1 .. made |-> Len(memory) + i]
  <2>1. PICK blocks, entries : /\ blocks = [i \in 1 .. made |-> new_string(frame.clazz)]
                               /\ entries = [i \in 1 .. made |-> Len(memory) + i]
    OBVIOUS
  <2>2. Len(memory) \in Nat /\ IsSequence(object_heap)
    BY DEF SafeInv, HeapsOK, IsSequence, OwnedInv
  <2>3. IsSequence(blocks) /\ Len(blocks) = made /\ \A i \in 1 .. made : blocks[i].kind = "string"
    <3>1. blocks \in Seq({new_string(frame.clazz)}) /\ Len(blocks) = made
      BY <1>2, <2>1
    <3> QED BY <1>2, <2>1, <3>1, SequenceOfSet DEF new_string, Block
  <2>4. IsSequence(entries) /\ Len(entries) = made /\ \A i \in 1 .. made : entries[i] = Len(memory) + i
    <3>1. entries \in Seq(Nat) /\ Len(entries) = made
      BY <1>2, <2>1, <2>2
    <3> QED BY <1>2, <2>1, <3>1, SequenceOfSet
  <2>5. /\ IsSequence(object_heap') /\ Len(object_heap') = Len(object_heap) + Len(entries)
        /\ \A i \in 1 .. Len(object_heap) : object_heap'[i] = object_heap[i]
        /\ \A i \in 1 .. Len(entries) : object_heap'[Len(object_heap) + i] = entries[i]
    <3>1. object_heap' = object_heap \o entries
      BY <1>3, <2>1
    <3>2. Joined(object_heap, entries, object_heap')
      BY <2>2, <2>4, <3>1, Join
    <3> QED BY <3>2 DEF Joined
  <2>6. memory' = memory \o blocks
    BY <1>3, <2>1
  <2> QED BY <2>3, <2>4, <2>5, <2>6, RegisteredOwned
<1>4. CASE (\E how : Crash(how)) \/ \E p : WildAccess(p)
  BY <1>4, SameOwned DEF Crash, WildAccess
<1> HIDE DEF numbers
<1>5. \/ \E how : Crash(how)
      \/ \E p : WildAccess(p)
      \/ /\ memory' = memory \o [i \in 1 .. made |-> new_string(frame.clazz)]
         /\ object_heap' = object_heap \o [i \in 1 .. made |-> Len(memory) + i]
  BY <1>1, ConcatenationStep DEF numbers
<1> QED BY <1>3, <1>4, <1>5

LEMMA InvokesOwned ==
  ASSUME SafeInv, OwnedInv, invokes
  PROVE  OwnedInv'
<1>1. CASE native_string
  <2>1. CASE Allocate(<<new_string(frame.clazz)>>)
    BY <2>1, BlockOwned DEF new_string, Block
  <2>2. CASE UNCHANGED <<memory, object_heap>>
    BY <2>2, SameOwned
  <2> QED BY <1>1, <2>1, <2>2 DEF native_string, Crash
<1>2. CASE \/ invoke_fails \/ invokestatic \/ invokespecial \/ invokevirtual
           \/ native_access_fails \/ native_void \/ native_value
  <2>1. UNCHANGED <<memory, object_heap>>
    BY <1>2 DEF invoke_fails, invokestatic, invokespecial, invokevirtual, native_access_fails,
                native_void, native_value, Advance, WildAccess, Crash
  <2> QED BY <2>1, SameOwned
<1> QED BY <1>1, <1>2, ConcatenationOwned DEF invokes

-----------------------------------------------------------------------------
\* Every step keeps every block owned once.
LEMMA NextOwned ==
  ASSUME SafeInv, OwnedInv, [Next]_vars
  PROVE  OwnedInv'
<1>1. CASE main
  BY <1>1, QuietMain, SameOwned
<1>2. CASE stores \/ operators \/ branches \/ returns \/ load_class \/ no_case \/ no_return
  BY <1>2, QuietExecute, SameOwned
<1>3. CASE pushes \/ arrays \/ fields \/ new \/ invokes
  BY <1>3, PushesOwned, ArraysOwned, FieldsOwned, NewOwned, InvokesOwned
<1>4. CASE UNCHANGED vars
  BY <1>4, SameOwned DEF vars
<1> QED BY <1>1, <1>2, <1>3, <1>4 DEF Next, execute, ended

LEMMA InitOwned ==
  ASSUME Init
  PROVE  OwnedInv
<1>1. memory = <<>> /\ object_heap = <<>>
  BY DEF Init
<1>2. Len(memory) = 0 /\ Len(object_heap) = 0 /\ IsSequence(object_heap)
  BY <1>1 DEF IsSequence, Elements
<1> QED BY <1>2 DEF OwnedInv

\* OwnedOnce of HeapSafety: whatever a verified program allocates, and whether
\* malloc() refuses an array or not, every block is owned by one entry of
\* object_heap, or is one row of one array of arrays; free_object_heap() comes
\* to it in no other way if no string is assigned to the first field of a class.
THEOREM OwnedOnceHolds == Spec => []OwnedOnce
<1>1. Init => OwnedInv
  BY InitOwned
<1>2. SafeInv /\ OwnedInv /\ [Next]_vars => OwnedInv'
  BY NextOwned
<1>3. SafeInv /\ OwnedInv => OwnedOnce
  BY OwnedInvImplies
<1> QED BY <1>1, <1>2, <1>3, SafeInvariant, PTL DEF Spec

-----------------------------------------------------------------------------
\* No stray references, n being the number of blocks allocated.  The local
\* variables main() zeroes are null references.
EntryIn(e, n) ==
    /\ e.type = "REF" => e.value \in 0 .. n
    /\ e.type = "NONE" => e.value = NULL

StackIn(stack, n) == IsSequence(stack) /\ \A i \in 1 .. Len(stack) : EntryIn(stack[i], n)
LocalsIn(locals, n) == \A i \in DOMAIN locals : EntryIn(locals[i], n)
FrameIn(f, n) == StackIn(f.op_stack, n) /\ LocalsIn(f.locals, n)

\* What a field was assigned has the descriptor of the field.
CellIn(cell, desc, n) ==
    desc \in {"L", "String"} \/ cell.type \in {"PTR", "STR_PTR"} => cell.value \in 0 .. n

BlockIn(b, n) ==
    /\ b.kind = "object" =>
         /\ DOMAIN b.cells = DOMAIN Class(b.clazz).fields
         /\ \A f \in DOMAIN b.cells : CellIn(b.cells[f], Class(b.clazz).fields[f], n)
    /\ b.kind = "int[][]" => \A i \in DOMAIN b.cells : b.cells[i] \in 0 .. n

BlocksIn == \A p \in 1 .. Len(memory) : BlockIn(memory[p], Len(memory))

PointersInv ==
    /\ FrameIn(frame, Len(memory))
    /\ \A i \in 1 .. Len(callers) : FrameIn(callers[i], Len(memory))
    /\ BlocksIn

\* The references of an activation.
LEMMA FrameReferences ==
  ASSUME NEW f, NEW n \in Nat, FrameIn(f, n), NEW p \in References(f.op_stack) \cup References(f.locals)
  PROVE  p \in 0 .. n
<1>1. CASE p \in References(f.op_stack)
  <2>1. DOMAIN f.op_stack = 1 .. Len(f.op_stack)
    BY DEF FrameIn, StackIn, IsSequence
  <2> QED BY <1>1, <2>1 DEF References, FrameIn, StackIn, EntryIn
<1>2. CASE p \in References(f.locals)
  BY <1>2 DEF References, FrameIn, LocalsIn, EntryIn
<1> QED BY <1>1, <1>2

LEMMA PointersInvImplies ==
  ASSUME SafeInv, PointersInv
  PROVE  PointersLive
<1>1. Len(memory) \in Nat /\ Len(callers) \in Nat
  BY DEF SafeInv, HeapsOK, ClassInv, ActivationsInv, IsSequence
<1>2. \A p : p \in 0 .. Len(memory) <=> Live(p)
  BY <1>1 DEF Live, NULL
<1>3. ASSUME NEW f \in Activations, NEW p \in References(f.op_stack) \cup References(f.locals)
      PROVE  Live(p)
  <2>1. FrameIn(f, Len(memory))
    <3>1. PICK i \in 0 .. Len(callers) : f = Called(i)
      BY DEF Activations
    <3> QED BY <1>1, <3>1 DEF Called, PointersInv
  <2> QED BY <1>1, <1>2, <2>1, FrameReferences
<1>4. ASSUME NEW b \in 1 .. Len(memory), NEW p \in Pointers(memory[b])
      PROVE  Live(p)
  <2>1. BlockIn(memory[b], Len(memory))
    BY DEF PointersInv, BlocksIn
  <2> QED BY <1>2, <2>1 DEF BlockIn, CellIn, Pointers
<1> QED BY <1>3, <1>4 DEF PointersLive

\* More memory makes no reference stray.
LEMMA MoreMemory ==
  ASSUME NEW n \in Nat, NEW m \in Nat, n <= m
  PROVE  /\ \A e : EntryIn(e, n) => EntryIn(e, m)
         /\ \A stack : StackIn(stack, n) => StackIn(stack, m)
         /\ \A f : FrameIn(f, n) => FrameIn(f, m)
         /\ \A b : BlockIn(b, n) => BlockIn(b, m)
<1>1. \A p : p \in 0 .. n => p \in 0 .. m
  OBVIOUS
<1>2. \A e : EntryIn(e, n) => EntryIn(e, m)
  BY <1>1 DEF EntryIn
<1>3. \A stack : StackIn(stack, n) => StackIn(stack, m)
  BY <1>2 DEF StackIn
<1>4. \A f : FrameIn(f, n) => FrameIn(f, m)
  BY <1>2, <1>3 DEF FrameIn, LocalsIn
<1>5. \A b : BlockIn(b, n) => BlockIn(b, m)
  BY <1>1 DEF BlockIn, CellIn
<1> QED BY <1>2, <1>3, <1>4, <1>5

-----------------------------------------------------------------------------
\* What the operand stack operations do to references.
LEMMA AppendIn ==
  ASSUME NEW n, NEW stack, StackIn(stack, n), NEW e, EntryIn(e, n)
  PROVE  StackIn(Append(stack, e), n)
<1>1. /\ IsSequence(Append(stack, e)) /\ Len(stack) \in Nat /\ Len(Append(stack, e)) = Len(stack) + 1
      /\ \A i \in 1 .. Len(stack) : Append(stack, e)[i] = stack[i]
      /\ Append(stack, e)[Len(stack) + 1] = e
  BY AppendElements DEF StackIn
<1>2. ASSUME NEW i \in 1 .. Len(stack) + 1
      PROVE  EntryIn(Append(stack, e)[i], n)
  <2>1. CASE i \in 1 .. Len(stack)
    BY <1>1, <2>1 DEF StackIn
  <2>2. CASE i = Len(stack) + 1
    BY <1>1, <2>2
  <2> QED BY <1>1, <2>1, <2>2
<1> QED BY <1>1, <1>2 DEF StackIn

LEMMA PushIn ==
  ASSUME NEW n, NEW stack, StackIn(stack, n), NEW v
  PROVE  /\ StackIn(push_byte(stack, v), n) /\ StackIn(push_short(stack, v), n)
         /\ StackIn(push_int(stack, v), n) /\ StackIn(push_long(stack, v), n)
         /\ v \in 0 .. n => StackIn(push_ref(stack, v), n)
<1>1. ASSUME NEW tag, NEW w, tag \in {"BYTE", "SHORT", "INT", "LONG"} \/ (tag = "REF" /\ w \in 0 .. n)
      PROVE  StackIn(Push(stack, tag, w), n)
  <2>1. EntryIn([type |-> tag, value |-> w], n)
    BY <1>1 DEF EntryIn
  <2> QED BY <2>1, AppendIn DEF Push
<1> QED BY <1>1 DEF push_byte, push_short, push_int, push_long, push_ref

LEMMA DropIn ==
  ASSUME NEW n, NEW stack, StackIn(stack, n), NEW k \in 0 .. Len(stack)
  PROVE  StackIn(drop(stack, k), n)
<1>1. /\ IsSequence(drop(stack, k)) /\ Len(stack) \in Nat /\ Len(drop(stack, k)) = Len(stack) - k
      /\ \A i \in 1 .. Len(stack) - k : drop(stack, k)[i] = stack[i]
  BY DropElements DEF StackIn
<1> QED BY <1>1 DEF StackIn

LEMMA PeekIn ==
  ASSUME NEW n, NEW stack, StackIn(stack, n), NEW k \in Nat, k < Len(stack)
  PROVE  EntryIn(peek(stack, k), n)
<1>1. Len(stack) - k \in 1 .. Len(stack)
  BY DEF StackIn, IsSequence
<1> QED BY <1>1 DEF StackIn, peek

-----------------------------------------------------------------------------
\* The innermost activation goes on, or another takes its place.
LEMMA FrameStep ==
  ASSUME SafeInv, PointersInv, UNCHANGED callers,
         Len(memory') \in Nat, Len(memory) <= Len(memory'), BlocksIn', FrameIn(frame', Len(memory'))
  PROVE  PointersInv'
<1>1. Len(memory) \in Nat
  BY DEF SafeInv, HeapsOK, IsSequence
<1>2. \A i \in 1 .. Len(callers) : FrameIn(callers[i], Len(memory'))
  BY <1>1, MoreMemory DEF PointersInv
<1> QED BY <1>2 DEF PointersInv

LEMMA SameBlocks ==
  ASSUME PointersInv, UNCHANGED <<prog, memory>>
  PROVE  BlocksIn'
BY DEF PointersInv, BlocksIn, BlockIn, Class

\* A step that ends the process or changes nothing of this.
LEMMA QuietIn ==
  ASSUME PointersInv, UNCHANGED <<prog, frame, callers, memory>>
  PROVE  PointersInv'
BY SameBlocks DEF PointersInv

LEMMA CrashIn ==
  ASSUME PointersInv, NEW how, Crash(how)
  PROVE  PointersInv'
BY QuietIn DEF Crash

LEMMA WildIn ==
  ASSUME PointersInv, NEW p, WildAccess(p)
  PROVE  PointersInv'
BY CrashIn DEF WildAccess

\* What the innermost activation has to offer.
LEMMA Here ==
  ASSUME SafeInv, PointersInv, status = "run"
  PROVE  /\ Len(memory) \in Nat /\ Len(opst) = Len(rule.stk) /\ Len(rule.stk) \in Nat
         /\ StackIn(opst, Len(memory)) /\ LocalsIn(frame.locals, Len(memory)) /\ BlocksIn
         /\ \A k \in 0 .. Len(rule.stk) : StackIn(drop(opst, k), Len(memory))
         /\ \A k \in Nat : k < Len(rule.stk) => EntryIn(peek(opst, k), Len(memory))
<1>1. /\ Len(memory) \in Nat /\ Len(opst) = Len(rule.stk) /\ Len(rule.stk) \in Nat
      /\ StackIn(opst, Len(memory)) /\ LocalsIn(frame.locals, Len(memory)) /\ BlocksIn
  BY Current DEF SafeInv, HeapsOK, IsSequence, Stacked, StackFits, PointersInv, FrameIn, opst
<1> QED BY <1>1, DropIn, PeekIn

LEMMA GotoIn ==
  ASSUME SafeInv, PointersInv, status = "run", NEW stack, NEW pc, Goto(stack, pc),
         Len(memory') \in Nat, Len(memory) <= Len(memory'), BlocksIn', StackIn(stack, Len(memory'))
  PROVE  PointersInv'
<1>1. frame'.op_stack = stack /\ frame'.locals = frame.locals /\ UNCHANGED callers
  BY Current DEF Goto, IsActivation
<1>2. FrameIn(frame, Len(memory'))
  BY Here, MoreMemory DEF PointersInv
<1>3. FrameIn(frame', Len(memory'))
  BY <1>1, <1>2 DEF FrameIn
<1> QED BY <1>1, <1>3, FrameStep

LEMMA AdvanceIn ==
  ASSUME SafeInv, PointersInv, status = "run", NEW stack, NEW len, Advance(stack, len),
         StackIn(stack, Len(memory))
  PROVE  PointersInv'
<1>1. Goto(stack, frame.pc + len) /\ UNCHANGED <<prog, memory>>
  BY DEF Advance, Goto
<1>2. Len(memory) \in Nat /\ BlocksIn'
  BY <1>1, Here, SameBlocks
<1> QED BY <1>1, <1>2, GotoIn

LEMMA StoreIn ==
  ASSUME SafeInv, PointersInv, status = "run", NEW i, NEW local, NEW stack, NEW len,
         Store(i, local, stack, len), EntryIn(local, Len(memory)), StackIn(stack, Len(memory))
  PROVE  PointersInv'
<1>1. /\ frame'.op_stack = stack /\ frame'.locals = [frame.locals EXCEPT ![i] = local]
      /\ UNCHANGED <<prog, memory, callers>>
  BY Current DEF Store, IsActivation
<1>2. LocalsIn(frame'.locals, Len(memory))
  <2>1. ASSUME NEW j \in DOMAIN frame'.locals
        PROVE  j \in DOMAIN frame.locals /\ frame'.locals[j] = IF j = i THEN local ELSE frame.locals[j]
    BY <1>1
  <2> QED BY <2>1, Here DEF LocalsIn
<1>3. Len(memory) \in Nat /\ BlocksIn'
  BY <1>1, Here, SameBlocks
<1> QED BY <1>1, <1>2, <1>3, FrameStep DEF FrameIn

\* Operands are popped and an integer, or nothing, is pushed.
LEMMA IntegerIn ==
  ASSUME SafeInv, PointersInv, status = "run", NEW k \in 0 .. Len(rule.stk), NEW v, NEW stack,
         stack \in {drop(opst, k), push_byte(drop(opst, k), v), push_short(drop(opst, k), v),
                    push_int(drop(opst, k), v), push_long(drop(opst, k), v)},
         NEW len, Advance(stack, len)
  PROVE  PointersInv'
<1>1. StackIn(drop(opst, k), Len(memory))
  BY Here
<1>2. StackIn(stack, Len(memory))
  BY <1>1, PushIn
<1> QED BY <1>2, AdvanceIn

\* Operands are popped and a reference is pushed.
LEMMA ReferenceIn ==
  ASSUME SafeInv, PointersInv, status = "run", NEW k \in 0 .. Len(rule.stk), NEW p \in 0 .. Len(memory'),
         NEW pc, Goto(push_ref(drop(opst, k), p), pc),
         Len(memory') \in Nat, Len(memory) <= Len(memory'), BlocksIn'
  PROVE  PointersInv'
<1>1. StackIn(drop(opst, k), Len(memory'))
  BY Here, MoreMemory
<1>2. StackIn(push_ref(drop(opst, k), p), Len(memory'))
  BY <1>1, PushIn
<1> QED BY <1>2, GotoIn

\* malloc(): the new blocks may refer to each other and to the older ones.
LEMMA BlocksMadeIn ==
  ASSUME SafeInv, PointersInv, NEW blocks, IsSequence(blocks), memory' = memory \o blocks,
         UNCHANGED prog, \A i \in 1 .. Len(blocks) : BlockIn(blocks[i], Len(memory) + Len(blocks))
  PROVE  /\ BlocksIn' /\ Len(memory) \in Nat /\ Len(memory') \in Nat
         /\ Len(memory') = Len(memory) + Len(blocks) /\ Len(memory) <= Len(memory')
<1>1. IsSequence(memory)
  BY DEF SafeInv, HeapsOK
<1>2. /\ Len(memory) \in Nat /\ Len(blocks) \in Nat /\ Len(memory') = Len(memory) + Len(blocks)
      /\ \A i \in 1 .. Len(memory) : memory'[i] = memory[i]
      /\ \A i \in 1 .. Len(blocks) : memory'[Len(memory) + i] = blocks[i]
  <2>1. Joined(memory, blocks, memory')
    BY <1>1, Join
  <2> QED BY <2>1 DEF Joined
<1>3. PICK n : n = Len(memory')
  OBVIOUS
<1>4. n \in Nat /\ Len(memory) <= n
  BY <1>2, <1>3
<1>5. ASSUME NEW p \in 1 .. n
      PROVE  BlockIn(memory'[p], n)
  <2>1. CASE p \in 1 .. Len(memory)
    BY <1>2, <1>4, <2>1, MoreMemory DEF PointersInv, BlocksIn
  <2>2. CASE p \notin 1 .. Len(memory)
    <3>1. p - Len(memory) \in 1 .. Len(blocks) /\ p = Len(memory) + (p - Len(memory))
      BY <1>2, <1>3, <2>2
    <3>2. memory'[p] = blocks[p - Len(memory)]
      BY <1>2, <3>1
    <3> QED BY <1>2, <1>3, <3>1, <3>2
  <2> QED BY <2>1, <2>2
<1>6. BlocksIn'
  BY <1>3, <1>5 DEF BlocksIn, BlockIn, Class
<1> QED BY <1>2, <1>3, <1>4, <1>6

LEMMA BlockMadeIn ==
  ASSUME SafeInv, PointersInv, NEW block, Allocate(<<block>>), UNCHANGED prog,
         BlockIn(block, Len(memory) + 1)
  PROVE  /\ BlocksIn' /\ Len(memory) \in Nat /\ Len(memory') \in Nat
         /\ Len(memory') = Len(memory) + 1 /\ Len(memory) <= Len(memory')
<1>1. PICK blocks : blocks = <<block>>
  OBVIOUS
<1>2. IsSequence(blocks) /\ Len(blocks) = 1 /\ blocks[1] = block
  <2>1. blocks \in Seq({block})
    BY <1>1
  <2> QED BY <1>1, <2>1, SequenceOfSet
<1>3. memory' = memory \o blocks
  BY <1>1 DEF Allocate
<1>4. \A i \in 1 .. Len(blocks) : BlockIn(blocks[i], Len(memory) + Len(blocks))
  BY <1>2
<1> QED BY <1>2, <1>3, <1>4, BlocksMadeIn

\* A block is made and its address pushed.
LEMMA MadeIn ==
  ASSUME SafeInv, PointersInv, status = "run", NEW block, Allocate(<<block>>),
         BlockIn(block, Len(memory) + 1), NEW k \in 0 .. Len(rule.stk), NEW pc,
         Goto(push_ref(drop(opst, k), Len(memory) + 1), pc)
  PROVE  PointersInv'
<1>1. /\ BlocksIn' /\ Len(memory) \in Nat /\ Len(memory') \in Nat
      /\ Len(memory') = Len(memory) + 1 /\ Len(memory) <= Len(memory')
  BY BlockMadeIn DEF Goto
<1>2. Len(memory) + 1 \in 0 .. Len(memory')
  BY <1>1
<1> QED BY <1>1, <1>2, ReferenceIn

\* Strings and arrays of ints hold no references.
LEMMA PlainIn ==
  ASSUME NEW b, b.kind \in {"string", "int[]"}, NEW n
  PROVE  BlockIn(b, n)
BY DEF BlockIn

-----------------------------------------------------------------------------
\* The handlers.
LEMMA ConstantsIn ==
  ASSUME SafeInv, PointersInv, iconst \/ bipush \/ sipush \/ ldc2_w \/ ldc
  PROVE  PointersInv'
<1>1. status = "run"
  BY DEF iconst, bipush, sipush, ldc2_w, ldc, Fetch
<1>2. drop(opst, 0) = opst /\ 0 \in 0 .. Len(rule.stk)
  BY <1>1, NoDrop, Here
<1>3. ASSUME NEW v, NEW len, NEW stack,
             stack \in {push_byte(opst, v), push_short(opst, v), push_int(opst, v), push_long(opst, v)},
             Advance(stack, len)
      PROVE  PointersInv'
  BY <1>1, <1>2, <1>3, IntegerIn
<1>4. CASE iconst \/ bipush \/ sipush \/ ldc2_w
  BY <1>3, <1>4 DEF iconst, bipush, sipush, ldc2_w
<1>5. CASE ldc
  <2>1. CASE /\ Allocate(<<new_string(frame.clazz)>>)
             /\ Goto(push_ref(opst, Len(memory) + 1), frame.pc + 2)
    <3>1. BlockIn(new_string(frame.clazz), Len(memory) + 1)
      BY PlainIn DEF new_string, Block
    <3> QED BY <1>1, <1>2, <2>1, <3>1, MadeIn
  <2> QED BY <1>3, <1>5, <2>1, CrashIn DEF ldc
<1> QED BY <1>4, <1>5

LEMMA LoadsIn ==
  ASSUME SafeInv, PointersInv, iload \/ lload \/ aload
  PROVE  PointersInv'
<1>1. status = "run"
  BY DEF iload, lload, aload, Fetch
<1>2. drop(opst, 0) = opst /\ 0 \in 0 .. Len(rule.stk)
  BY <1>1, NoDrop, Here
<1>3. CASE iload \/ lload
  BY <1>1, <1>2, <1>3, IntegerIn DEF iload, lload
<1>4. CASE aload
  <2>1. LocalRule(method, frame.pc, ins.op, ins.arg)
    BY <1>1, Rules
  <2>2. ins.arg \in 0 .. method.max_locals - 1 /\ rule.loc[ins.arg + 1] = "A"
    <3>1. CASE ins.op = "aload"
      BY <2>1, <3>1 DEF LocalRule, Loads, rule
    <3>2. CASE ins.op = "aload_n"
      BY <2>1, <3>2 DEF LocalRule, Loads, rule
    <3> QED BY <1>4, <3>1, <3>2 DEF aload, Fetch
  <2>3. ins.arg \in DOMAIN frame.locals /\ frame.locals[ins.arg].type \in {"REF", "NONE"}
    BY <1>1, <2>2, Current DEF LocalsFit, LocalTags
  <2>4. EntryIn(frame.locals[ins.arg], Len(memory)) /\ Len(memory) \in Nat
    BY <1>1, <2>3, Here DEF LocalsIn
  <2>5. ptr_value(frame.locals[ins.arg]) \in 0 .. Len(memory)
    BY <2>3, <2>4 DEF EntryIn, ptr_value, NULL
  <2>6. StackIn(push_ref(opst, ptr_value(frame.locals[ins.arg])), Len(memory))
    BY <1>1, <2>5, Here, PushIn
  <2> QED BY <1>1, <1>4, <2>6, AdvanceIn DEF aload
<1> QED BY <1>3, <1>4

LEMMA DupIn ==
  ASSUME SafeInv, PointersInv, dup \/ dup2
  PROVE  PointersInv'
<1>1. status = "run" /\ OperatorRule(method, frame.pc, ins.op)
  BY Rules DEF dup, dup2, Fetch
<1>2. Len(rule.stk) >= 1 /\ Len(rule.stk) \in Nat
  <2>1. ins.op \in {"dup", "dup2"}
    BY DEF dup, dup2, Fetch
  <2> QED BY <1>1, <2>1, Current DEF OperatorRule, rule
<1>3. EntryIn(top(opst), Len(memory)) /\ StackIn(opst, Len(memory))
  BY <1>1, <1>2, Here DEF top
<1>4. StackIn(Append(opst, top(opst)), Len(memory))
  BY <1>3, AppendIn
<1>5. CASE Advance(Append(opst, top(opst)), 1)
  BY <1>1, <1>4, <1>5, AdvanceIn
<1>6. CASE /\ dup2 /\ top(opst).type # "LONG"
           /\ Advance(Append(Append(opst, peek(opst, 1)), top(opst)), 1)
  <2>1. top(opst).type \in OperandTags(top(rule.stk))
    BY <1>1, <1>2, Current, PeekFits DEF top
  <2>2. top(rule.stk) # "J"
    BY <1>6, <2>1 DEF OperandTags
  <2>3. Len(rule.stk) >= 2
    BY <1>1, <1>6, <2>2 DEF OperatorRule, dup2, Fetch, rule
  <2>4. EntryIn(peek(opst, 1), Len(memory))
    BY <1>1, <1>2, <2>3, Here
  <2>5. StackIn(Append(Append(opst, peek(opst, 1)), top(opst)), Len(memory))
    BY <1>3, <2>4, AppendIn
  <2> QED BY <1>1, <1>6, <2>5, AdvanceIn
<1> QED BY <1>5, <1>6 DEF dup, dup2

LEMMA StoresIn ==
  ASSUME SafeInv, PointersInv, stores
  PROVE  PointersInv'
<1>1. status = "run" /\ LocalRule(method, frame.pc, ins.op, ins.arg)
  BY Rules DEF stores, istore, lstore, astore, iinc, Fetch
<1>2. ASSUME NEW t, NEW len, NEW local, Stores(method, frame.pc, len, ins.arg, t),
             Store(ins.arg, local, drop(opst, 1), LocalLength),
             Top(rule.stk, t) => EntryIn(local, Len(memory))
      PROVE  PointersInv'
  <2>1. Top(rule.stk, t)
    BY <1>2 DEF Stores, rule
  <2>2. StackIn(drop(opst, 1), Len(memory))
    BY <1>1, <2>1, TopRead, Here
  <2> QED BY <1>1, <1>2, <2>1, <2>2, StoreIn
<1>3. CASE istore
  <2>1. \E len : Stores(method, frame.pc, len, ins.arg, "I")
    BY <1>1, <1>3 DEF istore, Fetch, LocalRule
  <2>2. EntryIn([type |-> "INT", value |-> int32(top(opst))], Len(memory))
    BY DEF EntryIn
  <2> QED BY <1>2, <1>3, <2>1, <2>2 DEF istore
<1>4. CASE lstore
  <2>1. \E len : Stores(method, frame.pc, len, ins.arg, "J")
    BY <1>1, <1>4 DEF lstore, Fetch, LocalRule
  <2>2. EntryIn([type |-> "LONG", value |-> stack_to_int(top(opst))], Len(memory))
    BY DEF EntryIn
  <2> QED BY <1>2, <1>4, <2>1, <2>2 DEF lstore
<1>5. CASE astore
  <2>1. \E len : Stores(method, frame.pc, len, ins.arg, "A")
    BY <1>1, <1>5 DEF astore, Fetch, LocalRule
  <2>2. ASSUME Top(rule.stk, "A")
        PROVE  EntryIn([type |-> "REF", value |-> top(opst).value], Len(memory))
    <3>1. top(opst).type = "REF" /\ 1 <= Len(rule.stk)
      BY <1>1, <2>2, TopRead DEF OperandTags
    <3>2. EntryIn(top(opst), Len(memory))
      BY <1>1, <3>1, Here DEF top
    <3> QED BY <3>1, <3>2 DEF EntryIn
  <2> QED BY <1>2, <1>5, <2>1, <2>2 DEF astore
<1>6. CASE iinc
  <2>1. ins.arg.i \in 0 .. method.max_locals - 1 /\ ins.arg.b \in Int /\ rule.loc[ins.arg.i + 1] = "I"
    BY <1>1, <1>6 DEF iinc, Fetch, LocalRule, rule
  <2>2. PICK old : old = frame.locals[ins.arg.i]
    OBVIOUS
  <2>3. old \in Entry /\ old.type \in {"INT", "LONG"}
    BY <1>1, <2>1, <2>2, Current DEF LocalsFit, LocalTags
  <2>4. EntryIn(add_int_value(old, ins.arg.b), Len(memory))
    <3>1. add_int_value(old, ins.arg.b).type \in {"INT", "LONG"}
      BY <2>1, <2>3, AddsInt
    <3> QED BY <3>1 DEF EntryIn
  <2> QED BY <1>1, <1>6, <2>2, <2>4, Here, StoreIn DEF iinc
<1> QED BY <1>3, <1>4, <1>5, <1>6 DEF stores

LEMMA OperatorsIn ==
  ASSUME SafeInv, PointersInv, operators
  PROVE  PointersInv'
<1>1. status = "run" /\ OperatorRule(method, frame.pc, ins.op)
  BY Rules DEF operators, i2l, i2c, ineg, int_arithmetic, long_arithmetic, lcmp, Fetch
<1>2. CASE i2l \/ i2c \/ ineg
  <2>1. Top(rule.stk, "I")
    BY <1>1, <1>2 DEF i2l, i2c, ineg, Fetch, OperatorRule, rule
  <2>2. 1 \in 0 .. Len(rule.stk)
    BY <1>1, <2>1, TopRead
  <2> QED BY <1>1, <1>2, <2>2, IntegerIn DEF i2l, i2c, ineg
<1>3. CASE int_arithmetic \/ long_arithmetic \/ lcmp
  <2>1. \E t : Top2(rule.stk, t, t)
    BY <1>1, <1>3 DEF int_arithmetic, long_arithmetic, lcmp, Fetch, OperatorRule, rule
  <2>2. 2 \in 0 .. Len(rule.stk)
    BY <1>1, <2>1, Top2Read
  <2>3. \/ Crash("fpe")
        \/ \E v : Advance(push_int(drop(opst, 2), v), 1) \/ Advance(push_long(drop(opst, 2), v), 1)
    BY <1>3 DEF int_arithmetic, long_arithmetic, lcmp
  <2> QED BY <1>1, <2>2, <2>3, IntegerIn, CrashIn
<1> QED BY <1>2, <1>3 DEF operators

LEMMA BranchesIn ==
  ASSUME SafeInv, PointersInv, branches
  PROVE  PointersInv'
<1>0. status = "run"
  <2>1. CASE tableswitch
    BY <2>1, SwitchStep
  <2> QED BY <2>1 DEF branches, if_cond, if_icmp, ifnull, goto, Fetch
<1>1. status = "run" /\ BranchRule(method, frame.pc, ins.op, ins.arg)
  BY <1>0, Rules
<1>2. ASSUME NEW k \in 0 .. Len(rule.stk), \E len : Advance(drop(opst, k), len)
      PROVE  PointersInv'
  BY <1>1, <1>2, IntegerIn
<1>3. CASE if_cond \/ ifnull \/ tableswitch
  <2>1. Top(rule.stk, "I") \/ Top(rule.stk, "A")
    <3>1. ins.op \in {"if", "ifnull", "tableswitch"}
      BY <1>3, SwitchStep DEF if_cond, ifnull, Fetch
    <3> QED BY <1>1, <3>1 DEF BranchRule, rule
  <2>2. 1 \in 0 .. Len(rule.stk)
    BY <1>1, <2>1, TopRead
  <2>3. (\E len : Advance(drop(opst, 1), len)) \/ \E how : Crash(how)
    <3>1. CASE if_cond \/ ifnull
      BY <3>1 DEF if_cond, ifnull, Branch
    <3>2. CASE tableswitch
      BY <3>2, SwitchStep
    <3> QED BY <1>3, <3>1, <3>2
  <2> QED BY <1>2, <2>2, <2>3, CrashIn
<1>4. CASE if_icmp
  <2>1. Top2(rule.stk, "I", "I")
    BY <1>1, <1>4 DEF if_icmp, Fetch, BranchRule, rule
  <2>2. 2 \in 0 .. Len(rule.stk)
    BY <1>1, <2>1, Top2Read
  <2> QED BY <1>2, <1>4, <2>2 DEF if_icmp, Branch
<1>5. CASE goto
  <2>1. drop(opst, 0) = opst /\ 0 \in 0 .. Len(rule.stk)
    BY <1>1, NoDrop, Here
  <2> QED BY <1>2, <1>5, <2>1 DEF goto, Branch
<1> QED BY <1>3, <1>4, <1>5 DEF branches

\* malloc() has failed: null is pushed.
LEMMA NullIn ==
  ASSUME SafeInv, PointersInv, status = "run", NEW k \in 0 .. Len(rule.stk), NEW pc,
         Goto(push_ref(drop(opst, k), NULL), pc), UNCHANGED memory
  PROVE  PointersInv'
<1>1. BlocksIn' /\ Len(memory) \in Nat
  BY SameBlocks, Here DEF Goto
<1>2. NULL \in 0 .. Len(memory')
  BY <1>1 DEF NULL
<1> QED BY <1>1, <1>2, ReferenceIn

LEMMA NewarrayIn ==
  ASSUME SafeInv, PointersInv, newarray
  PROVE  PointersInv'
<1>1. status = "run" /\ ins.op = "newarray" /\ ArrayRule(method, frame.pc, ins.op, ins.arg)
  BY Rules DEF newarray, Fetch
<1>2. 1 \in 0 .. Len(rule.stk)
  <2>1. Top(rule.stk, "I")
    BY <1>1 DEF ArrayRule, rule
  <2> QED BY <1>1, <2>1, TopRead
<1>3. ASSUME NEW n, NEW junk, Allocate(<<new_array(frame.clazz, n, junk)>>),
             Goto(push_ref(drop(opst, 1), Len(memory) + 1), frame.pc + 2)
      PROVE  PointersInv'
  <2>1. BlockIn(new_array(frame.clazz, n, junk), Len(memory) + 1)
    BY PlainIn DEF new_array, Block
  <2> QED BY <1>1, <1>2, <1>3, <2>1, MadeIn
<1> QED BY <1>1, <1>2, <1>3, CrashIn, NullIn DEF newarray

LEMMA MultianewarrayIn ==
  ASSUME SafeInv, PointersInv, multianewarray
  PROVE  PointersInv'
<1>1. status = "run" /\ ins.op = "multianewarray" /\ ArrayRule(method, frame.pc, ins.op, ins.arg)
  BY Rules DEF multianewarray, Fetch
<1>2. Top2(rule.stk, "I", "I")
  BY <1>1 DEF ArrayRule, rule
<1>3. PICK x, y, height : /\ x = int32(top(opst)) /\ y = int32(peek(opst, 1))
                          /\ height = IF y < 0 THEN 0 ELSE x
  OBVIOUS
<1>4. x \in Int /\ y \in Int /\ 2 \in 0 .. Len(rule.stk)
  BY <1>1, <1>2, <1>3, Top2Read, TopRead
<1> DEFINE row(i) == IF y < 0 THEN NULL ELSE Len(memory) + 1 + i
           table == Block("int[][]", frame.clazz, [i \in 0 .. x - 1 |-> row(i)])
           rows(junk) == [j \in 1 .. height |-> new_array(frame.clazz, y, junk)]
<1>5. ASSUME x >= 0, NEW junk, Allocate(rows(junk) \o <<table>>),
             Goto(push_ref(drop(opst, 2), Len(memory) + height + 1), frame.pc + 4)
      PROVE  PointersInv'
  <2>1. height \in Nat /\ Len(memory) \in Nat
    BY <1>1, <1>3, <1>4, <1>5, Here
  <2>2. PICK blocks, t : blocks = rows(junk) /\ t = table
    OBVIOUS
  <2>3. IsSequence(blocks) /\ Len(blocks) = height /\ \A j \in 1 .. height : blocks[j].kind = "int[]"
    <3>1. blocks \in Seq({new_array(frame.clazz, y, junk)}) /\ Len(blocks) = height
      BY <2>1, <2>2
    <3> QED BY <2>1, <2>2, <3>1, SequenceOfSet DEF new_array, Block
  <2>4. PICK last : last = Len(memory) + height + 1
    OBVIOUS
  <2>5. BlockIn(t, last)
    <3>1. t.kind = "int[][]" /\ t.cells = [i \in 0 .. x - 1 |-> row(i)]
      BY <2>2 DEF Block
    <3>2. height = IF y < 0 THEN 0 ELSE x
      BY <1>3
    <3>3. ASSUME NEW i \in 0 .. x - 1
          PROVE  row(i) \in 0 .. last
      <4>1. CASE y < 0
        BY <2>1, <2>4, <4>1 DEF NULL
      <4>2. CASE ~(y < 0)
        BY <1>4, <2>1, <2>4, <3>2, <4>2
      <4> QED BY <4>1, <4>2
    <3> HIDE DEF row
    <3> QED BY <3>1, <3>3 DEF BlockIn
  <2>6. PICK added : added = Append(blocks, t)
    OBVIOUS
  <2>7. /\ IsSequence(added) /\ Len(added) = height + 1 /\ added[height + 1] = t
        /\ \A j \in 1 .. height : added[j] = blocks[j]
    BY <2>3, <2>6, AppendElements
  <2>8. memory' = memory \o added
    <3>1. blocks \in Seq(Elements(blocks) \cup {t}) /\ t \in Elements(blocks) \cup {t}
      BY <2>3 DEF IsSequence
    <3>2. Append(blocks, t) = blocks \o <<t>>
      BY <3>1
    <3> HIDE DEF rows, table
    <3> QED BY <1>5, <2>2, <2>6, <3>2 DEF Allocate
  <2>9. \A j \in 1 .. Len(added) : BlockIn(added[j], last)
    <3> TAKE j \in 1 .. Len(added)
    <3>1. CASE j = height + 1
      BY <2>5, <2>7, <3>1
    <3>2. CASE j # height + 1
      <4>1. added[j].kind = "int[]"
        BY <2>1, <2>3, <2>7, <3>2
      <4> QED BY <4>1, PlainIn
    <3> QED BY <3>1, <3>2
  <2>10. last = Len(memory) + Len(added)
    BY <2>1, <2>4, <2>7
  <2>11. UNCHANGED prog /\ Goto(push_ref(drop(opst, 2), last), frame.pc + 4)
    BY <1>5, <2>4 DEF Goto
  <2>12. /\ BlocksIn' /\ Len(memory) \in Nat /\ Len(memory') \in Nat
         /\ Len(memory') = last /\ Len(memory) <= Len(memory')
    <3>1. \A j \in 1 .. Len(added) : BlockIn(added[j], Len(memory) + Len(added))
      BY <2>9, <2>10
    <3> HIDE DEF rows, table
    <3>2. /\ BlocksIn' /\ Len(memory) \in Nat /\ Len(memory') \in Nat
          /\ Len(memory') = Len(memory) + Len(added) /\ Len(memory) <= Len(memory')
      BY <2>7, <2>8, <2>11, <3>1, BlocksMadeIn
    <3> QED BY <2>10, <3>2
  <2>13. last \in 0 .. Len(memory')
    BY <2>12
  <2> QED BY <1>1, <1>4, <2>11, <2>12, <2>13, ReferenceIn
<1>6. CASE Goto(push_ref(drop(opst, 2), NULL), frame.pc + 4) /\ UNCHANGED memory
  BY <1>1, <1>4, <1>6, NullIn
<1>7. CASE Crash("abort") \/ Crash("undefined")
  BY <1>7, CrashIn
<1> QED BY <1>3, <1>5, <1>6, <1>7 DEF multianewarray

\* A cell of a block is assigned.
LEMMA AssignedIn ==
  ASSUME SafeInv, PointersInv, NEW p \in 1 .. Len(memory), NEW i, NEW v,
         memory' = [memory EXCEPT ![p].cells[i] = v], UNCHANGED prog,
         memory[p].kind # "int[][]",
         memory[p].kind = "object" /\ i \in DOMAIN memory[p].cells =>
           CellIn(v, Class(memory[p].clazz).fields[i], Len(memory))
  PROVE  BlocksIn' /\ Len(memory') = Len(memory) /\ Len(memory) \in Nat
<1>1. IsSequence(memory) /\ Len(memory) \in Nat /\ BlockTypeOK(memory[p])
  BY DEF SafeInv, HeapsOK, IsSequence
<1>2. PICK T : memory \in Seq(T)
  BY <1>1 DEF IsSequence
<1>3. PICK b, n : b = [memory[p] EXCEPT !.cells[i] = v] /\ n = Len(memory)
  OBVIOUS
<1>4. memory' = [memory EXCEPT ![p] = b]
  BY <1>3
<1>5. Len(memory') = n /\ \A q \in 1 .. n : memory'[q] = IF q = p THEN b ELSE memory[q]
  BY <1>2, <1>3, <1>4
<1>6. BlockIn(b, n)
  <2>1. BlockIn(memory[p], n)
    BY <1>3 DEF PointersInv, BlocksIn
  <2>2. b.kind = memory[p].kind /\ b.clazz = memory[p].clazz /\ b.cells = [memory[p].cells EXCEPT ![i] = v]
    BY <1>1, <1>3 DEF BlockTypeOK
  <2>3. ASSUME b.kind = "object"
        PROVE  /\ DOMAIN b.cells = DOMAIN Class(b.clazz).fields
               /\ \A f \in DOMAIN b.cells : CellIn(b.cells[f], Class(b.clazz).fields[f], n)
    <3>1. DOMAIN b.cells = DOMAIN memory[p].cells
      BY <2>2
    <3>2. ASSUME NEW f \in DOMAIN b.cells
          PROVE  CellIn(b.cells[f], Class(b.clazz).fields[f], n)
      <4>1. CASE f = i
        BY <1>3, <2>2, <2>3, <3>1, <4>1
      <4>2. CASE f # i
        <5>1. b.cells[f] = memory[p].cells[f]
          BY <2>2, <3>1, <4>2
        <5> QED BY <2>1, <2>2, <2>3, <3>1, <5>1 DEF BlockIn
      <4> QED BY <4>1, <4>2
    <3> QED BY <2>1, <2>2, <2>3, <3>1, <3>2 DEF BlockIn
  <2> QED BY <2>2, <2>3 DEF BlockIn
<1>7. \A q \in 1 .. n : BlockIn(memory'[q], n)
  BY <1>3, <1>5, <1>6 DEF PointersInv, BlocksIn
<1>8. BlocksIn'
  BY <1>5, <1>7 DEF BlocksIn, BlockIn, Class
<1> QED BY <1>1, <1>3, <1>5, <1>8

LEMMA ArraysIn ==
  ASSUME SafeInv, PointersInv, arrays
  PROVE  PointersInv'
<1>1. CASE iaload \/ aaload \/ iastore
  <2>1. status = "run" /\ ArrayRule(method, frame.pc, ins.op, ins.arg)
    BY <1>1, Rules DEF iaload, aaload, iastore, Fetch
  <2>2. CASE iaload
    <3>1. Top2(rule.stk, "A", "I")
      BY <2>1, <2>2 DEF iaload, Fetch, ArrayRule, rule
    <3>2. 2 \in 0 .. Len(rule.stk)
      BY <2>1, <3>1, Top2Read
    <3> QED BY <2>1, <2>2, <3>2, IntegerIn, WildIn DEF iaload
  <2>3. CASE aaload
    <3>1. Top2(rule.stk, "A", "I")
      BY <2>1, <2>3 DEF aaload, Fetch, ArrayRule, rule
    <3>2. 2 \in 0 .. Len(rule.stk)
      BY <2>1, <3>1, Top2Read
    <3>3. PICK arr, index : IF Element(arr, "int[][]", index)
                            THEN Advance(push_ref(drop(opst, 2), memory[arr].cells[index]), 1)
                            ELSE WildAccess(arr)
      BY <2>3 DEF aaload
    <3>4. CASE Element(arr, "int[][]", index)
      <4>1. memory[arr].cells[index] \in 0 .. Len(memory)
        BY <3>4 DEF Element, Points, PointersInv, BlocksIn, BlockIn
      <4>2. StackIn(push_ref(drop(opst, 2), memory[arr].cells[index]), Len(memory))
        BY <2>1, <3>2, <4>1, Here, PushIn
      <4> QED BY <2>1, <3>3, <3>4, <4>2, AdvanceIn
    <3> QED BY <3>3, <3>4, WildIn
  <2>4. CASE iastore
    <3>1. 3 \in 0 .. Len(rule.stk)
      BY <2>1, <2>4, Here DEF iastore, Fetch, ArrayRule, Top3, rule
    <3>2. PICK arr, index, value :
            IF Element(arr, "int[]", index)
            THEN /\ memory' = [memory EXCEPT ![arr].cells[index] = value]
                 /\ Goto(drop(opst, 3), frame.pc + 1)
            ELSE WildAccess(arr)
      BY <2>4 DEF iastore
    <3>3. CASE Element(arr, "int[]", index)
      <4>0. /\ arr \in 1 .. Len(memory) /\ memory[arr].kind = "int[]"
            /\ memory' = [memory EXCEPT ![arr].cells[index] = value] /\ UNCHANGED prog
        BY <3>2, <3>3 DEF Element, Points, Goto
      <4>1. BlocksIn' /\ Len(memory') = Len(memory) /\ Len(memory) \in Nat
        <5>1. memory[arr].kind # "int[][]" /\ memory[arr].kind # "object"
          BY <4>0
        <5> QED BY <4>0, <5>1, AssignedIn
      <4> QED BY <2>1, <3>1, <3>2, <3>3, <4>1, Here, GotoIn
    <3> QED BY <3>2, <3>3, WildIn
  <2> QED BY <1>1, <2>2, <2>3, <2>4
<1> QED BY <1>1, NewarrayIn, MultianewarrayIn DEF arrays

-----------------------------------------------------------------------------
\* The descriptor an instruction names is the descriptor of the field.
LEMMA FieldNamed ==
  ASSUME FieldsAgree, SafeInv, PointersInv, status = "run", ins.op \in {"getfield", "putfield"},
         Points(Receiver, "object"), ins.arg.name \in DOMAIN memory[Receiver].cells
  PROVE  /\ Class(memory[Receiver].clazz).fields[ins.arg.name] = ins.arg.desc
         /\ CellIn(memory[Receiver].cells[ins.arg.name], ins.arg.desc, Len(memory))
<1>1. PICK p : p = Receiver
  OBVIOUS
<1>2. p \in 1 .. Len(memory) /\ memory[p].kind = "object"
  BY <1>1 DEF Points
<1>3. PICK n \in DOMAIN Programs : prog = Programs[n]
  BY DEF SafeInv, ClassInv, HeapInv
<1>4. method \in Methods(Programs[n]) /\ frame.pc \in DOMAIN method.code /\ ins = method.code[frame.pc]
  <2>1. /\ frame.clazz \in DOMAIN prog.classes /\ frame.meth \in DOMAIN prog.classes[frame.clazz].methods
        /\ frame.pc \in DOMAIN method.code /\ ins = method.code[frame.pc]
    BY Current DEF ActivationsOK, FrameTypeOK, Class, rule
  <2>2. method = prog.classes[frame.clazz].methods[frame.meth]
    BY DEF method, Method, Class
  <2> DEFINE Of(c) == {prog.classes[c].methods[m] : m \in DOMAIN prog.classes[c].methods}
  <2>3. method \in Of(frame.clazz)
    BY <2>1, <2>2
  <2>4. method \in UNION {Of(c) : c \in DOMAIN prog.classes}
    <3> HIDE DEF Of
    <3> QED BY <2>1, <2>3
  <2>5. method \in Methods(prog)
    BY <2>4 DEF Methods
  <2> QED BY <1>3, <2>1, <2>5
<1>5. memory[p].clazz \in DOMAIN Programs[n].classes
  BY <1>2, <1>3 DEF SafeInv, HeapsOK, BlockTypeOK
<1>6. BlockIn(memory[p], Len(memory))
  BY <1>2 DEF PointersInv, BlocksIn
<1>7. Programs[n].classes[memory[p].clazz].fields[ins.arg.name] = ins.arg.desc
  BY <1>1, <1>2, <1>3, <1>4, <1>5, <1>6 DEF FieldsAgree, BlockIn, Class
<1> QED BY <1>1, <1>2, <1>3, <1>6, <1>7 DEF BlockIn, Class

LEMMA GetstaticIn ==
  ASSUME SafeInv, PointersInv, StaticReadsLive, getstatic
  PROVE  PointersInv'
<1>1. status = "run" /\ FieldAccess({"getstatic"}) /\ Resolved({"getstatic", "putstatic"})
  BY DEF getstatic, FieldAccess, Resolved, Fetch
<1>2. PICK v : v = statics[Holder(ins.arg)][ins.arg.name]
  OBVIOUS
<1>3. ins.arg.desc \in {"B", "C", "S", "I", "L", "String", "["}
  <2>1. FieldRule(method, frame.pc, ins.op, ins.arg, prog.classes) /\ ins.op = "getstatic"
    BY <1>1, StaticField DEF FieldAccess, Resolved, Fetch
  <2> QED BY <2>1 DEF FieldRule
<1>4. ins.arg.desc \in {"L", "String", "["} => v \in 0 .. Len(memory)
  BY <1>1, <1>2, Here DEF StaticReadsLive, Live, NULL
<1>5. StackIn(opst, Len(memory))
  BY <1>1, Here
<1>6. PICK stack : /\ Advance(stack, 3)
                   /\ \/ stack \in {push_byte(opst, v), push_short(opst, v), push_int(opst, v)}
                      \/ stack = push_ref(opst, v) /\ v \in 0 .. Len(memory)
  BY <1>2, <1>3, <1>4 DEF getstatic
<1>7. StackIn(stack, Len(memory))
  BY <1>5, <1>6, PushIn
<1> QED BY <1>1, <1>6, <1>7, AdvanceIn

LEMMA PutstaticIn ==
  ASSUME SafeInv, PointersInv, putstatic
  PROVE  PointersInv'
<1>1. status = "run" /\ Resolved({"getstatic", "putstatic"})
  BY DEF putstatic, FieldAccess, Resolved, Fetch
<1>2. ins.arg.desc \in {"B", "C", "S", "I", "Z", "L", "String", "["} /\ 1 \in 0 .. Len(rule.stk)
  <2>1. FieldRule(method, frame.pc, ins.op, ins.arg, prog.classes) /\ ins.op = "putstatic"
    BY <1>1, StaticField DEF putstatic, FieldAccess, Resolved, Fetch
  <2>2. /\ ins.arg.desc \in {"B", "C", "S", "I", "Z", "L", "String", "["}
        /\ Top(rule.stk, TypeOf(ins.arg.desc))
    BY <2>1 DEF FieldRule, rule
  <2> QED BY <1>1, <2>2, TopRead
<1>3. Goto(drop(opst, 1), frame.pc + 3) /\ UNCHANGED memory
  BY <1>2 DEF putstatic
<1>4. BlocksIn'
  BY <1>3, SameBlocks DEF Goto
<1> QED BY <1>1, <1>2, <1>3, <1>4, Here, GotoIn

LEMMA GetfieldIn ==
  ASSUME FieldsAgree, SafeInv, PointersInv, getfield
  PROVE  PointersInv'
<1>1. /\ status = "run" /\ ins.op = "getfield" /\ Points(Receiver, "object")
      /\ ins.arg.name \in DOMAIN memory[Receiver].cells /\ ins.arg.desc \in {"I", "J", "L", "String"}
      /\ FieldRule(method, frame.pc, ins.op, ins.arg, prog.classes)
  BY Rules DEF getfield, Addressed, Fetch
<1>2. 1 \in 0 .. Len(rule.stk)
  <2>1. Top(rule.stk, "A")
    BY <1>1 DEF FieldRule, rule
  <2> QED BY <1>1, <2>1, TopRead
<1>3. PICK v : v = memory[Receiver].cells[ins.arg.name].value
  OBVIOUS
<1>4. ins.arg.desc \in {"L", "String"} => v \in 0 .. Len(memory)
  BY <1>1, <1>3, FieldNamed DEF CellIn
<1>5. PICK stack : /\ Advance(stack, 3)
                   /\ \/ stack \in {push_int(drop(opst, 1), v), push_long(drop(opst, 1), v)}
                      \/ stack = push_ref(drop(opst, 1), v) /\ v \in 0 .. Len(memory)
  <2>1. Advance(CASE ins.arg.desc = "I" -> push_int(drop(opst, 1), v)
                  [] ins.arg.desc = "J" -> push_long(drop(opst, 1), v)
                  [] OTHER              -> push_ref(drop(opst, 1), v),
                3)
    BY <1>3 DEF getfield
  <2>2. CASE ins.arg.desc = "I"
    BY <2>1, <2>2
  <2>3. CASE ins.arg.desc = "J"
    BY <2>1, <2>3
  <2>4. CASE ins.arg.desc \in {"L", "String"}
    BY <1>4, <2>1, <2>4
  <2> QED BY <1>1, <2>2, <2>3, <2>4
<1>6. StackIn(drop(opst, 1), Len(memory))
  BY <1>1, <1>2, Here
<1>7. StackIn(stack, Len(memory))
  BY <1>5, <1>6, PushIn
<1> QED BY <1>1, <1>5, <1>7, AdvanceIn

LEMMA PutfieldIn ==
  ASSUME FieldsAgree, SafeInv, PointersInv, putfield
  PROVE  PointersInv'
<1>1. /\ status = "run" /\ ins.op = "putfield" /\ Points(Receiver, "object")
      /\ ins.arg.name \in DOMAIN memory[Receiver].cells /\ ins.arg.desc \in {"I", "J", "L", "String"}
      /\ FieldRule(method, frame.pc, ins.op, ins.arg, prog.classes)
  BY Rules DEF putfield, Addressed, Fetch
<1>2. Top2(rule.stk, "A", TypeOf(ins.arg.desc))
  BY <1>1 DEF FieldRule, rule
<1>3. 2 \in 0 .. Len(rule.stk) /\ EntryIn(top(opst), Len(memory)) /\ Len(memory) \in Nat
  BY <1>1, <1>2, Top2Read, Here DEF top
<1>4. PICK p, v : p = Receiver /\ v = Stored(ins.arg.desc, top(opst))
  OBVIOUS
<1>5. CellIn(v, ins.arg.desc, Len(memory))
  <2>1. CASE ins.arg.desc \in {"I", "J"}
    BY <1>4, <2>1 DEF Stored, CellIn
  <2>2. CASE ins.arg.desc \in {"L", "String"}
    <3>1. v.value = IF top(opst).type = "REF" THEN top(opst).value ELSE NULL
      BY <1>4, <2>2 DEF Stored
    <3> QED BY <1>3, <3>1 DEF CellIn, EntryIn, NULL
  <2> QED BY <1>1, <2>1, <2>2
<1>6. /\ memory' = [memory EXCEPT ![p].cells[ins.arg.name] = v] /\ UNCHANGED prog
      /\ Goto(drop(opst, 2), frame.pc + 3)
  BY <1>4 DEF putfield, Goto
<1>7. /\ p \in 1 .. Len(memory) /\ memory[p].kind = "object" /\ memory[p].kind # "int[][]"
      /\ Class(memory[p].clazz).fields[ins.arg.name] = ins.arg.desc
  BY <1>1, <1>4, FieldNamed DEF Points
<1>8. BlocksIn' /\ Len(memory') = Len(memory)
  BY <1>5, <1>6, <1>7, AssignedIn
<1> QED BY <1>1, <1>3, <1>6, <1>8, Here, GotoIn

LEMMA FieldsIn ==
  ASSUME FieldsAgree, StaticReadsLive, SafeInv, PointersInv, fields
  PROVE  PointersInv'
<1>1. CASE static_lookup_fails \/ field_lookup_fails
  <2>1. UNCHANGED <<prog, frame, callers, memory>>
    BY <1>1 DEF static_lookup_fails, field_lookup_fails, WildAccess, Crash, vars
  <2> QED BY <2>1, QuietIn
<1> QED BY <1>1, GetstaticIn, PutstaticIn, GetfieldIn, PutfieldIn DEF fields

LEMMA NewIn ==
  ASSUME SafeInv, PointersInv, new
  PROVE  PointersInv'
<1>1. status = "run"
  BY DEF new, Resolved, Fetch
<1>2. CASE /\ Allocate(<<new_object(ins.arg.clazz)>>)
           /\ Goto(push_ref(opst, Len(memory) + 1), frame.pc + 3)
  <2>1. Len(memory) + 1 \in Nat /\ drop(opst, 0) = opst /\ 0 \in 0 .. Len(rule.stk)
    BY <1>1, Here, NoDrop
  <2>2. BlockIn(new_object(ins.arg.clazz), Len(memory) + 1)
    BY <2>1 DEF new_object, Block, BlockIn, CellIn
  <2> QED BY <1>1, <1>2, <2>1, <2>2, MadeIn
<1> QED BY <1>2, CrashIn DEF new

-----------------------------------------------------------------------------
\* main() starts an activation.
LEMMA EnteredIn ==
  ASSUME SafeInv, PointersInv, UNCHANGED <<prog, memory, callers>>,
         NEW c, NEW name, NEW locals, NEW via, frame' = Activation(c, name, locals, via),
         LocalsIn(locals, Len(memory))
  PROVE  PointersInv'
<1>1. frame'.op_stack = <<>> /\ frame'.locals = locals
  BY DEF Activation
<1>2. StackIn(<<>>, Len(memory))
  BY DEF StackIn, IsSequence, Elements
<1>3. Len(memory) \in Nat /\ BlocksIn'
  BY SameBlocks DEF SafeInv, HeapsOK, IsSequence
<1> QED BY <1>1, <1>2, <1>3, FrameStep DEF FrameIn

\* Fresh local variables hold no references.
LEMMA FillIn ==
  ASSUME NEW c, NEW name, NEW e \in Uninitialised \cup {Zeroed}, NEW n
  PROVE  LocalsIn(Fill(c, name, e), n)
<1>1. EntryIn(e, n)
  <2>1. CASE e = Zeroed
    BY <2>1 DEF Zeroed, EntryIn, NULL
  <2>2. CASE e \in Uninitialised
    <3>1. e.type = "UNINIT"
      BY <2>2 DEF Uninitialised
    <3> QED BY <3>1 DEF EntryIn
  <2> QED BY <2>1, <2>2
<1> QED BY <1>1 DEF Fill, LocalsIn

LEMMA MainIn ==
  ASSUME SafeInv, PointersInv, main
  PROVE  PointersInv'
<1>1. ASSUME NEW c, RunClinit(c), UNCHANGED memory
      PROVE  PointersInv'
  <2>1. CASE find_method(c, "<clinit>")
    <3>1. PICK u \in Uninitialised : Enter(c, "<clinit>", Fill(c, "<clinit>", u))
      BY <1>1, <2>1 DEF RunClinit
    <3> QED BY <1>1, <3>1, FillIn, EnteredIn DEF Enter
  <2>2. CASE ~find_method(c, "<clinit>")
    BY <1>1, <2>2, QuietIn DEF RunClinit
  <2> QED BY <2>1, <2>2
<1>2. CASE native_clinit
  BY <1>1, <1>2 DEF native_clinit
<1>3. CASE add_main_class
  BY <1>1, <1>3, CrashIn DEF add_main_class, add_class
<1>4. CASE call_main
  <2>1. CASE /\ Enter(prog.main, MainMethod, Fill(prog.main, MainMethod, Zeroed))
             /\ UNCHANGED heaps
    BY <2>1, FillIn, EnteredIn DEF Enter
  <2> QED BY <1>4, <2>1, CrashIn DEF call_main
<1>5. CASE shutdown
  BY <1>5, CrashIn DEF shutdown
<1> QED BY <1>2, <1>3, <1>4, <1>5 DEF main

\* A nested execute().
LEMMA CalledIn ==
  ASSUME SafeInv, PointersInv, status = "run", UNCHANGED memory,
         NEW c, NEW name, NEW locals, NEW via, NEW stack, Call(c, name, locals, via, stack),
         LocalsIn(locals, Len(memory)), StackIn(stack, Len(memory))
  PROVE  PointersInv'
<1>1. PICK f, n : f = [frame EXCEPT !.op_stack = stack] /\ n = Len(memory)
  OBVIOUS
<1>2. /\ callers' = Append(callers, f) /\ frame' = Activation(c, name, locals, via)
      /\ UNCHANGED <<prog, memory>> /\ Len(memory') = n
  BY <1>1 DEF Call
<1>3. FrameIn(f, n)
  <2>1. f.op_stack = stack /\ f.locals = frame.locals
    BY <1>1, Current DEF IsActivation
  <2> QED BY <1>1, <2>1, Here DEF FrameIn
<1>4. FrameIn(frame', n)
  <2>1. frame'.op_stack = <<>> /\ frame'.locals = locals
    BY <1>2 DEF Activation
  <2> QED BY <1>1, <2>1 DEF FrameIn, StackIn, IsSequence, Elements
<1>5. /\ Len(callers) \in Nat /\ Len(callers') = Len(callers) + 1 /\ callers'[Len(callers) + 1] = f
      /\ \A i \in 1 .. Len(callers) : callers'[i] = callers[i]
  BY <1>2, AppendElements DEF SafeInv, ClassInv, ActivationsInv
<1>6. ASSUME NEW i \in 1 .. Len(callers')
      PROVE  FrameIn(callers'[i], n)
  <2>1. CASE i \in 1 .. Len(callers)
    BY <1>1, <1>5, <2>1 DEF PointersInv
  <2>2. CASE i = Len(callers) + 1
    BY <1>3, <1>5, <2>2
  <2> QED BY <1>5, <2>1, <2>2
<1>7. BlocksIn'
  BY <1>2, SameBlocks
<1> QED BY <1>2, <1>4, <1>6, <1>7 DEF PointersInv

\* The arguments of a method, and "this".
LEMMA ArgumentIn ==
  ASSUME SafeInv, PointersInv, Resolved({"invokestatic", "invokespecial", "invokevirtual"})
  PROVE  /\ \A j \in 1 .. num_params : EntryIn(Argument(j), Len(memory))
         /\ ins.op # "invokestatic" => EntryIn(this, Len(memory))
<1>1. /\ status = "run" /\ Len(opst) = Len(rule.stk) /\ Len(rule.stk) \in Nat
      /\ num_params = Len(callee.params) /\ num_params \in Nat
      /\ Popped \in Nat /\ Popped <= Len(rule.stk) /\ num_params <= Popped
      /\ ins.op # "invokestatic" => num_params < Popped
      /\ ArgumentsFit(rule.stk, ins.op, callee)
  BY Target, Here DEF Popped
<1>2. ASSUME NEW k \in Nat, k < Len(rule.stk)
      PROVE  /\ EntryIn(peek(opst, k), Len(memory)) /\ peek(rule.stk, k) \in VTypes
             /\ peek(opst, k).type \in OperandTags(peek(rule.stk, k))
  BY <1>1, <1>2, Here, Current, PeekFits
<1>3. ASSUME NEW j \in 1 .. num_params
      PROVE  EntryIn(Argument(j), Len(memory))
  <2>1. PICK e, k, t : /\ k = num_params - j /\ e = opst[Len(opst) - num_params + j]
                       /\ t = peek(rule.stk, k)
    OBVIOUS
  <2>2. k \in Nat /\ k < Len(rule.stk) /\ e = peek(opst, k)
    BY <1>1, <2>1 DEF peek
  <2>3. EntryIn(e, Len(memory)) /\ t \in VTypes /\ e.type \in OperandTags(t)
    BY <1>2, <2>1, <2>2
  <2>4. e.type \in IntegerTypes \/ e.type = "REF"
    BY <2>3 DEF VTypes, OperandTags, IntegerTypes
  <2>5. EntryIn(pop_to_local(e), Len(memory))
    BY <2>3, <2>4 DEF pop_to_local, EntryIn
  <2> QED BY <2>1, <2>5 DEF Argument
<1>4. ASSUME ins.op # "invokestatic"
      PROVE  EntryIn(this, Len(memory))
  <2>1. num_params < Len(rule.stk) /\ peek(rule.stk, num_params) = "A"
    BY <1>1, <1>4 DEF ArgumentsFit
  <2>2. EntryIn(peek(opst, num_params), Len(memory)) /\ peek(opst, num_params).type = "REF"
    BY <1>1, <1>2, <2>1 DEF OperandTags
  <2> QED BY <2>2 DEF this, EntryIn
<1> QED BY <1>3, <1>4

LEMMA JavaIn ==
  ASSUME SafeInv, PointersInv, invokestatic \/ invokespecial \/ invokevirtual
  PROVE  PointersInv'
<1>1. /\ status = "run" /\ Resolved({"invokestatic", "invokespecial", "invokevirtual"})
      /\ UNCHANGED memory
  BY DEF invokestatic, invokespecial, invokevirtual, Invoke, Resolved, Fetch
<1>2. Popped \in 0 .. Len(rule.stk) /\ num_params \in Nat
  BY <1>1, Target, Here
<1>3. PICK first, fill :
        /\ first = (IF ins.op = "invokestatic" THEN 0 ELSE 1)
        /\ fill \in Uninitialised \cup {Zeroed}
        /\ Call(ins.arg.clazz, ins.arg.name, OwnLocals(first, fill), ins.op, drop(opst, Popped))
  <2>1. CASE invokestatic
    BY <2>1 DEF invokestatic, Invoke, Resolved, Fetch
  <2>2. CASE invokespecial
    BY <2>2 DEF invokespecial, Invoke, Resolved, Fetch
  <2>3. CASE invokevirtual
    BY <2>3 DEF invokevirtual, Invoke, Resolved, Fetch
  <2> QED BY <2>1, <2>2, <2>3
<1>4. PICK locals : locals = OwnLocals(first, fill)
  OBVIOUS
<1>5. LocalsIn(locals, Len(memory))
  <2>1. EntryIn(fill, Len(memory))
    BY <1>3 DEF Uninitialised, Zeroed, EntryIn, NULL
  <2>2. DOMAIN locals = 0 .. callee.max_locals - 1
    BY <1>4 DEF OwnLocals
  <2>3. ASSUME NEW i \in 0 .. callee.max_locals - 1
        PROVE  EntryIn(locals[i], Len(memory))
    <3>1. locals[i] = IF i < first THEN this
                      ELSE IF i - first < num_params THEN Argument(i - first + 1) ELSE fill
      BY <1>4 DEF OwnLocals
    <3>2. CASE i < first
      BY <1>1, <1>3, <3>1, <3>2, ArgumentIn
    <3>3. CASE ~(i < first) /\ i - first < num_params
      <4>1. i - first + 1 \in 1 .. num_params
        BY <1>2, <1>3, <3>3
      <4> QED BY <1>1, <3>1, <3>3, <4>1, ArgumentIn
    <3>4. CASE ~(i < first) /\ ~(i - first < num_params)
      BY <2>1, <3>1, <3>4
    <3> QED BY <3>2, <3>3, <3>4
  <2> QED BY <2>2, <2>3 DEF LocalsIn
<1> QED BY <1>1, <1>2, <1>3, <1>4, <1>5, Here, CalledIn

LEMMA NativesIn ==
  ASSUME SafeInv, PointersInv, native_access_fails \/ native_void \/ native_value \/ native_string
  PROVE  PointersInv'
<1>1. CASE native_access_fails
  BY <1>1, WildIn DEF native_access_fails
<1>2. ASSUME NativeCall
      PROVE  status = "run" /\ Popped \in 0 .. Len(rule.stk)
  BY <1>2, NativeTarget
<1>3. CASE native_void
  BY <1>2, <1>3, IntegerIn DEF native_void
<1>4. CASE native_value
  <2>1. NativeCall
    BY <1>4 DEF native_value
  <2>2. PICK v, stack :
          /\ Advance(stack, 3)
          /\ stack \in {drop(opst, Popped), push_byte(drop(opst, Popped), v),
                        push_int(drop(opst, Popped), v), push_long(drop(opst, Popped), v)}
    <3>1. CASE Implementation \notin PtrNatives
      BY <1>4, <3>1 DEF native_value
    <3>2. CASE Implementation \in PtrNatives
      <4>1. PICK r : Advance(CASE callee.ret = "J" -> push_long(drop(opst, Popped), r)
                               [] callee.ret = "C" /\ ins.op = "invokestatic" -> push_byte(drop(opst, Popped), r)
                               [] OTHER -> push_int(drop(opst, Popped), r),
                             3)
        BY <1>4, <3>2 DEF native_value
      <4> QED BY <4>1
    <3> QED BY <3>1, <3>2
  <2> QED BY <1>2, <2>1, <2>2, IntegerIn
<1>5. CASE native_string
  <2>1. NativeCall /\ callee.ret = "String" /\ ins.op = "invokevirtual"
    BY <1>5, NativeTarget DEF native_string
  <2>2. CASE /\ Allocate(<<new_string(frame.clazz)>>)
             /\ Goto(push_ref(drop(opst, Popped), Len(memory) + 1), frame.pc + 3)
    <3>1. BlockIn(new_string(frame.clazz), Len(memory) + 1)
      BY PlainIn DEF new_string, Block
    <3> QED BY <1>2, <2>1, <2>2, <3>1, MadeIn
  <2> QED BY <1>5, <2>1, <2>2, CrashIn DEF native_string
<1> QED BY <1>1, <1>3, <1>4, <1>5

LEMMA ConcatenationIn ==
  ASSUME SafeInv, PointersInv, invokedynamic
  PROVE  PointersInv'
<1>1. /\ status = "run" /\ ins.op = "invokedynamic"
      /\ FieldRule(method, frame.pc, ins.op, ins.arg, prog.classes)
  BY Rules DEF invokedynamic, Fetch
<1>2. ins.arg.params \in 0 .. Len(rule.stk) /\ ins.arg.constants = 1
  BY <1>1 DEF FieldRule, rule
<1> DEFINE n == ins.arg.params
           operands == SubSeq(opst, Len(opst) - n + 1, Len(opst))
           numbers == {i \in 1 .. n : operands[i].type # "REF"}
<1>3. PICK made : made = Cardinality(numbers) + 1
  <2> HIDE DEF numbers
  <2> QED OBVIOUS
<1>4. Len(rule.stk) \in Nat /\ n \in Nat /\ n <= Len(rule.stk)
  BY <1>1, <1>2, Current
<1>5. made \in Nat
  <2>1. Cardinality(numbers) \in Nat
    BY <1>4, NumbersCounted
  <2> HIDE DEF numbers
  <2> QED BY <1>3, <2>1
<1>6. CASE /\ memory' = memory \o [i \in 1 .. made |-> new_string(frame.clazz)]
           /\ Goto(push_ref(drop(opst, n), Len(memory) + made), frame.pc + 5)
  <2> HIDE DEF numbers, operands
  <2>1. PICK blocks : blocks = [i \in 1 .. made |-> new_string(frame.clazz)]
    OBVIOUS
  <2>2. IsSequence(blocks) /\ Len(blocks) = made /\ \A i \in 1 .. made : blocks[i].kind = "string"
    <3>1. blocks \in Seq({new_string(frame.clazz)}) /\ Len(blocks) = made
      BY <1>5, <2>1
    <3> QED BY <1>5, <2>1, <3>1, SequenceOfSet DEF new_string, Block
  <2>3. \A i \in 1 .. Len(blocks) : BlockIn(blocks[i], Len(memory) + Len(blocks))
    BY <2>2, PlainIn
  <2>4. memory' = memory \o blocks /\ UNCHANGED prog
    BY <1>6, <2>1 DEF Goto
  <2>5. /\ BlocksIn' /\ Len(memory) \in Nat /\ Len(memory') \in Nat
        /\ Len(memory') = Len(memory) + made /\ Len(memory) <= Len(memory')
    BY <2>2, <2>3, <2>4, BlocksMadeIn
  <2>6. Len(memory) + made \in 0 .. Len(memory')
    BY <2>5
  <2>7. Goto(push_ref(drop(opst, n), Len(memory) + made), frame.pc + 5)
    BY <1>6
  <2> HIDE DEF n
  <2>8. n \in 0 .. Len(rule.stk)
    BY <1>2 DEF n
  <2> QED BY <1>1, <2>5, <2>6, <2>7, <2>8, ReferenceIn
<1> HIDE DEF numbers, operands
<1>7. \/ \E how : Crash(how)
      \/ \E p : WildAccess(p)
      \/ /\ memory' = memory \o [i \in 1 .. made |-> new_string(frame.clazz)]
         /\ Goto(push_ref(drop(opst, n), Len(memory) + made), frame.pc + 5)
  BY <1>3, ConcatenationStep DEF n, numbers, operands
<1> QED BY <1>6, <1>7, CrashIn, WildIn

LEMMA InvokesIn ==
  ASSUME SafeInv, PointersInv, invokes
  PROVE  PointersInv'
<1>1. CASE invoke_fails
  BY <1>1, CrashIn DEF invoke_fails
<1> QED BY <1>1, JavaIn, NativesIn, ConcatenationIn DEF invokes

LEMMA LoadClassIn ==
  ASSUME SafeInv, PointersInv, load_class
  PROVE  PointersInv'
<1>1. status = "run"
  BY DEF load_class, Fetch
<1>2. ASSUME NEW c, NEW u \in Uninitialised, UNCHANGED memory,
             Call(c, "<clinit>", Fill(c, "<clinit>", u), "clinit", opst)
      PROVE  PointersInv'
  <2>1. LocalsIn(Fill(c, "<clinit>", u), Len(memory)) /\ StackIn(opst, Len(memory))
    BY <1>1, FillIn, Here
  <2> QED BY <1>1, <1>2, <2>1, CalledIn
<1>3. CASE UNCHANGED <<prog, frame, callers, memory>>
  BY <1>3, QuietIn
<1> QED BY <1>2, <1>3 DEF load_class, add_class, Crash

\* The caller goes on.
LEMMA ResumedIn ==
  ASSUME SafeInv, PointersInv, status = "run", callers # <<>>,
         NEW stack, NEW len, Resume(stack, len), StackIn(stack, Len(memory))
  PROVE  PointersInv'
<1>1. /\ frame'.op_stack = stack /\ frame'.locals = caller.locals /\ callers' = drop(callers, 1)
      /\ UNCHANGED <<prog, memory>>
  BY CallerTyped DEF Resume, IsActivation
<1>2. FrameIn(caller, Len(memory))
  BY CallerTyped DEF PointersInv, caller
<1>3. FrameIn(frame', Len(memory))
  BY <1>1, <1>2 DEF FrameIn
<1>4. /\ Len(callers') = Len(callers) - 1 /\ Len(callers) \in Nat
      /\ \A i \in 1 .. Len(callers) - 1 : callers'[i] = callers[i]
  BY <1>1, CallerTyped, DropElements
<1>5. \A i \in 1 .. Len(callers') : FrameIn(callers'[i], Len(memory))
  BY <1>4 DEF PointersInv
<1>6. BlocksIn'
  BY <1>1, SameBlocks
<1> QED BY <1>1, <1>3, <1>5, <1>6 DEF PointersInv

LEMMA ReturnsIn ==
  ASSUME SafeInv, PointersInv, returns
  PROVE  PointersInv'
<1>1. status = "run" /\ ins.op \in Returns /\ ReturnRule(method, frame.pc, ins.op)
  BY Rules DEF returns, wrong_return, return_to_main, return_from_clinit, return_from_special,
               return_value, Fetch
<1>2. callers # <<>> => StackIn(caller.op_stack, Len(memory))
  BY <1>1, CallerTyped DEF PointersInv, FrameIn, caller
<1>3. CASE return_to_main
  BY <1>3, EnteredIn DEF return_to_main, Idle, LocalsIn
<1>4. CASE return_from_clinit \/ return_from_special
  BY <1>1, <1>2, <1>4, ResumedIn DEF return_from_clinit, return_from_special
<1>5. CASE return_value
  <2>1. EntryIn([type |-> result.type, value |-> result.value], Len(memory))
    <3>1. CASE ins.op = "areturn"
      <4>1. Top(rule.stk, "A")
        BY <1>1, <3>1 DEF ReturnRule, rule
      <4>2. top(opst).type = "REF" /\ 1 <= Len(rule.stk)
        BY <1>1, <4>1, TopRead DEF OperandTags
      <4>3. EntryIn(top(opst), Len(memory))
        BY <1>1, <4>2, Here DEF top
      <4> QED BY <3>1, <4>2, <4>3 DEF result, EntryIn
    <3>2. CASE ins.op \in {"ireturn", "lreturn", "return"}
      BY <3>2 DEF result, EntryIn, NULL
    <3> QED BY <1>1, <3>1, <3>2 DEF Returns
  <2>2. PICK tag, value, stack :
          /\ tag = result.type /\ value = result.value
          /\ stack = IF tag = "NONE" THEN caller.op_stack ELSE Push(caller.op_stack, tag, value)
    OBVIOUS
  <2>3. callers # <<>> /\ Resume(stack, 3)
    BY <1>5, <2>2 DEF return_value
  <2>4. StackIn(stack, Len(memory))
    BY <1>2, <2>1, <2>2, <2>3, AppendIn DEF Push
  <2> QED BY <1>1, <2>3, <2>4, ResumedIn
<1>6. CASE wrong_return
  BY <1>6, CrashIn DEF wrong_return
<1> QED BY <1>3, <1>4, <1>5, <1>6 DEF returns

-----------------------------------------------------------------------------
\* No step makes a stray reference.
LEMMA NextIn ==
  ASSUME FieldsAgree, StaticReadsLive, SafeInv, PointersInv, [Next]_vars
  PROVE  PointersInv'
<1>1. CASE main \/ pushes \/ stores \/ operators \/ branches \/ arrays
  BY <1>1, MainIn, ConstantsIn, LoadsIn, DupIn, StoresIn, OperatorsIn, BranchesIn, ArraysIn DEF pushes
<1>2. CASE fields \/ load_class \/ new \/ invokes \/ returns
  BY <1>2, FieldsIn, LoadClassIn, NewIn, InvokesIn, ReturnsIn
<1>3. CASE no_case \/ no_return \/ ended \/ UNCHANGED vars
  BY <1>3, CrashIn, QuietIn DEF no_case, no_return, ended, vars
<1> QED BY <1>1, <1>2, <1>3 DEF Next, execute

LEMMA InitIn ==
  ASSUME Init
  PROVE  PointersInv
<1>1. memory = <<>> /\ callers = <<>> /\ frame.op_stack = <<>> /\ frame.locals = <<>>
  BY DEF Init, Idle, Activation
<1>2. Len(<<>>) = 0 /\ IsSequence(<<>>)
  BY DEF IsSequence, Elements
<1> QED BY <1>1, <1>2 DEF PointersInv, BlocksIn, FrameIn, StackIn, LocalsIn

\* PointersLive of HeapSafety: a verified program that never reads a static
\* reference field before it has assigned it, and whose fields of one name have
\* one descriptor, never has a stray reference to dereference, although nothing
\* in execute() distinguishes pointers from integers when it copies them.
THEOREM PointersLiveHolds ==
  ASSUME FieldsAgree
  PROVE  Spec /\ []StaticReadsLive => []PointersLive
<1>1. Init => PointersInv
  BY InitIn
<1>2. SafeInv /\ PointersInv /\ StaticReadsLive /\ [Next]_vars => PointersInv'
  BY NextIn
<1>3. SafeInv /\ PointersInv => PointersLive
  BY PointersInvImplies
<1> QED BY <1>1, <1>2, <1>3, SafeInvariant, PTL DEF Spec
=============================================================================

----------------------------- MODULE HeapSafety -----------------------------
(***************************************************************************)
(* Who owns the memory of Java objects.  There is no garbage collector:    *)
(* object_heap remembers every object, string and array until the process  *)
(* ends, and free_object_heap() frees each of them, the rows of an array   *)
(* of arrays through the array.                                            *)
(***************************************************************************)
EXTENDS ClassLoading

Live(p) == p = NULL \/ p \in 1 .. Len(memory)

\* The variables and fields that hold references, by the tag they carry.
References(entries) == {entries[i].value : i \in {j \in DOMAIN entries : entries[j].type = "REF"}}

Pointers(block) ==
    CASE block.kind = "object" ->
           {block.cells[f].value : f \in
              {g \in DOMAIN block.cells : block.cells[g].type \in {"PTR", "STR_PTR"}}}
      [] block.kind = "int[][]" -> {block.cells[i] : i \in DOMAIN block.cells}
      [] OTHER -> {}

\* Every reference a program can come to dereference, on an operand stack or in
\* a local variable of any activation, in a field or an array of arrays, is null
\* or the address of a block that is allocated: the handlers never make a
\* pointer of an integer, and take each from the block they have just made.
PointersLive ==
    /\ \A f \in Activations :
         \A p \in References(f.op_stack) \cup References(f.locals) : Live(p)
    /\ \A b \in 1 .. Len(memory) : \A p \in Pointers(memory[b]) : Live(p)

\* What PointersLive needs of a program, and Java would not.  get_class() leaves
\* the static fields uninitialised, so that a reference is read from one only
\* after it has been assigned; and, as Verifier has one type for all references,
\* a field is accessed with the descriptor it has in every class.
StaticReadsLive ==
    status = "run" /\ FieldAccess({"getstatic"}) /\ ins.arg.desc \in {"L", "String", "["}
      => Live(statics[Holder(ins.arg)][ins.arg.name])

FieldsAgree ==
    \A n \in DOMAIN Programs : \A m \in Methods(Programs[n]) : \A q \in DOMAIN m.code :
      m.code[q].op \in {"getfield", "putfield"} =>
        LET f == m.code[q].arg IN
        \A c \in DOMAIN Programs[n].classes :
          f.name \in DOMAIN Programs[n].classes[c].fields =>
            Programs[n].classes[c].fields[f.name] = f.desc

\* What free_object_heap() frees block p for as memory of its own: the entries
\* of object_heap for it, and the rows it is of arrays of arrays.
RowsOf(q, p) ==
    IF memory[q].kind = "int[][]"
    THEN {i \in DOMAIN memory[q].cells : memory[q].cells[i] = p} ELSE {}

Owners(p) ==
    {<<"heap", i>> : i \in {j \in 1 .. Len(object_heap) : object_heap[j] = p}}
    \cup
    UNION {{<<"row", q, i>> : i \in RowsOf(q, p)} : q \in 1 .. Len(memory)}

\* The ways it comes to block p: the owners, and the objects whose first field
\* holds it as a string.
Freeings(p) ==
    Owners(p) \cup
    {<<"field", i>> : i \in {j \in 1 .. Len(object_heap) : p \in StringsFreedWith(object_heap[j])}}

\* A string is assigned to a field that is the first of some class.
StringsFirst == \E c \in DOMAIN prog.classes : TakesString(Class(c).first)

\* Every block has exactly one owner, and free_object_heap() comes to it in no
\* other way unless the program assigns a string to a first field: otherwise
\* all memory is freed once at the end (with such a field, the string is freed
\* again with the object: FreedTwice).
OwnedOnce ==
    /\ \A p \in 1 .. Len(memory) : Cardinality(Owners(p)) = 1
    /\ ~StringsFirst => \A p \in 1 .. Len(memory) : Freeings(p) = Owners(p)
=============================================================================

-------------------------- MODULE ClassFileReader --------------------------
(***************************************************************************)
(* get_class() of java_file.c, which parses one class file, add_class() of *)
(* class_heap.c for the class it returns, the functions that look up its   *)
(* constants, and free_class_heap().                                       *)
(*                                                                         *)
(* A file is a sequence of u1 values, pos what ftell() returns.  An action *)
(* is one of the get_ functions up to its loop, or one turn of a loop; an  *)
(* end of the file that comes too early fails the assertion of read_u1 or  *)
(* of fread, whichever value was being read.                               *)
(*                                                                         *)
(* get_constant_pool() passes its own unfinished result to malloc(), and   *)
(* read_u2() shifts whichever byte is read first; the compiler is free to  *)
(* do both the wrong way round, and the builds do not.                     *)
(***************************************************************************)
EXTENDS Integers, FiniteSets, SequencesExt

CONSTANTS
    Base,           \* the values of a u1: 256
    CodeText,       \* the bytes of "Code"
    BootstrapText,  \* and of "BootstrapMethods"
    Files,          \* the files: [bytes, of, missing] (see ClassReading)
    JunkTags        \* a tag in memory malloc() returns

ASSUME BaseAssumption == Base \in Nat /\ Base > 20

\* A file is made of u1 values.
ASSUME FilesAssumption == \A f \in Files : f.bytes \in Seq(0 .. Base - 1)

VARIABLES
    file,           \* the file being read
    phase,          \* the function and loop that runs, or how the process ended
    pos,            \* the offset of the next byte
    left,           \* turns the loop of this phase has left
    attributes,     \* attributes the field or method that is read has left
    arguments,      \* arguments the bootstrap method that is read has left
    count,          \* constant_pool_count
    cp,             \* the constants read so far, the first at index 1
    clazz,          \* the class_file_t
    live,           \* the blocks allocated for it
    to_free         \* the blocks free_class_heap() is still to free, in order

vars == <<file, phase, pos, left, attributes, arguments, count, cp, clazz, live, to_free>>

Utf8 == 1
Integer == 3
Long == 5
Class == 7
String == 8
FieldRef == 9
MethodRef == 10
InterfaceMethodref == 11
NameAndType == 12
MethodHandle == 15
InvokeDynamic == 18

Ended == {"abort", "error_exit", "undefined", "freed"}

-----------------------------------------------------------------------------
bytes == file.bytes

\* read_u1, read_u2, read_u4 at p; n bytes are left.
u1(p) == bytes[p + 1]
Word == Base * Base
u2(p) == u1(p) * Base + u1(p + 1)
u4(p) == u2(p) * Word + u2(p + 2)

Has(n) == pos + n <= Len(bytes)
Bytes(p, n) == SubSeq(bytes, p + 1, p + n)

\* The parts of a constant behind its tag, by their number of bytes.
Parts(tag) == CASE tag = Integer -> <<4>>
                [] tag = Long -> <<4, 4>>
                [] tag \in {Class, String} -> <<2>>
                [] tag \in {FieldRef, MethodRef, InterfaceMethodref,
                            NameAndType, InvokeDynamic} -> <<2, 2>>
                [] tag = MethodHandle -> <<1, 2>>

Tags == {Utf8, Integer, Long, Class, String, FieldRef, MethodRef,
         InterfaceMethodref, NameAndType, MethodHandle, InvokeDynamic}

PartAt(p, n) == CASE n = 1 -> u1(p) [] n = 2 -> u2(p) [] n = 4 -> u4(p)

ConstantLength ==
    CASE ~Has(1) \/ u1(pos) \notin Tags -> 1
      [] Has(1) /\ u1(pos) = Utf8 -> IF Has(3) THEN 3 + u2(pos + 1) ELSE 3
      [] OTHER -> LET parts == Parts(u1(pos))
                  IN  1 + parts[1] + (IF Len(parts) = 2 THEN parts[2] ELSE 0)

\* bytes of an Integer are an int32_t.
AsInt32(n) == IF n >= (Word * Word) \div 2 THEN n - Word * Word ELSE n

\* The info of the constant at pos.
Info == LET parts == Parts(u1(pos)) IN
    CASE u1(pos) = Utf8 -> Bytes(pos + 3, u2(pos + 1))
      [] u1(pos) = Integer -> <<AsInt32(u4(pos + 1))>>
      [] OTHER -> [k \in 1 .. Len(parts) |->
                     PartAt(pos + 1 + (IF k = 1 THEN 0 ELSE parts[1]), parts[k])]

\* No info that is read: that of an Integer may be negative, but is one number.
NULL == <<-1, -1>>

-----------------------------------------------------------------------------
Attribute == 6      \* attribute_name_index, attribute_length

\* attribute_end, and the assertions on the name of the attribute at pos.
attribute_end == pos + Attribute + u4(pos + 2)

\* get_constant(cp, i), with the tag its caller asserts.
Constant(i, tag) == i \in 1 .. count /\ cp[i].tag = tag

Named(text) == cp[u2(pos)].info = text
Unnamed == cp[u2(pos)].info = NULL

\* Of Code: max_stack, max_locals, code_length, then the code.
code_length == u4(pos + Attribute + 4)

\* The bytes this phase reads in one action.
Needed ==
    CASE phase = "header" -> 8
      [] phase = "constants" -> ConstantLength
      [] phase = "class_info" -> 6
      [] phase \in {"fields", "methods"} -> 8
      [] phase \in {"field_attributes", "class_attributes"} -> Attribute
      [] phase = "method_attributes" ->
           IF Has(Attribute) /\ Constant(u2(pos), Utf8) /\ Named(CodeText)
           THEN Attribute + 8 + (IF Has(Attribute + 8) THEN code_length ELSE 0)
           ELSE Attribute
      [] phase = "bootstrap_methods" -> 4
      [] OTHER -> 2

Reading == {"header", "constant_pool", "constants", "class_info", "interfaces_count",
            "interfaces", "fields_count", "fields", "field_attributes", "methods_count",
            "methods", "method_attributes", "attributes_count", "class_attributes",
            "bootstrap_count", "bootstrap_methods", "bootstrap_arguments"}

In(p) == phase = p /\ Has(Needed)

Halt(how) == /\ phase' = how
             /\ UNCHANGED <<file, pos, left, attributes, arguments, count, cp, clazz, live, to_free>>

premature_end == phase \in Reading /\ ~Has(Needed) /\ Halt("abort")

\* The loop over n things is entered, and left when there are no more.
Loop(n, turn, after) == left' = n /\ phase' = IF n = 0 THEN after ELSE turn
Turn(after) == left' = left - 1 /\ phase' = IF left = 1 THEN after ELSE phase

-----------------------------------------------------------------------------
\* magic and the two versions are read and forgotten.
get_class_header ==
    /\ In("header")
    /\ phase' = "constant_pool" /\ pos' = pos + 8
    /\ UNCHANGED <<file, left, attributes, arguments, count, cp, clazz, live, to_free>>

\* Mutant of get_constant_pool: the count is an int.
get_constant_pool_int ==
    /\ In("constant_pool")
    /\ count' = u2(pos) - 1
    /\ phase' = IF count' = 0 THEN "class_info" ELSE "constants"
    /\ pos' = pos + 2
    /\ live' = live \cup {<<"pool", 0>>}
    /\ UNCHANGED <<file, left, attributes, arguments, cp, clazz, to_free>>

\* The count includes index 0, which has no constant; it is a u2.
get_constant_pool ==
    /\ In("constant_pool")
    /\ count' = (u2(pos) - 1) % Word
    /\ phase' = IF count' = 0 THEN "class_info" ELSE "constants"
    /\ pos' = pos + 2
    /\ live' = live \cup {<<"pool", 0>>}
    /\ UNCHANGED <<file, left, attributes, arguments, cp, clazz, to_free>>

unknown_constant == In("constants") /\ u1(pos) \notin Tags /\ Halt("error_exit")

\* Mutant of read_constant: a long is counted twice and takes one slot.
read_constant_one_slot ==
    /\ In("constants") /\ u1(pos) \in Tags
    /\ cp' = Append(cp, [tag |-> u1(pos), info |-> Info])
    /\ count' = IF u1(pos) = Long THEN count - 1 ELSE count
    /\ phase' = IF Len(cp') = count' THEN "class_info" ELSE phase
    /\ pos' = pos + Needed
    /\ live' = live \cup {<<"constant", Len(cp) + 1>>}
    /\ UNCHANGED <<file, left, attributes, arguments, clazz, to_free>>

\* One constant.  A long is followed by a slot that has no info, and whatever
\* tag its memory held.
read_constant ==
    /\ In("constants") /\ u1(pos) \in Tags
    /\ u1(pos) = Long => Len(cp) + 2 <= count
    /\ \E junk \in JunkTags :
         cp' = cp \o (<<[tag |-> u1(pos), info |-> Info]>>
                      \o IF u1(pos) = Long THEN <<[tag |-> junk, info |-> NULL]>> ELSE <<>>)
    /\ phase' = IF Len(cp') = count THEN "class_info" ELSE phase
    /\ pos' = pos + Needed
    /\ live' = live \cup {<<"constant", Len(cp) + 1>>}
    /\ UNCHANGED <<file, left, attributes, arguments, count, clazz, to_free>>

\* There is no slot behind the last one.
long_in_last_slot ==
    /\ In("constants") /\ u1(pos) = Long /\ Len(cp) + 1 = count
    /\ Halt("undefined")

get_class_info ==
    /\ In("class_info")
    /\ clazz' = [clazz EXCEPT !.access_flags = u2(pos), !.this_class = u2(pos + 2),
                              !.super_class = u2(pos + 4)]
    /\ phase' = "interfaces_count" /\ pos' = pos + 6
    /\ UNCHANGED <<file, left, attributes, arguments, count, cp, live, to_free>>

get_interface ==
    /\ In("interfaces_count")
    /\ Loop(u2(pos), "interfaces", "fields_count") /\ pos' = pos + 2
    /\ live' = live \cup {<<"interfaces", 0>>}
    /\ UNCHANGED <<file, attributes, arguments, count, cp, clazz, to_free>>

read_interface ==
    /\ In("interfaces")
    /\ clazz' = [clazz EXCEPT !.interfaces = Append(@, u2(pos))]
    /\ Turn("fields_count") /\ pos' = pos + 2
    /\ UNCHANGED <<file, attributes, arguments, count, cp, live, to_free>>

-----------------------------------------------------------------------------
\* Fields and methods: access_flags, name_index, descriptor_index and
\* attributes_count, then as many attributes.
MemberNamed == Constant(u2(pos + 2), Utf8) /\ Constant(u2(pos + 4), Utf8)
member_name == cp[u2(pos + 2)].info
member_descriptor == cp[u2(pos + 4)].info

get_fields ==
    /\ In("fields_count")
    /\ Loop(u2(pos), "fields", "methods_count") /\ pos' = pos + 2
    /\ live' = live \cup {<<"fields", 0>>}
    /\ UNCHANGED <<file, attributes, arguments, count, cp, clazz, to_free>>

\* The member has been read: the next one, or what comes after the members.
NextMember(members, after) ==
    left' = left - 1 /\ phase' = IF left = 1 THEN after ELSE members

read_field ==
    /\ In("fields") /\ MemberNamed
    /\ clazz' = [clazz EXCEPT !.fields =
                   Append(@, [name |-> member_name, descriptor |-> member_descriptor])]
    /\ attributes' = u2(pos + 6) /\ pos' = pos + 8
    /\ live' = live \cup {<<"value", Len(clazz.fields) + 1>>}
    /\ IF attributes' = 0 THEN NextMember("fields", "methods_count")
       ELSE phase' = "field_attributes" /\ UNCHANGED left
    /\ UNCHANGED <<file, arguments, count, cp, to_free>>

\* Mutant of read_field_attributes: the length is taken to include the six
\* bytes read before it.
read_field_attributes_short ==
    /\ In("field_attributes")
    /\ pos' = attribute_end - Attribute /\ attributes' = attributes - 1
    /\ IF attributes = 1 THEN NextMember("fields", "methods_count") ELSE UNCHANGED <<phase, left>>
    /\ UNCHANGED <<file, arguments, count, cp, clazz, live, to_free>>

\* Every attribute of a field is skipped.  fseek() goes past the end as well.
read_field_attributes ==
    /\ In("field_attributes")
    /\ pos' = attribute_end /\ attributes' = attributes - 1
    /\ IF attributes = 1 THEN NextMember("fields", "methods_count") ELSE UNCHANGED <<phase, left>>
    /\ UNCHANGED <<file, arguments, count, cp, clazz, live, to_free>>

get_methods ==
    /\ In("methods_count")
    /\ Loop(u2(pos), "methods", "attributes_count") /\ pos' = pos + 2
    /\ live' = live \cup {<<"methods", 0>>}
    /\ UNCHANGED <<file, attributes, arguments, count, cp, clazz, to_free>>

\* The rest of a code_t is not assigned.
NoCode == [code |-> NULL]

read_method ==
    /\ In("methods") /\ MemberNamed
    /\ clazz' = [clazz EXCEPT !.methods =
                   Append(@, [name |-> member_name, descriptor |-> member_descriptor,
                              access_flag |-> u2(pos), code |-> NoCode])]
    /\ attributes' = u2(pos + 6) /\ pos' = pos + 8
    /\ IF attributes' = 0 THEN NextMember("methods", "attributes_count")
       ELSE phase' = "method_attributes" /\ UNCHANGED left
    /\ UNCHANGED <<file, arguments, count, cp, live, to_free>>

method == Len(clazz.methods)
found_code == clazz.methods[method].code.code # NULL

\* Code is kept, any other attribute skipped.  That there is no Code is asserted
\* of methods for which access_flags | ACC_NATIVE is 0: of none.
read_method_attributes ==
    /\ In("method_attributes") /\ Constant(u2(pos), Utf8) /\ ~Unnamed
    /\ IF Named(CodeText)
       THEN /\ ~found_code
            /\ clazz' = [clazz EXCEPT !.methods[method].code =
                           [max_stack |-> u2(pos + Attribute), max_locals |-> u2(pos + Attribute + 2),
                            code |-> Bytes(pos + Attribute + 8, code_length)]]
            /\ live' = live \cup {<<"code", method>>}
       ELSE UNCHANGED <<clazz, live>>
    /\ pos' = attribute_end /\ attributes' = attributes - 1
    /\ IF attributes = 1 THEN NextMember("methods", "attributes_count") ELSE UNCHANGED <<phase, left>>
    /\ UNCHANGED <<file, arguments, count, cp, to_free>>

-----------------------------------------------------------------------------
\* The attributes of the class, up to BootstrapMethods.
read_bootstrap_attribute ==
    /\ In("attributes_count")
    /\ Loop(u2(pos), "class_attributes", "read") /\ pos' = pos + 2
    /\ UNCHANGED <<file, attributes, arguments, count, cp, clazz, live, to_free>>

\* Mutant of skip_class_attribute: only the first attribute is looked at.
skip_class_attribute_once ==
    /\ In("class_attributes") /\ Constant(u2(pos), Utf8)
    /\ ~Unnamed /\ ~Named(BootstrapText)
    /\ phase' = "read" /\ pos' = attribute_end
    /\ UNCHANGED <<file, left, attributes, arguments, count, cp, clazz, live, to_free>>

skip_class_attribute ==
    /\ In("class_attributes") /\ Constant(u2(pos), Utf8)
    /\ ~Unnamed /\ ~Named(BootstrapText)
    /\ Turn("read") /\ pos' = attribute_end
    /\ UNCHANGED <<file, attributes, arguments, count, cp, clazz, live, to_free>>

enter_bootstrap_methods ==
    /\ In("class_attributes") /\ Constant(u2(pos), Utf8) /\ Named(BootstrapText)
    /\ phase' = "bootstrap_count" /\ pos' = pos + Attribute
    /\ live' = live \cup {<<"bootstrap", 0>>}
    /\ UNCHANGED <<file, left, attributes, arguments, count, cp, clazz, to_free>>

num_bootstrap_methods ==
    /\ In("bootstrap_count")
    /\ Loop(u2(pos), "bootstrap_methods", "read") /\ pos' = pos + 2
    /\ clazz' = [clazz EXCEPT !.bootstrap = [found |-> TRUE, methods |-> <<>>]]
    /\ live' = live \cup {<<"bootstrap_methods", 0>>}
    /\ UNCHANGED <<file, attributes, arguments, count, cp, to_free>>

read_bootstrap_method ==
    /\ In("bootstrap_methods")
    /\ clazz' = [clazz EXCEPT !.bootstrap.methods =
                   Append(@, [ref |-> u2(pos), arguments |-> <<>>])]
    /\ arguments' = u2(pos + 2) /\ pos' = pos + 4
    /\ live' = live \cup {<<"arguments", Len(clazz.bootstrap.methods) + 1>>}
    /\ IF arguments' = 0 THEN NextMember("bootstrap_methods", "read")
       ELSE phase' = "bootstrap_arguments" /\ UNCHANGED left
    /\ UNCHANGED <<file, attributes, count, cp, to_free>>

read_bootstrap_argument ==
    /\ In("bootstrap_arguments")
    /\ clazz' = [clazz EXCEPT !.bootstrap.methods[Len(clazz.bootstrap.methods)].arguments =
                   Append(@, u2(pos))]
    /\ arguments' = arguments - 1 /\ pos' = pos + 2
    /\ IF arguments = 1 THEN NextMember("bootstrap_methods", "read") ELSE UNCHANGED <<phase, left>>
    /\ UNCHANGED <<file, attributes, count, cp, live, to_free>>

\* The assertions on names of members and attributes, and on a second Code.
assertion_fails ==
    /\ \/ In("fields") /\ ~MemberNamed
       \/ In("methods") /\ ~MemberNamed
       \/ In("method_attributes") /\ ~Constant(u2(pos), Utf8)
       \/ In("method_attributes") /\ Constant(u2(pos), Utf8) /\ Named(CodeText) /\ found_code
       \/ In("class_attributes") /\ ~Constant(u2(pos), Utf8)
    /\ Halt("abort")

\* The slot behind a long may have the tag of a text.  There is no text to compare.
no_text ==
    /\ In("method_attributes") \/ In("class_attributes")
    /\ Constant(u2(pos), Utf8) /\ Unnamed
    /\ Halt("undefined")

-----------------------------------------------------------------------------
\* add_class(): the entry of the class heap and the name it keeps.
add_class ==
    /\ phase = "read"
    /\ live' = live \cup {<<"meta", 0>>, <<"name", 0>>, <<"clazz", 0>>}
    /\ phase' = "loaded"
    /\ UNCHANGED <<file, pos, left, attributes, arguments, count, cp, clazz, to_free>>

\* A method without a name, which only the slot behind a long can give it, ends
\* the list like the entry that marks its end.
listed == {m \in 1 .. Len(clazz.methods) : \A k \in 1 .. m : clazz.methods[k].name # NULL}

\* A loop over the blocks of a kind, which frees the k-th of them times[k] times.
Frees(kind, times) == FlattenSeq([k \in DOMAIN times |-> [i \in 1 .. times[k] |-> <<kind, k>>]])
Unless(null) == IF null THEN 0 ELSE 1

ConstantFrees == Frees("constant", [k \in 1 .. count |-> Unless(cp[k].info = NULL)])
ValueFrees == Frees("value", [k \in 1 .. Len(clazz.fields) |-> 1])
CodeFrees == Frees("code", [m \in listed |-> Unless(clazz.methods[m].code = NoCode)])

\* The arguments of a bootstrap method are freed as often as it has arguments.
ArgumentsFrees ==
    Frees("arguments", [k \in 1 .. Len(clazz.bootstrap.methods) |->
                          Len(clazz.bootstrap.methods[k].arguments)])
BootstrapFrees ==
    IF clazz.bootstrap.found
    THEN ArgumentsFrees \o <<<<"bootstrap_methods", 0>>, <<"bootstrap", 0>>>> ELSE <<>>

\* Mutant of FreeOrder: the values of the fields are left to the operating system.
FreeOrder_no_values ==
    ConstantFrees \o <<<<"pool", 0>>, <<"fields", 0>>>>
    \o CodeFrees \o <<<<"methods", 0>>, <<"interfaces", 0>>>>
    \o BootstrapFrees \o <<<<"clazz", 0>>, <<"name", 0>>, <<"meta", 0>>>>

\* What free_class_heap() frees for the class, in its order.  NULL, in the slot
\* behind a long and in methods without code, is freed without effect.
FreeOrder ==
    ConstantFrees \o <<<<"pool", 0>>>> \o ValueFrees \o <<<<"fields", 0>>>>
    \o CodeFrees \o <<<<"methods", 0>>, <<"interfaces", 0>>>>
    \o BootstrapFrees \o <<<<"clazz", 0>>, <<"name", 0>>, <<"meta", 0>>>>

free_class_heap ==
    /\ phase = "loaded"
    /\ to_free' = FreeOrder /\ phase' = "freeing"
    /\ UNCHANGED <<file, pos, left, attributes, arguments, count, cp, clazz, live>>

\* A block that is freed a second time is undefined behaviour.
free ==
    /\ phase = "freeing" /\ to_free # <<>>
    /\ IF Head(to_free) \in live
       THEN live' = live \ {Head(to_free)} /\ to_free' = Tail(to_free) /\ UNCHANGED phase
       ELSE phase' = "undefined" /\ UNCHANGED <<live, to_free>>
    /\ UNCHANGED <<file, pos, left, attributes, arguments, count, cp, clazz>>

all_freed == phase = "freeing" /\ to_free = <<>> /\ Halt("freed")

ended == phase \in Ended /\ UNCHANGED vars

-----------------------------------------------------------------------------
\* The constants the interpreter looks up.  Valid says that the assertions of
\* the function hold and that NULL is nothing it dereferences or returns; the
\* other operator is what it then returns.
info(i) == cp[i].info
Usable(i, tag) == Constant(i, tag) /\ info(i) # NULL

get_string_utf(i) == info(info(i)[1])
get_string_utf_valid(i) == Usable(i, String) /\ Usable(info(i)[1], Utf8)

find_class_name_from_index(i) == info(info(i)[1])
find_class_name_from_index_valid(i) == Usable(i, Class) /\ Usable(info(i)[1], Utf8)

\* find_field_info_from_index and find_method_info_from_index differ in the tag
\* they assert.  Neither asserts that the name of the class is Utf8.
find_info(i) ==
    LET name_and_type == info(i)[2]
    IN  <<info(info(info(i)[1])[1]), info(info(name_and_type)[1]), info(info(name_and_type)[2])>>

find_info_valid(i, tag) ==
    /\ Usable(i, tag) /\ Usable(info(i)[2], NameAndType)
    /\ \A k \in {1, 2} : Usable(info(info(i)[2])[k], Utf8)
    /\ Usable(info(i)[1], Class) /\ info(info(i)[1])[1] \in 1 .. count

\* Mutant of find_method: overloaded methods are not told apart.
find_method_by_name(name, desc) ==
    LET same == {m \in listed : clazz.methods[m].name = name}
    IN  IF same = {} THEN 0 ELSE CHOOSE m \in same : \A n \in same : m <= n

\* The first method of the class with this name and descriptor, or 0.
find_method(name, desc) ==
    LET same == {m \in listed :
                   clazz.methods[m].name = name /\ clazz.methods[m].descriptor = desc}
    IN  IF same = {} THEN 0 ELSE CHOOSE m \in same : \A n \in same : m <= n

\* Through the constant i of the class itself.
find_method_from_index(i) == find_method(find_info(i)[2], find_info(i)[3])

\* The index into bootstrap_methods is compared with nothing, and the pointer
\* to the attribute not with NULL.
find_bootstrap_method(i) == clazz.bootstrap.methods[info(i)[1] + 1]
find_bootstrap_method_valid(i) ==
    /\ Usable(i, InvokeDynamic)
    /\ clazz.bootstrap.found /\ info(i)[1] < Len(clazz.bootstrap.methods)

-----------------------------------------------------------------------------
Init ==
    /\ file \in Files
    /\ phase = "header" /\ pos = 0 /\ left = 0 /\ attributes = 0 /\ arguments = 0 /\ count = 0
    /\ cp = <<>> /\ live = {} /\ to_free = <<>>
    /\ clazz = [access_flags |-> 0, this_class |-> 0, super_class |-> 0, interfaces |-> <<>>,
                fields |-> <<>>, methods |-> <<>>, bootstrap |-> [found |-> FALSE, methods |-> <<>>]]

get_class ==
    \/ get_class_header \/ get_constant_pool \/ unknown_constant \/ read_constant
    \/ long_in_last_slot \/ get_class_info \/ get_interface \/ read_interface
    \/ get_fields \/ read_field \/ read_field_attributes
    \/ get_methods \/ read_method \/ read_method_attributes
    \/ read_bootstrap_attribute \/ skip_class_attribute \/ enter_bootstrap_methods
    \/ num_bootstrap_methods \/ read_bootstrap_method \/ read_bootstrap_argument
    \/ assertion_fails \/ no_text \/ premature_end

Step == get_class \/ add_class \/ free_class_heap \/ free \/ all_freed

Spec == Init /\ [][Step \/ ended]_vars

\* One thread, which nothing makes wait.
FairSpec == Spec /\ WF_vars(Step)
=============================================================================

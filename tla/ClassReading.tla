---------------------------- MODULE ClassReading ----------------------------
(***************************************************************************)
(* What the rest of the VM relies on when get_class() has returned.        *)
(***************************************************************************)
EXTENDS ClassFormat

CONSTANT Classes    \* the classes the files are made from, by number

\* The class the file is to describe.
d == Classes[file.of]

Refers(n, tag) == d.constants[n].tag = tag

\* As far as it goes, the file is what a writer of class files makes of the class.
Genuine ==
    /\ Formed(d)
    /\ LET written == Encode(d)
       IN  \A k \in 1 .. Len(written) : k <= Len(bytes) => bytes[k] = written[k]

\* The whole file is there; it has no other constants than java_file.h lists,
\* names that are texts, and at most one Code in every method.
Whole == file.missing = 0

AttributesNamed(s) == \A i \in DOMAIN s : Refers(s[i].name, Utf8)

Supported ==
    /\ \A n \in DOMAIN d.constants : d.constants[n].tag \in Tags
    /\ \A m \in {d.fields[i] : i \in DOMAIN d.fields} \cup {d.methods[i] : i \in DOMAIN d.methods} :
         Refers(m.name, Utf8) /\ Refers(m.desc, Utf8) /\ AttributesNamed(m.attributes)
    /\ \A i \in DOMAIN d.methods : Cardinality(OfKind(d.methods[i].attributes, "Code")) <= 1
    /\ AttributesNamed(d.attributes)

Loaded == phase \in {"loaded", "freeing", "freed"}

Blocks == {"pool", "constant", "interfaces", "fields", "value", "methods", "code",
           "bootstrap", "bootstrap_methods", "arguments", "meta", "name", "clazz"} \X Nat

TypeOK ==
    /\ phase \in Reading \cup Ended \cup {"read", "loaded", "freeing"}
    /\ {pos, left, attributes, arguments, count} \subseteq Nat
    /\ count < Word /\ Len(cp) <= count
    /\ \A i \in 1 .. Len(cp) : cp[i].tag \in Tags \cup JunkTags
    /\ live \in SUBSET Blocks
    /\ \A i \in 1 .. Len(to_free) : to_free[i] \in Blocks

\* The Code of a method, as the class says it.
CodeOf(m) ==
    IF OfKind(m.attributes, "Code") = {} THEN NoCode
    ELSE LET a == FirstOf(m.attributes, "Code")
         IN  [max_stack |-> a.max_stack, max_locals |-> a.max_locals, code |-> a.code]

MethodRead(m, r) == /\ <<r.name, r.descriptor>> = <<Text(d, m.name), Text(d, m.desc)>>
                    /\ r.access_flag = m.access
                    /\ r.code = CodeOf(m)

FieldRead(f, r) == <<r.name, r.descriptor>> = <<Text(d, f.name), Text(d, f.desc)>>

BootstrapRead(b, r) ==
    /\ r.ref = Index(d, b.ref)
    /\ r.arguments = [k \in 1 .. Len(b.arguments) |-> Index(d, b.arguments[k])]

Same(s, r, Reads(_, _)) == Len(r) = Len(s) /\ \A i \in 1 .. Len(s) : Reads(s[i], r[i])

\* A class that get_class() returns is the one the file describes, its names,
\* members, code and bootstrap methods, whatever attributes are skipped on the
\* way and wherever longs stand in the constant pool.  A file that ends too
\* early never loads as anything else (get_class, fseek() past the end).
ReadsBack ==
    Loaded =>
      /\ clazz.access_flags = d.access
      /\ find_class_name_from_index_valid(clazz.this_class)
      /\ find_class_name_from_index(clazz.this_class) = NameOf(d, d.this)
      /\ clazz.super_class = Index(d, d.super)
      /\ clazz.interfaces = [i \in 1 .. Len(d.interfaces) |-> Index(d, d.interfaces[i])]
      /\ Same(d.fields, clazz.fields, FieldRead)
      /\ Same(d.methods, clazz.methods, MethodRead)
      /\ clazz.bootstrap.found <=> OfKind(d.attributes, "BootstrapMethods") # {}
      /\ Same(BootstrapMethodsOf(d), clazz.bootstrap.methods, BootstrapRead)

\* What java_file.c asserts of an index that an instruction uses for a constant
\* with that tag.
Resolves(i, tag) ==
    CASE tag \in {FieldRef, MethodRef} -> find_info_valid(i, tag)
      [] tag = Class -> find_class_name_from_index_valid(i)
      [] tag = String -> get_string_utf_valid(i)
      [] tag = InvokeDynamic -> find_bootstrap_method_valid(i)

\* Every constant an instruction can refer to resolves to the names, the text
\* or the bootstrap method it stands for, and an index that stands for nothing
\* of the kind, the second slot of a long included, ends the process instead of
\* being taken for something else (the find_ functions of java_file.c).
ReferencesResolve ==
    phase = "loaded" =>
      /\ \A n \in DOMAIN d.constants :
           LET i == Index(d, n) IN
           /\ \A tag \in {FieldRef, MethodRef} :
                Refers(n, tag) => Resolves(i, tag) /\ find_info(i) = MemberOf(d, n)
           /\ Refers(n, Class) => Resolves(i, Class) /\ find_class_name_from_index(i) = NameOf(d, n)
           /\ Refers(n, String) => Resolves(i, String) /\ get_string_utf(i) = NameOf(d, n)
           /\ Refers(n, InvokeDynamic) =>
                /\ Resolves(i, InvokeDynamic)
                /\ BootstrapRead(BootstrapMethodsOf(d)[Text(d, n)[1] + 1], find_bootstrap_method(i))
      /\ \A i \in 0 .. Slots(d) : \A tag \in {FieldRef, MethodRef, Class, String, InvokeDynamic} :
           Resolves(i, tag) => \E n \in DOMAIN d.constants : Index(d, n) = i /\ Refers(n, tag)

\* A reference to a method of the class itself finds that method, of several
\* overloaded ones the one with the descriptor, and a reference to none finds
\* none (find_method_from_index).
MethodsFound ==
    phase = "loaded" =>
      \A n \in DOMAIN d.constants : Refers(n, MethodRef) =>
        LET found == find_method_from_index(Index(d, n))
            meant == {m \in DOMAIN d.methods :
                        <<Text(d, d.methods[m].name), Text(d, d.methods[m].desc)>> = Tail(MemberOf(d, n))}
        IN  IF meant = {} THEN found = 0 ELSE found \in meant

OneArgument == \A k \in DOMAIN clazz.bootstrap.methods : Len(clazz.bootstrap.methods[k].arguments) = 1
AllListed == listed = DOMAIN clazz.methods

\* When every bootstrap method has one argument, as those of string
\* concatenation do, and no method is named by the slot behind a long,
\* free_class_heap() frees each block get_class() and add_class() allocated,
\* and none of them twice.
FreedOnce ==
    OneArgument /\ AllListed =>
      /\ to_free # <<>> => Head(to_free) \in live
      /\ phase = "freed" => live = {}

\* The assertion "Missing method code" of read_method_attributes: a method that
\* is loaded without code is native.
ACC_NATIVE == 256
IsNative(m) == (m.access_flag \div ACC_NATIVE) % 2 = 1

MethodsHaveCode ==
    Loaded => \A m \in DOMAIN clazz.methods :
                clazz.methods[m].code = NoCode => IsNative(clazz.methods[m])

\* A whole and well-formed file is loaded in the end: none of the loops, and
\* none of the assertions on the way, stops it.
WholeFilesLoad == (Whole /\ Supported /\ phase = "header") ~> Loaded
=============================================================================

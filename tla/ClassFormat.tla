---------------------------- MODULE ClassFormat ----------------------------
(***************************************************************************)
(* What a class file says, and the bytes that say it: chapter 4 of the     *)
(* Java Virtual Machine Specification, which the comments of java_file.c   *)
(* refer to.  Nothing here is code of the VM.                              *)
(*                                                                         *)
(* A class is [constants, access, this, super, interfaces, fields, methods,*)
(* attributes].  Its constants are numbered 1, 2, ... without gaps, and    *)
(* the rest refers to them by these numbers; in the file a long takes two. *)
(* A constant is [tag, data]: the bytes of a Utf8, the numbers of Integer  *)
(* and Long, otherwise the constants referred to (of MethodHandle and      *)
(* InvokeDynamic, the first is a number).  A member is [access, name,      *)
(* desc, attributes], an attribute [name, kind, ...].                      *)
(***************************************************************************)
EXTENDS ClassFileReader

U2(n) == <<n \div Base, n % Base>>
U4(n) == LET m == n % (Word * Word) IN U2(m \div Word) \o U2(m % Word)

\* A text, and a table: how long it is, and the bytes of it or of each entry.
Counted(text) == U2(Len(text)) \o text
Sized(entries) == U2(Len(entries)) \o FlattenSeq(entries)

\* The index in the file of the n-th constant of class d.
Index(d, n) == n + Cardinality({k \in 1 .. n - 1 : d.constants[k].tag = Long})

Slots(d) == Index(d, Len(d.constants) + 1)

DataBytes(d, c) ==
    LET data == c.data IN
    CASE c.tag = Utf8 -> Counted(data)
      [] c.tag = Integer -> U4(data[1])
      [] c.tag = Long -> U4(data[1]) \o U4(data[2])
      [] c.tag = MethodHandle -> <<data[1]>> \o U2(Index(d, data[2]))
      [] c.tag = InvokeDynamic -> U2(data[1]) \o U2(Index(d, data[2]))
      [] c.tag \in {Class, String} -> U2(Index(d, data[1]))
      [] c.tag \in {FieldRef, MethodRef, InterfaceMethodref, NameAndType} ->
           U2(Index(d, data[1])) \o U2(Index(d, data[2]))
      [] OTHER -> data

ConstantBytes(d, c) == <<c.tag>> \o DataBytes(d, c)

ConstantsOf(d) == [n \in DOMAIN d.constants |-> ConstantBytes(d, d.constants[n])]
IndicesOf(d, s) == [i \in DOMAIN s |-> U2(Index(d, s[i]))]

BootstrapsOf(d, s) ==
    [i \in DOMAIN s |-> U2(Index(d, s[i].ref)) \o Sized(IndicesOf(d, s[i].arguments))]

Content(d, a) ==
    CASE a.kind = "Code" -> U2(a.max_stack) \o U2(a.max_locals) \o U4(Len(a.code)) \o a.code \o a.rest
      [] a.kind = "BootstrapMethods" -> Sized(BootstrapsOf(d, a.methods))
      [] a.kind = "other" -> a.rest

AttributesOf(d, s) ==
    [i \in DOMAIN s |->
       U2(Index(d, s[i].name)) \o U4(Len(Content(d, s[i]))) \o Content(d, s[i])]

MembersOf(d, s) ==
    [i \in DOMAIN s |->
       U2(s[i].access) \o U2(Index(d, s[i].name)) \o U2(Index(d, s[i].desc))
       \o Sized(AttributesOf(d, s[i].attributes))]

\* The file from each of its parts on.
FromAttributes(d) == Sized(AttributesOf(d, d.attributes))
FromMethods(d) == Sized(MembersOf(d, d.methods)) \o FromAttributes(d)
FromFields(d) == Sized(MembersOf(d, d.fields)) \o FromMethods(d)
FromInterfaces(d) == Sized(IndicesOf(d, d.interfaces)) \o FromFields(d)
FromInfo(d) == U2(d.access) \o U2(Index(d, d.this)) \o U2(Index(d, d.super)) \o FromInterfaces(d)
FromPool(d) == U2(Slots(d)) \o (FlattenSeq(ConstantsOf(d)) \o FromInfo(d))

Header == <<12, 10, 15, 14>> \o U2(0) \o U2(17)     \* magic and the versions

Encode(d) == Header \o FromPool(d)

\* The attributes of this kind, by number, and the first of them.
OfKind(s, kind) == {i \in DOMAIN s : s[i].kind = kind}
FirstOf(s, kind) == s[Min(OfKind(s, kind))]
-----------------------------------------------------------------------------
\* A class that can be written: its numbers fit, and what it refers to is there.
U1s == 0 .. Base - 1
U2s == 0 .. Word - 1

Refer(d, n, tag) == n \in DOMAIN d.constants /\ d.constants[n].tag = tag

\* The first bytes of an attribute say how many follow.
Attributes_(d) ==
    LET names == DOMAIN d.constants
        bootstraps == Seq([ref : names, arguments : Seq(names)])
    IN  {a \in [kind : {"Code"}, name : names, max_stack : U2s, max_locals : U2s,
                code : Seq(U1s), rest : Seq(U1s)]
               \cup [kind : {"BootstrapMethods"}, name : names, methods : bootstraps]
               \cup [kind : {"other"}, name : names, rest : Seq(U1s)] :
           Len(Content(d, a)) < Word * Word}

Members_(d) == [access : U2s, name : DOMAIN d.constants, desc : DOMAIN d.constants,
                attributes : Seq(Attributes_(d))]

\* The bootstrap methods of a class, if it has any.
BootstrapMethodsOf(d) ==
    IF OfKind(d.attributes, "BootstrapMethods") = {} THEN <<>>
    ELSE FirstOf(d.attributes, "BootstrapMethods").methods

ConstantFormed(d, c) ==
    /\ c.tag \in U1s /\ c.data \in Seq(Int)
    /\ c.tag = Integer => Len(c.data) = 1
    /\ c.tag = Long => Len(c.data) = 2
    /\ c.tag \in {Class, String} => Len(c.data) = 1 /\ Refer(d, c.data[1], Utf8)
    /\ c.tag = NameAndType => Len(c.data) = 2 /\ \A k \in 1 .. 2 : Refer(d, c.data[k], Utf8)
    /\ c.tag \in {FieldRef, MethodRef, InterfaceMethodref} =>
         Len(c.data) = 2 /\ Refer(d, c.data[1], Class) /\ Refer(d, c.data[2], NameAndType)
    /\ c.tag = InvokeDynamic =>
         /\ Len(c.data) = 2 /\ c.data[1] \in 0 .. Len(BootstrapMethodsOf(d)) - 1
         /\ Refer(d, c.data[2], NameAndType)
    /\ c.tag = MethodHandle => Len(c.data) = 2 /\ c.data[2] \in DOMAIN d.constants

\* An attribute is of a kind if it has the name of the kind.
NamedAsKind(d, a, kind, text) ==
    Refer(d, a.name, Utf8) => (a.kind = kind <=> d.constants[a.name].data = text)

Formed(d) ==
    /\ d.constants \in Seq([tag : U1s, data : Seq(Int)])
    /\ \A n \in DOMAIN d.constants : ConstantFormed(d, d.constants[n])
    /\ d.access \in U2s /\ Refer(d, d.this, Class) /\ d.super \in 0 .. Len(d.constants)
    /\ d.interfaces \in Seq(DOMAIN d.constants)
    /\ d.fields \in Seq(Members_(d)) /\ d.methods \in Seq(Members_(d))
    /\ d.attributes \in Seq(Attributes_(d))
    /\ \A m \in DOMAIN d.methods : \A i \in DOMAIN d.methods[m].attributes :
         NamedAsKind(d, d.methods[m].attributes[i], "Code", CodeText)
    /\ \A i \in DOMAIN d.attributes :
         NamedAsKind(d, d.attributes[i], "BootstrapMethods", BootstrapText)

-----------------------------------------------------------------------------
\* What constant n means: a text, and the texts of a member reference.
Text(d, n) == d.constants[n].data
NameOf(d, n) == Text(d, Text(d, n)[1])
MemberOf(d, n) ==
    LET names == Text(d, Text(d, n)[2])
    IN  <<NameOf(d, Text(d, n)[1]), Text(d, names[1]), Text(d, names[2])>>

=============================================================================

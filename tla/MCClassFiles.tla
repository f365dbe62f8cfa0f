---------------------------- MODULE MCClassFiles ----------------------------
(***************************************************************************)
(* Class files for TLC, whole and cut off after every byte, in a world of  *)
(* 32 values for a byte.                                                   *)
(***************************************************************************)
EXTENDS ClassReading

MCCodeText == <<3, 15, 4, 5>>
MCBootstrapText == <<2, 13>>

Const(tag, data) == [tag |-> tag, data |-> data]
Member(access, name, desc, attributes_) ==
    [access |-> access, name |-> name, desc |-> desc, attributes |-> attributes_]
Code_(name, stack, locals, code_, rest) ==
    [kind |-> "Code", name |-> name, max_stack |-> stack, max_locals |-> locals,
     code |-> code_, rest |-> rest]
Other(name, rest) == [kind |-> "other", name |-> name, rest |-> rest]
BootstrapMethods(name, methods_) ==
    [kind |-> "BootstrapMethods", name |-> name, methods |-> methods_]

\* Constants 1 .. 10, which all the classes have.
Common == <<
    Const(Utf8, <<7>>), Const(Class, <<1>>), Const(Utf8, <<8, 8>>), Const(Class, <<3>>),
    Const(Utf8, MCCodeText), Const(Utf8, MCBootstrapText), Const(Utf8, <<9>>),
    Const(Utf8, <<10>>), Const(Utf8, <<>>), Const(Long, <<1, 1048575>>)>>

File(constants, interfaces, fields, methods, attributes_) ==
    [constants |-> constants, access |-> 33, this |-> 2, super |-> 4, interfaces |-> interfaces,
     fields |-> fields, methods |-> methods, attributes |-> attributes_]

\* Strings and constants of every kind, with longs before, between and behind
\* them; two methods of one name, and attributes of no interest everywhere.
Concatenating ==
    File(Common \o <<
           Const(NameAndType, <<7, 8>>), Const(FieldRef, <<2, 11>>), Const(MethodRef, <<2, 11>>),
           Const(NameAndType, <<7, 9>>), Const(Long, <<0, 5>>), Const(MethodRef, <<4, 14>>),
           Const(String, <<8>>), Const(Integer, <<-1>>), Const(InterfaceMethodref, <<4, 11>>),
           Const(MethodHandle, <<6, 13>>), Const(InvokeDynamic, <<1, 11>>), Const(NameAndType, <<8, 8>>),
           Const(MethodRef, <<2, 22>>), Const(InvokeDynamic, <<0, 14>>), Const(Long, <<3, 4>>)>>,
         <<4, 2>>,
         <<Member(2, 7, 8, <<Other(9, <<1, 0>>), Other(8, <<>>)>>), Member(8, 8, 7, <<>>)>>,
         <<Member(1, 7, 8, <<Other(9, <<5>>), Code_(5, 2, 1, <<18, 20, 1>>, <<0, 0, 0, 0>>)>>),
           Member(9, 7, 9, <<Code_(5, 1, 3, <<31>>, <<>>), Other(8, <<3, 15>>)>>),
           Member(264, 9, 8, <<>>)>>,
         <<Other(9, <<0, 2, 13>>),
           BootstrapMethods(6, <<[ref |-> 20, arguments |-> <<17>>], [ref |-> 20, arguments |-> <<17>>]>>),
           Other(8, <<6>>)>>)

\* A bootstrap method with no argument, one with two: lambda expressions.
Lambda ==
    File(Common \o <<Const(NameAndType, <<7, 8>>), Const(MethodRef, <<2, 11>>),
                     Const(MethodHandle, <<6, 12>>), Const(InvokeDynamic, <<0, 11>>)>>,
         <<>>, <<>>, <<>>,
         <<BootstrapMethods(6, <<[ref |-> 13, arguments |-> <<>>],
                                 [ref |-> 13, arguments |-> <<13, 2>>]>>)>>)

\* No constant but those all have, no bootstrap method.
Small(fields, methods, attributes_) == File(Common, <<>>, fields, methods, attributes_)

Written == <<
    Concatenating, Lambda,
    Small(<<>>, <<Member(1, 7, 8, <<Code_(5, 1, 1, <<>>, <<>>)>>)>>, <<>>),
    Small(<<Member(1, 9, 9, <<>>)>>, <<>>, <<BootstrapMethods(6, <<>>)>>),
    File(Common \o <<Const(4, <<0, 0, 0, 1>>)>>, <<>>, <<>>, <<>>, <<>>)>>

\* What no compiler writes for a class: names that are classes, a second Code, a
\* method with none.
Broken == <<
    Small(<<Member(1, 2, 8, <<>>)>>, <<>>, <<>>), Small(<<>>, <<Member(1, 7, 4, <<>>)>>, <<>>),
    Small(<<>>, <<Member(1, 7, 8, <<Other(2, <<>>)>>)>>, <<>>), Small(<<>>, <<>>, <<Other(2, <<>>)>>),
    Small(<<>>, <<Member(1, 7, 8, <<Code_(5, 1, 1, <<>>, <<>>), Code_(5, 1, 1, <<>>, <<>>)>>)>>, <<>>),
    Small(<<>>, <<Member(1, 7, 8, <<>>)>>, <<>>)>>

MCClasses == Written \o Broken

\* They can all be written, the broken ones too.
ASSUME ClassesFormed == \A k \in 1 .. Len(MCClasses) : Formed(MCClasses[k])

Encoded == [k \in 1 .. Len(MCClasses) |-> Encode(MCClasses[k])]

\* The k-th class without its last n bytes.
Cut(k, n) == [bytes |-> SubSeq(Encoded[k], 1, Len(Encoded[k]) - n), of |-> k, missing |-> n]

\* The k-th class with another byte n bytes before the end.
Altered(k, n, byte) ==
    [bytes |-> [Encoded[k] EXCEPT ![Len(Encoded[k]) - n] = byte], of |-> k, missing |-> 1]

\* A constant pool whose count is 0, a long that is said to be the last constant
\* and to take one slot, and names of attributes that refer to the second slot of
\* one.
Misread == {Altered(3, Len(Encoded[3]) - 10, 0), Altered(3, Len(Encoded[3]) - 10, 11),
            Altered(3, 14, 11), Altered(4, 6, 11)}

MCFiles == UNION {{Cut(k, n) : n \in 0 .. Len(Encoded[k])} : k \in 1 .. Len(Written)}
           \cup {Cut(k, 0) : k \in Len(Written) + 1 .. Len(MCClasses)} \cup Misread

MCJunkTags == {Utf8, MethodRef}
=============================================================================

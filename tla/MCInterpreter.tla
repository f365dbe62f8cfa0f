--------------------------- MODULE MCInterpreter ---------------------------
(***************************************************************************)
(* Programs in the style of the repository's tests, which between them use *)
(* every opcode the VM handles, for TLC.                                   *)
(***************************************************************************)
EXTENDS JavaRefinement, HeapSafety, ClassFiles

\* tests/Recursion.java, tests/Factorial.java: an int from outside (compareTo
\* may return any), an activation for each step.
RecursionMain ==
    MethodOf(TRUE, <<"[L">>, "V", 2, 2,
       0  :> At(<<>>,         <<"A", "-">>, LdcString)
    @@ 2  :> At(<<"A">>,      <<"A", "-">>, LdcString)
    @@ 4  :> At(<<"A", "A">>, <<"A", "-">>, Invoke_("virtual", "String", CompareTo))
    @@ 7  :> At(<<"I">>,      <<"A", "-">>, Ins("istore_n", 1))
    @@ 8  :> At(<<>>,         <<"A", "I">>, Ins("iload_n", 1))
    @@ 9  :> At(<<"I">>,      <<"A", "I">>, Ins("iconst", 3))
    @@ 10 :> At(<<"I", "I">>, <<"A", "I">>, IfIcmp("gt", 9))
    @@ 13 :> At(<<>>,         <<"A", "I">>, Ins("iload_n", 1))
    @@ 14 :> At(<<"I">>,      <<"A", "I">>, Invoke_("static", "Main", "fact"))
    @@ 17 :> At(<<"I">>,      <<"A", "I">>, Ins("istore", 1))
    @@ 19 :> At(<<>>,         <<"A", "I">>, Op("return")))

fact ==
    MethodOf(TRUE, <<"I">>, "I", 3, 1,
       0  :> At(<<>>,              <<"I">>, Ins("iload_n", 0))
    @@ 1  :> At(<<"I">>,           <<"I">>, Ins("iconst", 1))
    @@ 2  :> At(<<"I", "I">>,      <<"I">>, IfIcmp("gt", 5))
    @@ 5  :> At(<<>>,              <<"I">>, Ins("iconst", 1))
    @@ 6  :> At(<<"I">>,           <<"I">>, Op("ireturn"))
    @@ 7  :> At(<<>>,              <<"I">>, Ins("iload_n", 0))
    @@ 8  :> At(<<"I">>,           <<"I">>, Ins("iload", 0))
    @@ 10 :> At(<<"I", "I">>,      <<"I">>, Ins("iconst", 1))
    @@ 11 :> At(<<"I", "I", "I">>, <<"I">>, Op("isub"))
    @@ 12 :> At(<<"I", "I">>,      <<"I">>, Invoke_("static", "Main", "fact"))
    @@ 15 :> At(<<"I", "I">>,      <<"I">>, Op("imul"))
    @@ 16 :> At(<<"I">>,           <<"I">>, Op("ireturn")))

Recursion == Single({"String"}, MainMethod :> RecursionMain @@ "fact" :> fact)

\* A loop whose counter came in as a parameter: iinc works on a variable that
\* pop_to_local has tagged LONG, down to 0, below it and around the end of int.
CountdownMain ==
    MethodOf(TRUE, <<"[L">>, "V", 2, 1,
       0  :> At(<<>>,         <<"A">>, LdcString)
    @@ 2  :> At(<<"A">>,      <<"A">>, LdcString)
    @@ 4  :> At(<<"A", "A">>, <<"A">>, Invoke_("virtual", "String", CompareTo))
    @@ 7  :> At(<<"I">>,      <<"A">>, Invoke_("static", "Main", "countdown"))
    @@ 10 :> At(<<>>,         <<"A">>, Op("return")))

countdown ==
    MethodOf(TRUE, <<"I">>, "V", 1, 1,
       0  :> At(<<>>,    <<"I">>, Iinc(0, -1))
    @@ 3  :> At(<<>>,    <<"I">>, Ins("iload_n", 0))
    @@ 4  :> At(<<"I">>, <<"I">>, If("ge", -4))
    @@ 7  :> At(<<>>,    <<"I">>, Op("return")))

Countdown == Single({"String"}, MainMethod :> CountdownMain @@ "countdown" :> countdown)

\* tests/IntegerTypes.java, tests/PrintLargeNumbers.java: long arithmetic on
\* any two values; a long parameter behind an int one.
LongsMain ==
    MethodOf(TRUE, <<"[L">>, "V", 2, 6,
       0  :> At(<<>>,         <<"A", "-", "-", "-", "-", "-">>, Invoke_("static", "System", Time))
    @@ 3  :> At(<<"J">>,      <<"A", "-", "-", "-", "-", "-">>, Ins("lstore_n", 1))
    @@ 4  :> At(<<>>,         <<"A", "J", "-", "-", "-", "-">>, Invoke_("static", "System", Time))
    @@ 7  :> At(<<"J">>,      <<"A", "J", "-", "-", "-", "-">>, Ins("lstore", 3))
    @@ 9  :> At(<<>>,         <<"A", "J", "-", "J", "-", "-">>, Ins("lload_n", 1))
    @@ 10 :> At(<<"J">>,      <<"A", "J", "-", "J", "-", "-">>, Ins("lload", 3))
    @@ 12 :> At(<<"J", "J">>, <<"A", "J", "-", "J", "-", "-">>, Op("lcmp"))
    @@ 13 :> At(<<"I">>,      <<"A", "J", "-", "J", "-", "-">>, If("ge", 10))
    @@ 16 :> At(<<>>,         <<"A", "J", "-", "J", "-", "-">>, Ins("bipush", 1))
    @@ 18 :> At(<<"I">>,      <<"A", "J", "-", "J", "-", "-">>, Ins("lload_n", 1))
    @@ 19 :> At(<<"I", "J">>, <<"A", "J", "-", "J", "-", "-">>, Invoke_("static", "Main", "f"))
    @@ 22 :> At(<<"J">>,      <<"A", "J", "-", "J", "-", "-">>, Ins("lstore_n", 1))
    @@ 23 :> At(<<>>,         <<"A", "J", "-", "J", "-", "-">>, Op("return")))

f ==
    MethodOf(TRUE, <<"I", "J">>, "J", 2, 3,
       0  :> At(<<>>,         <<"I", "J", "-">>, Ins("lload_n", 1))
    @@ 1  :> At(<<"J">>,      <<"I", "J", "-">>, Op("dup2"))
    @@ 2  :> At(<<"J", "J">>, <<"I", "J", "-">>, Op("lmul"))
    @@ 3  :> At(<<"J">>,      <<"I", "J", "-">>, Ins("ldc2_w", 32766))
    @@ 6  :> At(<<"J", "J">>, <<"I", "J", "-">>, Op("ladd"))
    @@ 7  :> At(<<"J">>,      <<"I", "J", "-">>, Ins("lload_n", 1))
    @@ 8  :> At(<<"J", "J">>, <<"I", "J", "-">>, Op("ldiv"))
    @@ 9  :> At(<<"J">>,      <<"I", "J", "-">>, Ins("iload_n", 0))
    @@ 10 :> At(<<"J", "I">>, <<"I", "J", "-">>, Op("i2l"))
    @@ 11 :> At(<<"J", "J">>, <<"I", "J", "-">>, Op("lsub"))
    @@ 12 :> At(<<"J">>,      <<"I", "J", "-">>, Op("lreturn")))

Longs == Single({"System", "PrintStream"}, MainMethod :> LongsMain @@ "f" :> f)

\* tests/Arithmetic.java: int arithmetic on any value.
IntsMain ==
    MethodOf(TRUE, <<"[L">>, "V", 4, 3,
       0  :> At(<<>>,                   <<"A", "-", "-">>, LdcString)
    @@ 2  :> At(<<"A">>,                <<"A", "-", "-">>, LdcString)
    @@ 4  :> At(<<"A", "A">>,           <<"A", "-", "-">>, Invoke_("virtual", "String", CompareTo))
    @@ 7  :> At(<<"I">>,                <<"A", "-", "-">>, Ins("istore_n", 1))
    @@ 8  :> At(<<>>,                   <<"A", "I", "-">>, Ins("iload_n", 1))
    @@ 9  :> At(<<"I">>,                <<"A", "I", "-">>, If("eq", 33))
    @@ 12 :> At(<<>>,                   <<"A", "I", "-">>, Ins("iload_n", 1))
    @@ 13 :> At(<<"I">>,                <<"A", "I", "-">>, If("gt", 29))
    @@ 16 :> At(<<>>,                   <<"A", "I", "-">>, Ins("ldc", [tag |-> "Integer", value |-> 127]))
    @@ 18 :> At(<<"I">>,                <<"A", "I", "-">>, Ins("iload_n", 1))
    @@ 19 :> At(<<"I", "I">>,           <<"A", "I", "-">>, Op("idiv"))
    @@ 20 :> At(<<"I">>,                <<"A", "I", "-">>, Ins("iload_n", 1))
    @@ 21 :> At(<<"I", "I">>,           <<"A", "I", "-">>, Op("irem"))
    @@ 22 :> At(<<"I">>,                <<"A", "I", "-">>, Op("ineg"))
    @@ 23 :> At(<<"I">>,                <<"A", "I", "-">>, Ins("iconst", 1))
    @@ 24 :> At(<<"I", "I">>,           <<"A", "I", "-">>, Op("i2c"))
    @@ 25 :> At(<<"I", "I">>,           <<"A", "I", "-">>, Op("iadd"))
    @@ 26 :> At(<<"I">>,                <<"A", "I", "-">>, Ins("istore", 2))
    @@ 28 :> At(<<>>,                   <<"A", "I", "I">>, Iinc(2, -2))
    @@ 31 :> At(<<>>,                   <<"A", "I", "I">>, Ins("iload", 2))
    @@ 33 :> At(<<"I">>,                <<"A", "I", "I">>, Ins("sipush", -8))
    @@ 36 :> At(<<"I", "I">>,           <<"A", "I", "I">>, Op("dup2"))
    @@ 37 :> At(<<"I", "I", "I", "I">>, <<"A", "I", "I">>, Op("iadd"))
    @@ 38 :> At(<<"I", "I", "I">>,      <<"A", "I", "I">>, Op("imul"))
    @@ 39 :> At(<<"I", "I">>,           <<"A", "I", "I">>, IfIcmp("ne", 3))
    @@ 42 :> At(<<>>,                   <<"A", "I", "-">>, Op("return")))

Ints == Single({"String"}, MainMethod :> IntsMain)

\* tests/Jumps.java: each comparison, with zero and of two values.
ComparisonMain(rel) ==
    MethodOf(TRUE, <<"[L">>, "V", 2, 2,
       0  :> At(<<>>,         <<"A", "-">>, LdcString)
    @@ 2  :> At(<<"A">>,      <<"A", "-">>, LdcString)
    @@ 4  :> At(<<"A", "A">>, <<"A", "-">>, Invoke_("virtual", "String", CompareTo))
    @@ 7  :> At(<<"I">>,      <<"A", "-">>, Ins("istore_n", 1))
    @@ 8  :> At(<<>>,         <<"A", "I">>, Ins("iload_n", 1))
    @@ 9  :> At(<<"I">>,      <<"A", "I">>, If(rel, 8))
    @@ 12 :> At(<<>>,         <<"A", "I">>, Ins("iload_n", 1))
    @@ 13 :> At(<<"I">>,      <<"A", "I">>, Ins("iconst", 2))
    @@ 14 :> At(<<"I", "I">>, <<"A", "I">>, IfIcmp(rel, 6))
    @@ 17 :> At(<<>>,         <<"A", "I">>, Iinc(1, 1))
    @@ 20 :> At(<<>>,         <<"A", "I">>, Op("return")))

Comparison(rel) == Single({"String"}, MainMethod :> ComparisonMain(rel))

\* tests/Switch.java.
SwitchMain ==
    MethodOf(TRUE, <<"[L">>, "V", 2, 2,
       0  :> At(<<>>,         <<"A", "-">>, LdcString)
    @@ 2  :> At(<<"A">>,      <<"A", "-">>, LdcString)
    @@ 4  :> At(<<"A", "A">>, <<"A", "-">>, Invoke_("virtual", "String", CompareTo))
    @@ 7  :> At(<<"I">>,      <<"A", "-">>, Ins("tableswitch", [low |-> 0, high |-> 1, default |-> 23,
                    targets |-> 0 :> 21 @@ 1 :> 23]))
    @@ 28 :> At(<<>>,         <<"A", "-">>, Ins("iconst", 5))
    @@ 29 :> At(<<"I">>,      <<"A", "-">>, Ins("istore_n", 1))
    @@ 30 :> At(<<>>,         <<"A", "-">>, Op("return")))

Switch == Single({"String"}, MainMethod :> SwitchMain)

\* tests/Constructor.java, tests/NewAndInvokeVirtual.java: a constructor with a
\* long behind an int, fields of each kind, a link that is null unless set.
NodeInit ==
    MethodOf(FALSE, <<"I", "J">>, "V", 2, 4,
       0  :> At(<<>>,         <<"A", "I", "J", "-">>, Ins("aload_n", 0))
    @@ 1  :> At(<<"A">>,      <<"A", "I", "J", "-">>, Invoke_("special", "Object", "<init>"))
    @@ 4  :> At(<<>>,         <<"A", "I", "J", "-">>, Ins("aload_n", 0))
    @@ 5  :> At(<<"A">>,      <<"A", "I", "J", "-">>, Ins("iload_n", 1))
    @@ 6  :> At(<<"A", "I">>, <<"A", "I", "J", "-">>, Field("putfield", "Node", "n", "I"))
    @@ 9  :> At(<<>>,         <<"A", "I", "J", "-">>, Ins("aload_n", 0))
    @@ 10 :> At(<<"A">>,      <<"A", "I", "J", "-">>, Ins("lload_n", 2))
    @@ 11 :> At(<<"A", "J">>, <<"A", "I", "J", "-">>, Field("putfield", "Node", "t", "J"))
    @@ 14 :> At(<<>>,         <<"A", "I", "J", "-">>, Ins("aload_n", 0))
    @@ 15 :> At(<<"A">>,      <<"A", "I", "J", "-">>, LdcString)
    @@ 17 :> At(<<"A", "A">>, <<"A", "I", "J", "-">>, Field("putfield", "Node", "name", "String"))
    @@ 20 :> At(<<>>,         <<"A", "I", "J", "-">>, Op("return")))

get ==
    MethodOf(FALSE, <<>>, "I", 1, 1,
       0  :> At(<<>>,    <<"A">>, Ins("aload_n", 0))
    @@ 1  :> At(<<"A">>, <<"A">>, Field("getfield", "Node", "n", "I"))
    @@ 4  :> At(<<"I">>, <<"A">>, Op("ireturn")))

total ==
    MethodOf(FALSE, <<>>, "J", 1, 1,
       0  :> At(<<>>,    <<"A">>, Ins("aload", 0))
    @@ 2  :> At(<<"A">>, <<"A">>, Field("getfield", "Node", "t", "J"))
    @@ 5  :> At(<<"J">>, <<"A">>, Op("lreturn")))

link ==
    MethodOf(FALSE, <<"L">>, "L", 2, 2,
       0  :> At(<<>>,         <<"A", "A">>, Ins("aload_n", 0))
    @@ 1  :> At(<<"A">>,      <<"A", "A">>, Ins("aload_n", 1))
    @@ 2  :> At(<<"A", "A">>, <<"A", "A">>, Field("putfield", "Node", "next", "L"))
    @@ 5  :> At(<<>>,         <<"A", "A">>, Ins("aload_n", 0))
    @@ 6  :> At(<<"A">>,      <<"A", "A">>, Field("getfield", "Node", "next", "L"))
    @@ 9  :> At(<<"A">>,      <<"A", "A">>, Op("areturn")))

ObjectsMain ==
    MethodOf(TRUE, <<"[L">>, "V", 4, 6,
       0  :> At(<<>>,                   <<"A", "-", "-", "-", "-", "-">>, New_("Node"))
    @@ 3  :> At(<<"A">>,                <<"A", "-", "-", "-", "-", "-">>, Op("dup"))
    @@ 4  :> At(<<"A", "A">>,           <<"A", "-", "-", "-", "-", "-">>, Ins("iconst", 2))
    @@ 5  :> At(<<"A", "A", "I">>,      <<"A", "-", "-", "-", "-", "-">>, Ins("ldc2_w", -32768))
    @@ 8  :> At(<<"A", "A", "I", "J">>, <<"A", "-", "-", "-", "-", "-">>, Invoke_("special", "Node", "<init>"))
    @@ 11 :> At(<<"A">>,                <<"A", "-", "-", "-", "-", "-">>, Ins("astore", 1))
    @@ 13 :> At(<<>>,                   <<"A", "A", "-", "-", "-", "-">>, LdcString)
    @@ 15 :> At(<<"A">>,                <<"A", "A", "-", "-", "-", "-">>, LdcString)
    @@ 17 :> At(<<"A", "A">>,           <<"A", "A", "-", "-", "-", "-">>, Invoke_("virtual", "String", CompareTo))
    @@ 20 :> At(<<"I">>,                <<"A", "A", "-", "-", "-", "-">>, If("lt", 10))
    @@ 23 :> At(<<>>,                   <<"A", "A", "-", "-", "-", "-">>, Ins("aload_n", 1))
    @@ 24 :> At(<<"A">>,                <<"A", "A", "-", "-", "-", "-">>, Ins("aload", 1))
    @@ 26 :> At(<<"A", "A">>,           <<"A", "A", "-", "-", "-", "-">>, Invoke_("virtual", "Node", "link"))
    @@ 29 :> At(<<"A">>,                <<"A", "A", "-", "-", "-", "-">>, Ins("astore_n", 2))
    @@ 30 :> At(<<>>,                   <<"A", "A", "-", "-", "-", "-">>, Ins("aload_n", 1))
    @@ 31 :> At(<<"A">>,                <<"A", "A", "-", "-", "-", "-">>, Field("getfield", "Node", "next", "L"))
    @@ 34 :> At(<<"A">>,                <<"A", "A", "-", "-", "-", "-">>, IfNull(18))
    @@ 37 :> At(<<>>,                   <<"A", "A", "-", "-", "-", "-">>, Ins("aload_n", 1))
    @@ 38 :> At(<<"A">>,                <<"A", "A", "-", "-", "-", "-">>, Invoke_("virtual", "Node", "get"))
    @@ 41 :> At(<<"I">>,                <<"A", "A", "-", "-", "-", "-">>, Ins("istore_n", 3))
    @@ 42 :> At(<<>>,                   <<"A", "A", "-", "-", "-", "-">>, Ins("aload_n", 1))
    @@ 43 :> At(<<"A">>,                <<"A", "A", "-", "-", "-", "-">>, Field("getfield", "Node", "next", "L"))
    @@ 46 :> At(<<"A">>,                <<"A", "A", "-", "-", "-", "-">>, Invoke_("virtual", "Node", "total"))
    @@ 49 :> At(<<"J">>,                <<"A", "A", "-", "-", "-", "-">>, Ins("lstore", 4))
    @@ 51 :> At(<<>>,                   <<"A", "A", "-", "-", "J", "-">>, Op("return"))
    @@ 52 :> At(<<>>,                   <<"A", "A", "-", "-", "-", "-">>, Ins("aload_n", 1))
    @@ 53 :> At(<<"A">>,                <<"A", "A", "-", "-", "-", "-">>, Field("getfield", "Node", "next", "L"))
    @@ 56 :> At(<<"A">>,                <<"A", "A", "-", "-", "-", "-">>, Field("getfield", "Node", "n", "I"))
    @@ 59 :> At(<<"I">>,                <<"A", "A", "-", "-", "-", "-">>, Ins("istore_n", 3))
    @@ 60 :> At(<<>>,                   <<"A", "A", "-", "I", "-", "-">>, Op("return")))

Objects ==
    Program({"String"},
      "Node" :> ClassOf("Object", "n", "n" :> "I" @@ "t" :> "J" @@ "next" :> "L" @@ "name" :> "String",
                     "<init>" :> NodeInit @@ "get" :> get @@ "total" :> total @@ "link" :> link)
      @@ "Main" :> Plain(MainMethod :> ObjectsMain))

\* Inheritance, as far as the VM goes: the constructor of the super
\* class, and one of its methods that the class of the object leaves alone.
SubInit ==
    MethodOf(FALSE, <<>>, "V", 1, 1,
       0  :> At(<<>>,    <<"A">>, Ins("aload_n", 0))
    @@ 1  :> At(<<"A">>, <<"A">>, Invoke_("special", "Base", "<init>"))
    @@ 4  :> At(<<>>,    <<"A">>, Op("return")))

five ==
    MethodOf(FALSE, <<"L">>, "I", 1, 2,
       0  :> At(<<>>,    <<"A", "A">>, Ins("iconst", 5))
    @@ 1  :> At(<<"I">>, <<"A", "A">>, Op("ireturn")))

InheritMain ==
    MethodOf(TRUE, <<"[L">>, "V", 3, 2,
       0  :> At(<<>>,              <<"A", "-">>, New_("Sub"))
    @@ 3  :> At(<<"A">>,           <<"A", "-">>, Op("dup"))
    @@ 4  :> At(<<"A", "A">>,      <<"A", "-">>, Op("dup"))
    @@ 5  :> At(<<"A", "A", "A">>, <<"A", "-">>, Invoke_("special", "Sub", "<init>"))
    @@ 8  :> At(<<"A", "A">>,      <<"A", "-">>, Invoke_("virtual", "Base", "five"))
    @@ 11 :> At(<<"I">>,           <<"A", "-">>, Ins("istore", 1))
    @@ 13 :> At(<<>>,              <<"A", "I">>, Op("return")))

Inherit ==
    Program({"Object"},
      "Base" :> Plain("<init>" :> Constructor @@ "five" :> five)
      @@ "Sub" :> ClassOf("Base", "", <<>>, "<init>" :> SubInit @@ "other" :> five)
      @@ "Main" :> Plain(MainMethod :> InheritMain))

\* tests/Static.java, with a <clinit> that triggers another one, which in turn
\* uses the first class, and a class without one first touched by invokestatic.
StaticsMain ==
    MethodOf(TRUE, <<"[L">>, "V", 1, 1,
       0  :> At(<<>>,    <<"A">>, Invoke_("static", "C", "m"))
    @@ 3  :> At(<<"I">>, <<"A">>, Field("putstatic", "Main", "n", "I"))
    @@ 6  :> At(<<>>,    <<"A">>, Field("getstatic", "A", "s", "S"))
    @@ 9  :> At(<<"I">>, <<"A">>, Field("putstatic", "B", "v", "I"))
    @@ 12 :> At(<<>>,    <<"A">>, Field("getstatic", "A", "str", "String"))
    @@ 15 :> At(<<"A">>, <<"A">>, Field("putstatic", "A", "o", "L"))
    @@ 18 :> At(<<>>,    <<"A">>, Op("return")))

MainClinit ==
    MethodOf(TRUE, <<>>, "V", 1, 0,
       0  :> At(<<>>,    <<>>, Field("getstatic", "B", "v", "I"))
    @@ 3  :> At(<<"I">>, <<>>, Field("putstatic", "Main", "n", "I"))
    @@ 6  :> At(<<>>,    <<>>, Op("return")))

AClinit ==
    MethodOf(TRUE, <<>>, "V", 3, 0,
       0  :> At(<<>>,              <<>>, Field("getstatic", "B", "v", "I"))
    @@ 3  :> At(<<"I">>,           <<>>, Op("dup"))
    @@ 4  :> At(<<"I", "I">>,      <<>>, Field("putstatic", "A", "x", "I"))
    @@ 7  :> At(<<"I">>,           <<>>, Field("putstatic", "A", "b", "B"))
    @@ 10 :> At(<<>>,              <<>>, Ins("iconst", 1))
    @@ 11 :> At(<<"I">>,           <<>>, Op("dup"))
    @@ 12 :> At(<<"I", "I">>,      <<>>, Field("putstatic", "A", "c", "C"))
    @@ 15 :> At(<<"I">>,           <<>>, Field("putstatic", "A", "z", "Z"))
    @@ 18 :> At(<<>>,              <<>>, Ins("sipush", -8))
    @@ 21 :> At(<<"I">>,           <<>>, Field("putstatic", "A", "s", "S"))
    @@ 24 :> At(<<>>,              <<>>, LdcString)
    @@ 26 :> At(<<"A">>,           <<>>, Field("putstatic", "A", "str", "String"))
    @@ 29 :> At(<<>>,              <<>>, Ins("iconst", 2))
    @@ 30 :> At(<<"I">>,           <<>>, Ins("newarray", "T_INT"))
    @@ 32 :> At(<<"A">>,           <<>>, Field("putstatic", "A", "arr", "["))
    @@ 35 :> At(<<>>,              <<>>, Field("getstatic", "A", "arr", "["))
    @@ 38 :> At(<<"A">>,           <<>>, Ins("iconst", 1))
    @@ 39 :> At(<<"A", "I">>,      <<>>, Field("getstatic", "A", "b", "B"))
    @@ 42 :> At(<<"A", "I", "I">>, <<>>, Op("iastore"))
    @@ 43 :> At(<<>>,              <<>>, Op("return")))

BClinit ==
    MethodOf(TRUE, <<>>, "V", 2, 0,
       0  :> At(<<>>,         <<>>, Field("getstatic", "A", "x", "I"))
    @@ 3  :> At(<<"I">>,      <<>>, Ins("iconst", 5))
    @@ 4  :> At(<<"I", "I">>, <<>>, Op("iadd"))
    @@ 5  :> At(<<"I">>,      <<>>, Field("putstatic", "B", "v", "I"))
    @@ 8  :> At(<<>>,         <<>>, Op("return")))

Cm ==
    MethodOf(TRUE, <<>>, "I", 1, 0,
       0  :> At(<<>>,    <<>>, Field("getstatic", "C", "v", "I"))
    @@ 3  :> At(<<"I">>, <<>>, Op("ireturn")))

Statics ==
    Program({"System", "PrintStream"},
      "Main" :> ClassOf("Object", "n", "n" :> "I", MainMethod :> StaticsMain @@ "<clinit>" :> MainClinit)
      @@ "A" :> ClassOf("Object", "x", "x" :> "I" @@ "b" :> "B" @@ "s" :> "S" @@ "c" :> "C" @@ "z" :> "Z"
                                   @@ "o" :> "L" @@ "str" :> "String" @@ "arr" :> "[", "<clinit>" :> AClinit)
      @@ "B" :> ClassOf("Object", "v", "v" :> "I", "<clinit>" :> BClinit)
      @@ "C" :> ClassOf("Object", "v", "v" :> "I", "m" :> Cm))

\* tests/Array.java: a loop that fills an array; a length and an index from
\* outside, and an array of arrays.
ArraysMain ==
    MethodOf(TRUE, <<"[L">>, "V", 3, 3,
       0  :> At(<<>>,              <<"A", "-", "-">>, Ins("iconst", 2))
    @@ 1  :> At(<<"I">>,           <<"A", "-", "-">>, Ins("newarray", "T_INT"))
    @@ 3  :> At(<<"A">>,           <<"A", "-", "-">>, Ins("astore_n", 1))
    @@ 4  :> At(<<>>,              <<"A", "A", "-">>, Ins("iconst", 0))
    @@ 5  :> At(<<"I">>,           <<"A", "A", "-">>, Ins("istore_n", 2))
    @@ 6  :> At(<<>>,              <<"A", "A", "I">>, Ins("iload_n", 2))
    @@ 7  :> At(<<"I">>,           <<"A", "A", "I">>, Ins("iconst", 2))
    @@ 8  :> At(<<"I", "I">>,      <<"A", "A", "I">>, IfIcmp("ge", 13))
    @@ 11 :> At(<<>>,              <<"A", "A", "I">>, Ins("aload_n", 1))
    @@ 12 :> At(<<"A">>,           <<"A", "A", "I">>, Ins("iload_n", 2))
    @@ 13 :> At(<<"A", "I">>,      <<"A", "A", "I">>, Ins("iload_n", 2))
    @@ 14 :> At(<<"A", "I", "I">>, <<"A", "A", "I">>, Op("iastore"))
    @@ 15 :> At(<<>>,              <<"A", "A", "I">>, Iinc(2, 1))
    @@ 18 :> At(<<>>,              <<"A", "A", "I">>, GoTo(-12))
    @@ 21 :> At(<<>>,              <<"A", "A", "I">>, Op("return")))

IndexedMain ==
    MethodOf(TRUE, <<"[L">>, "V", 3, 4,
       0  :> At(<<>>,              <<"A", "-", "-", "-">>, LdcString)
    @@ 2  :> At(<<"A">>,           <<"A", "-", "-", "-">>, LdcString)
    @@ 4  :> At(<<"A", "A">>,      <<"A", "-", "-", "-">>, Invoke_("virtual", "String", CompareTo))
    @@ 7  :> At(<<"I">>,           <<"A", "-", "-", "-">>, Ins("istore_n", 1))
    @@ 8  :> At(<<>>,              <<"A", "I", "-", "-">>, Ins("iload_n", 1))
    @@ 9  :> At(<<"I">>,           <<"A", "I", "-", "-">>, If("lt", 22))
    @@ 12 :> At(<<>>,              <<"A", "I", "-", "-">>, Ins("iload_n", 1))
    @@ 13 :> At(<<"I">>,           <<"A", "I", "-", "-">>, Ins("newarray", "T_INT"))
    @@ 15 :> At(<<"A">>,           <<"A", "I", "-", "-">>, Ins("iconst", 1))
    @@ 16 :> At(<<"A", "I">>,      <<"A", "I", "-", "-">>, Op("iaload"))
    @@ 17 :> At(<<"I">>,           <<"A", "I", "-", "-">>, Ins("istore_n", 2))
    @@ 18 :> At(<<>>,              <<"A", "I", "I", "-">>, Ins("iload_n", 1))
    @@ 19 :> At(<<"I">>,           <<"A", "I", "I", "-">>, Ins("iload_n", 1))
    @@ 20 :> At(<<"I", "I">>,      <<"A", "I", "I", "-">>, Matrix_("[[I"))
    @@ 24 :> At(<<"A">>,           <<"A", "I", "I", "-">>, Ins("astore_n", 3))
    @@ 25 :> At(<<>>,              <<"A", "I", "I", "A">>, Ins("aload_n", 3))
    @@ 26 :> At(<<"A">>,           <<"A", "I", "I", "A">>, Ins("iconst", 0))
    @@ 27 :> At(<<"A", "I">>,      <<"A", "I", "I", "A">>, Op("aaload"))
    @@ 28 :> At(<<"A">>,           <<"A", "I", "I", "A">>, Ins("iconst", 2))
    @@ 29 :> At(<<"A", "I">>,      <<"A", "I", "I", "A">>, Ins("iconst", 5))
    @@ 30 :> At(<<"A", "I", "I">>, <<"A", "I", "I", "A">>, Op("iastore"))
    @@ 31 :> At(<<>>,              <<"A", "I", "-", "-">>, Op("return")))

Arrays == Single({"String"}, MainMethod :> ArraysMain)
Indexed == Single({"String"}, MainMethod :> IndexedMain)

\* tests/Strings.java, and the tests that read their input.
StringsMain ==
    MethodOf(TRUE, <<"[L">>, "V", 2, 4,
       0  :> At(<<>>,         <<"A", "-", "-", "-">>, LdcString)
    @@ 2  :> At(<<"A">>,      <<"A", "-", "-", "-">>, Ins("ldc2_w", 300))
    @@ 5  :> At(<<"A", "J">>, <<"A", "-", "-", "-">>, Concat(2))
    @@ 10 :> At(<<"A">>,      <<"A", "-", "-", "-">>, Ins("astore_n", 1))
    @@ 11 :> At(<<>>,         <<"A", "A", "-", "-">>, Field("getstatic", "System", "out", "L"))
    @@ 14 :> At(<<"A">>,      <<"A", "A", "-", "-">>, Ins("aload_n", 1))
    @@ 15 :> At(<<"A", "A">>, <<"A", "A", "-", "-">>, Invoke_("virtual", "PrintStream", Println))
    @@ 18 :> At(<<>>,         <<"A", "A", "-", "-">>, Ins("aload_n", 1))
    @@ 19 :> At(<<"A">>,      <<"A", "A", "-", "-">>, Ins("iconst", 0))
    @@ 20 :> At(<<"A", "I">>, <<"A", "A", "-", "-">>, Invoke_("virtual", "String", CharAt))
    @@ 23 :> At(<<"I">>,      <<"A", "A", "-", "-">>, Ins("bipush", 1))
    @@ 25 :> At(<<"I", "I">>, <<"A", "A", "-", "-">>, Concat(2))
    @@ 30 :> At(<<"A">>,      <<"A", "A", "-", "-">>, Invoke_("static", "Long", ParseLong))
    @@ 33 :> At(<<"J">>,      <<"A", "A", "-", "-">>, Ins("lstore_n", 2))
    @@ 34 :> At(<<>>,         <<"A", "A", "J", "-">>, Invoke_("static", "System", "gc()V"))
    @@ 37 :> At(<<>>,         <<"A", "A", "J", "-">>, Ins("aload_n", 0))
    @@ 38 :> At(<<"A">>,      <<"A", "A", "J", "-">>, Invoke_("static", "Long", ParseLong))
    @@ 41 :> At(<<"J">>,      <<"A", "A", "J", "-">>, Ins("lstore_n", 2))
    @@ 42 :> At(<<>>,         <<"A", "A", "J", "-">>, Op("return")))

InputMain ==
    MethodOf(TRUE, <<"[L">>, "V", 2, 3,
       0  :> At(<<>>,         <<"A", "-", "-">>, New_("BufferedReader"))
    @@ 3  :> At(<<"A">>,      <<"A", "-", "-">>, Op("dup"))
    @@ 4  :> At(<<"A", "A">>, <<"A", "-", "-">>, Invoke_("special", "BufferedReader", "<init>"))
    @@ 7  :> At(<<"A">>,      <<"A", "-", "-">>, Invoke_("virtual", "BufferedReader", ReadLine))
    @@ 10 :> At(<<"A">>,      <<"A", "-", "-">>, Invoke_("static", "Long", ParseLong))
    @@ 13 :> At(<<"J">>,      <<"A", "-", "-">>, Ins("lstore_n", 1))
    @@ 14 :> At(<<>>,         <<"A", "J", "-">>, Op("return")))

Strings == Single({"String", "Long", "System", "PrintStream"}, MainMethod :> StringsMain)
Input == Single({"Long", "BufferedReader"}, MainMethod :> InputMain)

Scenarios ==
    [recursion |-> Recursion, countdown |-> Countdown, longs |-> Longs, ints |-> Ints, switch |-> Switch,
     objects |-> Objects, inherit |-> Inherit, statics |-> Statics, arrays |-> Arrays, indexed |-> Indexed,
     strings |-> Strings, input |-> Input,
     eq |-> Comparison("eq"), ne |-> Comparison("ne"), lt |-> Comparison("lt"),
     ge |-> Comparison("ge"), gt |-> Comparison("gt"), le |-> Comparison("le")]

\* A field of these programs has one descriptor in all the classes that have
\* it, which is what the proof of PointersLive assumes.
ASSUME FieldsAgreeAssumption == FieldsAgree

\* Each of these programs comes to an end, none of its loops, recursions and
\* initialisers losing its way: execute() is left, and so is main().
Terminates == <>(status \in Terminal)
=============================================================================

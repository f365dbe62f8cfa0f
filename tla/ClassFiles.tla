---------------------------- MODULE ClassFiles ----------------------------
(***************************************************************************)
(* The notation the small class files for TLC are written in, after the    *)
(* listings of javap: pc :> At(operands, locals, instruction), the types   *)
(* of operands and locals being those of the method's type map.  Branches  *)
(* are relative, as in the file.  Nothing here is code of the VM.          *)
(***************************************************************************)
EXTENDS Interpreter, TLC

Ins(op, arg) == [op |-> op, arg |-> arg]
Op(op) == Ins(op, 0)
If(rel, to) == Ins("if", [rel |-> rel, to |-> to])
IfIcmp(rel, to) == Ins("if_icmp", [rel |-> rel, to |-> to])
IfNull(to) == Ins("ifnull", [to |-> to])
GoTo(to) == Ins("goto", [to |-> to])
Invoke_(kind, c, m) == Ins("invoke" \o kind, [clazz |-> c, name |-> m])
Field(op, c, f, d) == Ins(op, [clazz |-> c, name |-> f, desc |-> d])
LdcString == Ins("ldc", [tag |-> "String"])
New_(c) == Ins("new", [clazz |-> c])
Iinc(i, b) == Ins("iinc", [i |-> i, b |-> b])
Matrix_(type) == Ins("multianewarray", type)
Concat(n) == Ins("invokedynamic", [params |-> n, constants |-> 1])

\* The instruction found with these operands and local variables.
At(stk, loc, instr) == [op |-> instr.op, arg |-> instr.arg, stk |-> stk, loc |-> loc]

MethodOf(static, params, ret, max_stack, max_locals, code_) ==
    [native |-> FALSE, static |-> static, params |-> params, ret |-> ret,
     max_stack |-> max_stack, max_locals |-> max_locals, code |-> code_]

Native(static, params, ret) ==
    [native |-> TRUE, static |-> static, params |-> params, ret |-> ret,
     max_stack |-> 0, max_locals |-> 0, code |-> <<>>]

ClassOf(super, first, fields_, methods) ==
    [super |-> super, first |-> first, fields |-> fields_, methods |-> methods, bootstraps |-> {1}]

\* A class without static or instance fields.
Plain(methods) == ClassOf("Object", "", <<>>, methods)

-----------------------------------------------------------------------------
\* The native class library under java/, reduced to what is used here.
PrintString == "print(Ljava/lang/String;)V"
Println == "println(Ljava/lang/String;)V"
CharAt == "charAt(I)C"
CompareTo == "compareTo(Ljava/lang/String;)I"
ParseLong == "parseLong(Ljava/lang/String;)J"
Time == "currentTimeMillis()J"
ReadLine == "readLine()Ljava/lang/String;"

Constructor ==
    MethodOf(FALSE, <<>>, "V", 0, 1,
       0  :> At(<<>>, <<"A">>, Op("return")))

SystemClinit ==
    MethodOf(TRUE, <<>>, "V", 2, 0,
       0  :> At(<<>>,         <<>>, New_("PrintStream"))
    @@ 3  :> At(<<"A">>,      <<>>, Op("dup"))
    @@ 4  :> At(<<"A", "A">>, <<>>, Invoke_("special", "PrintStream", "<init>"))
    @@ 7  :> At(<<"A">>,      <<>>, Field("putstatic", "System", "out", "L"))
    @@ 10 :> At(<<>>,         <<>>, Op("return")))

Library ==
    [Object |-> ClassOf("", "", <<>>, "<init>" :> Constructor),
     System |-> ClassOf("Object", "out", "out" :> "L",
                  ("<clinit>" :> SystemClinit) @@ (Time :> Native(TRUE, <<>>, "J"))
                  @@ ("gc()V" :> Native(TRUE, <<>>, "V"))),
     PrintStream |-> Plain(
                  ("<init>" :> Constructor) @@ (PrintString :> Native(FALSE, <<"String">>, "V"))
                  @@ (Println :> Native(FALSE, <<"String">>, "V"))),
     String |-> Plain(
                  (CharAt :> Native(FALSE, <<"I">>, "C"))
                  @@ (CompareTo :> Native(FALSE, <<"String">>, "I"))),
     Long |-> Plain(ParseLong :> Native(TRUE, <<"String">>, "J")),
     BufferedReader |-> Plain(
                  ("<init>" :> Constructor) @@ (ReadLine :> Native(FALSE, <<>>, "String")))]

\* The classes of a program of several are in a directory of their own.
Program(natives, sources) ==
    [natives |-> natives, prefix |-> "tests/", main |-> "Main", classes |-> sources @@ Library]

\* A program of one class in the working directory, the methods of which are
\* given.
Single(natives, methods) ==
    [natives |-> natives, prefix |-> "", main |-> "Main",
     classes |-> "Main" :> Plain(methods) @@ Library]

\* Uninitialised memory, and what a native method may return: the edges of the
\* ranges of int (here -128 .. 127) and long (-32768 .. 32767).
MCJunk == {0, -1}
MCNativeResults == {-32768, -128, -1, 0, 1, 2, 3, 127, 32767}
=============================================================================

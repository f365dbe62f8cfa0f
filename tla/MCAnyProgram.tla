---------------------------- MODULE MCAnyProgram ----------------------------
(***************************************************************************)
(* Programs that leave the subset PitifulVM supports, or exhaust what it   *)
(* allocates once and for all, for TLC: whatever becomes of them, classes  *)
(* and memory blocks are accounted for until the process ends.             *)
(***************************************************************************)
EXTENDS HeapSafety, ClassFiles

Void(max_locals, code_) == MethodOf(TRUE, <<>>, "V", 9, max_locals, code_)
MainOnly(code_) == Single({"String"}, MainMethod :> Void(3, code_))
Return == Op("return")

\* The body of a <clinit> or of main that only uses a static field.
Using(c) == 0 :> Field("getstatic", c, "v", "I") @@ 3 :> Field("putstatic", c, "v", "I") @@ 6 :> Return
Holding(methods) == ClassOf("Object", "v", "v" :> "I", methods)

-----------------------------------------------------------------------------
\* Initialisers that use each other's classes in a ring; the last class is
\* first reached by a call, at the limit of the class heap; one has no file.
Ring ==
    Program({"System", "PrintStream"},
      "Main" :> Plain("<clinit>" :> Void(0, Using("A"))
                      @@ MainMethod :> Void(1, 0 :> Invoke_("static", "C", "m") @@ 3 :> New_("B") @@ 6 :> Return))
      @@ "A" :> Holding("<clinit>" :> Void(0, Using("B")))
      @@ "B" :> Holding("<clinit>" :> Void(0, Using("A")))
      @@ "C" :> Holding("<clinit>" :> Void(0, Using("B")) @@ "m" :> Void(0, Using("C"))))

Chain ==
    Program({},
      "Main" :> Plain(MainMethod :> Void(1, Using("A")))
      @@ "A" :> Holding("<clinit>" :> Void(0, Using("B")))
      @@ "B" :> Holding("<clinit>" :> Void(0, 0 :> Invoke_("static", "C", "m") @@ 3 :> Return))
      @@ "C" :> Holding("<clinit>" :> Void(0, Using("Missing"))
                        @@ "m" :> Void(0, 0 :> New_("C") @@ 3 :> Field("getstatic", "D", "v", "I")))
      @@ "D" :> Holding("<clinit>" :> Void(0, Using("Missing"))))

\* A class that uses its own static field, after it is initialised.
Own ==
    Program({}, "Main" :> Holding("<clinit>" :> Void(0, 0 :> Return) @@ MainMethod :> Void(1, Using("Main"))))

\* A native class whose <clinit> needs a class that is not under java/, and
\* one whose fields cannot be found while prefix is not set.
EarlyLoad ==
    Program({"Early"},
      "Early" :> Plain("<clinit>" :> Void(0, Using("Main"))) @@ "Main" :> Holding(<<>>))

EarlyField ==
    Program({"Early"},
      "Early" :> Holding("<clinit>" :> Void(0, 0 :> New_("Early") @@ 3 :> Field("getfield", "Early", "w", "I")))
      @@ "Main" :> Plain(<<>>))

\* Static fields of the super class, of its super class, and of one that is
\* not loaded.
Inherited(c) ==
    Program({},
      "Top" :> ClassOf("Object", "w", "w" :> "I", <<>>)
      @@ "Base" :> ClassOf("Top", "v", "v" :> "I", <<>>)
      @@ "Main" :> ClassOf("Base", "", <<>>,
           "<clinit>" :> Void(0, 0 :> New_(c) @@ 3 :> Return)
           @@ MainMethod :> Void(1, 0 :> Field("getstatic", "Main", "v", "I")
                                    @@ 3 :> Field("putstatic", "Main", "v", "I")
                                    @@ 6 :> Field("getstatic", "Main", "w", "I"))))

\* A first field that is a string; an inherited field; a null receiver, one
\* that is a string, and a boolean field.
Fields(rest) ==
    Program({"String"},
      "Box" :> ClassOf("Object", "s", "s" :> "String" @@ "z" :> "Z", <<>>)
      @@ "Main" :> Plain(MainMethod :> Void(2,
           0 :> New_("Box") @@ 3 :> Op("dup") @@ 4 :> Op("dup") @@ 5 :> LdcString
           @@ 7 :> Field("putfield", "Box", "s", "String") @@ 10 :> rest @@ 13 :> Return)))

-----------------------------------------------------------------------------
\* What has no case, no support, or no bound.
Callee(m, instr) ==
    Single({"String"}, "callee" :> m
      @@ MainMethod :> Void(1, 0 :> Ins("iconst", 2) @@ 1 :> instr @@ 4 :> Return))

WrongReturn == Plain("<clinit>" :> Void(0, 0 :> Ins("iconst", 1) @@ 1 :> Op("ireturn")))

Endless ==
    MainOnly(0 :> LdcString @@ 2 :> Ins("astore_n", 1) @@ 3 :> Ins("iconst", 2)
             @@ 4 :> Ins("newarray", "T_INT") @@ 6 :> Ins("astore_n", 1) @@ 7 :> GoTo(-7))

Matrix ==
    MainOnly(0 :> Ins("iconst", 2) @@ 1 :> Ins("iconst", 2) @@ 2 :> Matrix_("[[I")
             @@ 6 :> Ins("iconst", 1) @@ 7 :> Op("aaload") @@ 8 :> Ins("iconst", 5)
             @@ 9 :> Op("iaload") @@ 10 :> Return)

Negative ==
    MainOnly(0 :> Ins("iconst", -1) @@ 1 :> Ins("newarray", "T_INT") @@ 3 :> Ins("iconst", 2)
             @@ 4 :> Ins("iconst", -1) @@ 5 :> Matrix_("[[I") @@ 9 :> Ins("iconst", 0)
             @@ 10 :> Op("aaload"))

NoRows ==
    MainOnly(0 :> Ins("iconst", -1) @@ 1 :> Ins("iconst", 2) @@ 2 :> Matrix_("[[I") @@ 6 :> Return)

Concatenation(rest) ==
    MainOnly(0 :> Ins("iconst", 2) @@ 1 :> LdcString @@ 3 :> Concat(2) @@ 8 :> rest @@ 13 :> Return)

\* A native method that returns a string, called until the heap is full.
Lines ==
    Single({}, ReadLine :> Native(TRUE, <<>>, "String")
               @@ MainMethod :> Void(1, 0 :> Invoke_("static", "Main", ReadLine) @@ 3 :> GoTo(-3)))

Misaligned(key, high) ==
    MainOnly(0 :> Ins("iconst", key)  @@ 1 :> Ins("iconst", key) @@ 2 :> Op("dup") @@ 3 :> Op("dup")
             @@ 4 :> Ins("tableswitch", [low |-> 2, high |-> high, default |-> 1,
                                       targets |-> [k \in 2 .. high |-> 22 + k]])
             @@ 7 :> Return @@ 28 :> Return @@ 29 :> Return)

Unsupported ==
    [ring |-> Ring, chain |-> Chain, own |-> Own, early |-> EarlyLoad,
     earlyfield |-> EarlyField, loaded |-> Inherited("Base"), unloaded |-> Inherited("Top"),
     box |-> Fields(Return), nofield |-> Fields(Field("getfield", "Box", "x", "I")),
     boolean |-> Fields(Field("getfield", "Box", "z", "Z")),
     string |-> Fields(Field("getfield", "Box", "s", "String")),
     nomethod |-> Callee(Void(0, 0 :> Return), Invoke_("static", "Main", "other")),
     args |-> Callee(MethodOf(TRUE, <<"[L">>, "V", 9, 20, 0 :> Return), Invoke_("static", "Main", "callee")),
     room |-> Callee(MethodOf(TRUE, <<"I">>, "V", 9, 0, 0 :> Return), Invoke_("static", "Main", "callee")),
     print |-> Program({"PrintStream"}, "Main" :> Plain(MainMethod :> Void(1,
                 0 :> New_("PrintStream") @@ 3 :> Ins("aload_n", 0)
                 @@ 4 :> Invoke_("virtual", "PrintStream", PrintString)))),
     natives |-> Callee(Native(TRUE, <<"I">>, "String"), Invoke_("static", "Main", "callee")),
     unknown |-> Callee(Native(TRUE, <<"I">>, "J"), Invoke_("static", "Main", "callee")),
     parse |-> Single({"Long"}, MainMethod :> Void(1, 0 :> Ins("aload_n", 0) @@ 1 :> Invoke_("static", "Long", ParseLong))),
     wrong |-> Program({}, "Main" :> WrongReturn),
     nomain |-> Program({}, "Main" :> Plain(<<>>)),
     noreturn |-> MainOnly(0 :> Ins("iconst", 2)),
     float |-> MainOnly(0 :> Ins("ldc", [tag |-> "Float"])),
     fadd |-> MainOnly(0 :> Op("fadd")),
     overflow |-> MainOnly(0 :> Ins("bipush", -128) @@ 2 :> Ins("iconst", -1) @@ 3 :> Op("idiv")),
     longs |-> MainOnly(0 :> Ins("iconst", 2) @@ 1 :> Ins("iconst", 2) @@ 2 :> Matrix_("[[J")),
     super |-> Callee(Native(FALSE, <<>>, "V"), Invoke_("special", "Main", "callee")),
     lambda |-> Program({}, "Main" :> [Plain(MainMethod :> Void(1, 0 :> Return)) EXCEPT !.bootstraps = {3}]),
     chars |-> MainOnly(0 :> Ins("iconst", 2) @@ 1 :> Ins("newarray", "T_CHAR")),
     endless |-> Endless, matrix |-> Matrix, negative |-> Negative, norows |-> NoRows, lines |-> Lines,
     concat |-> Concatenation(Concat(1)), recipe |-> Concatenation(Ins("invokedynamic", [params |-> 1, constants |-> 2])),
     full |-> MainOnly(0 :> Ins("iconst", 2) @@ 1 :> Ins("iconst", 2) @@ 2 :> Matrix_("[[I") @@ 6 :> GoTo(-6)),
     null |-> MainOnly(0 :> Ins("aload_n", 0) @@ 1 :> Field("getfield", "Box", "x", "I")),
     stray |-> MainOnly(0 :> LdcString @@ 2 :> Field("getfield", "Box", "x", "I")),
     nullstring |-> MainOnly(0 :> Ins("aload_n", 0) @@ 1 :> Concat(1)),
     table0 |-> Misaligned(0, 3), table1 |-> Misaligned(1, 3), table2 |-> Misaligned(2, 3),
     table3 |-> Misaligned(1, 5)]
=============================================================================

------------------------------ MODULE MCClaims ------------------------------
(***************************************************************************)
(* One small program for each of the Claims.                               *)
(***************************************************************************)
EXTENDS Claims, ClassFiles

Void(code_) == MethodOf(TRUE, <<>>, "V", 9, 3, code_)
OneProgram(p) == [program |-> p]
MainOnly(code_) == OneProgram(Single({"String"}, MainMethod :> Void(code_)))
Return == Op("return")

m == MethodOf(FALSE, <<>>, "V", 0, 1, 0 :> Return)

\* Base b = new Derived(); b.m();
Dispatch ==
    OneProgram(Program({},
      "Base" :> Plain("m" :> m)
      @@ "Derived" :> ClassOf("Base", "", <<>>, "m" :> m)
      @@ "Main" :> Plain(MainMethod :> Void(
           0 :> New_("Derived") @@ 3 :> Invoke_("virtual", "Base", "m") @@ 6 :> Return))))

\* new int[2][3]
Dimensions ==
    MainOnly(0 :> Ins("iconst", 2) @@ 1 :> Ins("iconst", 3) @@ 2 :> Matrix_("[[I") @@ 6 :> Return)

\* (char) -1
Char == MainOnly(0 :> Ins("iconst", -1) @@ 1 :> Op("i2c") @@ 2 :> Return)

\* new Derived().v, where v is a field of Base.
Inherited ==
    OneProgram(Program({},
      "Base" :> ClassOf("Object", "v", "v" :> "I", <<>>)
      @@ "Derived" :> ClassOf("Base", "", <<>>, <<>>)
      @@ "Main" :> Plain(MainMethod :> Void(
           0 :> New_("Derived") @@ 3 :> Field("getfield", "Derived", "v", "I") @@ 6 :> Return))))

\* f(new String[0]), as far as the call goes.
Strings ==
    OneProgram(Single({}, "f" :> MethodOf(TRUE, <<"[L">>, "V", 0, 1, 0 :> Return)
                          @@ MainMethod :> Void(0 :> Ins("aload_n", 0) @@ 1 :> Invoke_("static", "Main", "f"))))

\* A switch at the beginning of a method.
Table ==
    MainOnly(0 :> Ins("iconst", 1) @@ 1 :> GoTo(3)
             @@ 4 :> Ins("tableswitch", [low |-> 0, high |-> 1, default |-> 24, targets |-> 0 :> 24 @@ 1 :> 25])
             @@ 28 :> Return @@ 29 :> Return)

\* while (true) new Object();
Objects ==
    MainOnly(0 :> New_("String") @@ 3 :> Ins("astore_n", 1) @@ 4 :> GoTo(-4))
=============================================================================

------------------------------ MODULE Verifier ------------------------------
(***************************************************************************)
(* What PitifulVM takes for granted of a class file: that javac produced   *)
(* it, so that a type map of the kind of the StackMapTable attribute (which*)
(* the VM skips) exists for every method, and that it uses only what the   *)
(* VM supports.  Each restriction that Java does not have is marked (VM).  *)
(* Nothing here is code of the VM; it is the precondition under which its  *)
(* interpreter is meant to work, and the vocabulary of the properties.     *)
(*                                                                         *)
(* Beside [op, arg], code[q] holds stk and loc: the types of the operands  *)
(* and of local variables 0, 1, ... when the instruction at q is fetched.  *)
(* "I" is int and what is narrower, "J" long, "A" a reference and "-" what *)
(* cannot be used.                                                         *)
(***************************************************************************)
EXTENDS Interpreter

VTypes == {"I", "J", "A"}

TypeOf(desc) == CASE desc \in {"I", "B", "C", "S", "Z"} -> "I"
                  [] desc = "J" -> "J"
                  [] OTHER -> "A"

\* The instruction at q may be followed by the one at q2, which then finds the
\* operands stk and the locals loc, or fewer usable locals.
Flows(m, q2, stk, loc) ==
    /\ q2 \in DOMAIN m.code
    /\ m.code[q2].stk = stk
    /\ \A i \in 0 .. m.max_locals - 1 : m.code[q2].loc[i + 1] \in {loc[i + 1], "-"}

\* The topmost operands have these types.
Top(stk, t)         == Len(stk) >= 1 /\ top(stk) = t
Top2(stk, u, t)     == Len(stk) >= 2 /\ peek(stk, 1) = u /\ top(stk) = t
Top3(stk, s, u, t)  == Len(stk) >= 3 /\ peek(stk, 2) = s /\ Top2(stk, u, t)

\* At pc q of m the instruction is one of ops, of len bytes; it pops n
\* operands and pushes one of type t, or none.
Pushes(m, q, len, n, t) ==
    Flows(m, q + len, Append(drop(m.code[q].stk, n), t), m.code[q].loc)

Pops(m, q, to, n) ==
    Flows(m, to, drop(m.code[q].stk, n), m.code[q].loc)

\* After a store into local variable i nothing else has changed.
Stores(m, q, len, i, t) ==
    /\ i \in 0 .. m.max_locals - 1
    /\ Top(m.code[q].stk, t)
    /\ Flows(m, q + len, drop(m.code[q].stk, 1), [m.code[q].loc EXCEPT ![i + 1] = t])

Loads(m, q, len, i, t) ==
    /\ i \in 0 .. m.max_locals - 1
    /\ m.code[q].loc[i + 1] = t
    /\ Pushes(m, q, len, 0, t)

-----------------------------------------------------------------------------
ConstantRule(m, q, op, arg) ==
    /\ op = "iconst" => arg \in SignedRange(IntHalf) /\ Pushes(m, q, 1, 0, "I")
    /\ op = "bipush" => arg \in SignedRange(ByteHalf) /\ Pushes(m, q, 2, 0, "I")
    /\ op = "sipush" => arg \in SignedRange(ShortHalf) /\ Pushes(m, q, 3, 0, "I")
    /\ op = "ldc2_w" => arg \in SignedRange(LongHalf) /\ Pushes(m, q, 3, 0, "J")
    /\ op = "ldc" => /\ arg.tag \in {"Integer", "String"}    \* (VM) no float constant
                     /\ arg.tag = "Integer" =>
                          arg.value \in SignedRange(IntHalf) /\ Pushes(m, q, 2, 0, "I")
                     /\ arg.tag = "String" => Pushes(m, q, 2, 0, "A")

LocalRule(m, q, op, arg) ==
    /\ op = "iload"    => Loads(m, q, 2, arg, "I")
    /\ op = "iload_n"  => Loads(m, q, 1, arg, "I")
    /\ op = "lload"    => Loads(m, q, 2, arg, "J")
    /\ op = "lload_n"  => Loads(m, q, 1, arg, "J")
    /\ op = "aload"    => Loads(m, q, 2, arg, "A")
    /\ op = "aload_n"  => Loads(m, q, 1, arg, "A")
    /\ op = "istore"   => Stores(m, q, 2, arg, "I")
    /\ op = "istore_n" => Stores(m, q, 1, arg, "I")
    /\ op = "lstore"   => Stores(m, q, 2, arg, "J")
    /\ op = "lstore_n" => Stores(m, q, 1, arg, "J")
    /\ op = "astore"   => Stores(m, q, 2, arg, "A")
    /\ op = "astore_n" => Stores(m, q, 1, arg, "A")
    /\ op = "iinc" => /\ arg.i \in 0 .. m.max_locals - 1 /\ arg.b \in Int
                      /\ m.code[q].loc[arg.i + 1] = "I"
                      /\ Pops(m, q, q + 3, 0)

OperatorRule(m, q, op) ==
    LET stk == m.code[q].stk IN
    /\ op \in IntOps => Top2(stk, "I", "I") /\ Pushes(m, q, 1, 2, "I")
    /\ op \in LongOps => Top2(stk, "J", "J") /\ Pushes(m, q, 1, 2, "J")
    /\ op = "lcmp" => Top2(stk, "J", "J") /\ Pushes(m, q, 1, 2, "I")
    /\ op \in {"ineg", "i2c"} => Top(stk, "I") /\ Pushes(m, q, 1, 1, "I")
    /\ op = "i2l" => Top(stk, "I") /\ Pushes(m, q, 1, 1, "J")
    /\ op = "dup" => Len(stk) >= 1 /\ Pushes(m, q, 1, 0, top(stk))
    /\ op = "dup2" =>
         /\ Len(stk) >= 1
         /\ top(stk) = "J" => Pushes(m, q, 1, 0, "J")
         /\ top(stk) # "J" =>
              /\ Len(stk) >= 2 /\ peek(stk, 1) # "J"
              /\ Flows(m, q + 1, Append(Append(stk, peek(stk, 1)), top(stk)), m.code[q].loc)

BranchRule(m, q, op, arg) ==
    LET stk == m.code[q].stk IN
    /\ op \in {"if", "if_icmp"} => arg.rel \in {"eq", "ne", "lt", "ge", "gt", "le"}
    /\ op = "if" => Top(stk, "I") /\ Pops(m, q, q + 3, 1) /\ Pops(m, q, q + arg.to, 1)
    /\ op = "if_icmp" => Top2(stk, "I", "I") /\ Pops(m, q, q + 3, 2) /\ Pops(m, q, q + arg.to, 2)
    /\ op = "ifnull" => Top(stk, "A") /\ Pops(m, q, q + 3, 1) /\ Pops(m, q, q + arg.to, 1)
    /\ op = "goto" => Pops(m, q, q + arg.to, 0)
    /\ op = "tableswitch" =>
         /\ Top(stk, "I")
         /\ q % 4 # 0                                       \* (VM) alignment
         /\ {arg.low, arg.high} \subseteq Int /\ DOMAIN arg.targets = arg.low .. arg.high
         /\ Pops(m, q, q + arg.default, 1)
         /\ \A key \in arg.low .. arg.high : Pops(m, q, q + arg.targets[key], 1)

ArrayRule(m, q, op, arg) ==
    LET stk == m.code[q].stk IN
    /\ op = "newarray" => arg = "T_INT" /\ Top(stk, "I") /\ Pushes(m, q, 2, 1, "A")   \* (VM)
    /\ op = "multianewarray" =>
         arg = "[[I" /\ Top2(stk, "I", "I") /\ Pushes(m, q, 4, 2, "A")               \* (VM)
    /\ op = "iaload" => Top2(stk, "A", "I") /\ Pushes(m, q, 1, 2, "I")
    /\ op = "aaload" => Top2(stk, "A", "I") /\ Pushes(m, q, 1, 2, "A")
    /\ op = "iastore" => Top3(stk, "A", "I", "I") /\ Pops(m, q, q + 1, 3)

\* (VM) No static long, float or double field is used, no boolean one is read,
\* and a static field belongs to the class named, not to a super class.
FieldRule(m, q, op, arg, classes) ==
    LET stk == m.code[q].stk IN
    /\ op \in {"getstatic", "putstatic"} =>
         /\ arg.clazz \in DOMAIN classes
         /\ arg.name \in DOMAIN classes[arg.clazz].fields
         /\ classes[arg.clazz].fields[arg.name] = arg.desc
    /\ op = "getstatic" => /\ arg.desc \in {"B", "C", "S", "I", "L", "String", "["}
                           /\ Pushes(m, q, 3, 0, TypeOf(arg.desc))
    /\ op = "putstatic" => /\ arg.desc \in {"B", "C", "S", "I", "Z", "L", "String", "["}
                           /\ Top(stk, TypeOf(arg.desc)) /\ Pops(m, q, q + 3, 1)
    /\ op \in {"getfield", "putfield"} => arg.desc \in {"I", "J", "L", "String"}      \* (VM)
    /\ op = "getfield" => Top(stk, "A") /\ Pushes(m, q, 3, 1, TypeOf(arg.desc))
    /\ op = "putfield" => Top2(stk, "A", TypeOf(arg.desc)) /\ Pops(m, q, q + 3, 2)
    /\ op = "new" => arg.clazz \in DOMAIN classes /\ Pushes(m, q, 3, 0, "A")
    /\ op = "invokedynamic" => /\ arg.params \in 0 .. Len(stk) /\ arg.constants = 1   \* (VM)
                               /\ Pushes(m, q, 5, arg.params, "A")

\* The operands an invocation of target takes, "this" included.
Operands(op, target) == Len(target.params) + IF op = "invokestatic" THEN 0 ELSE 1

ArgumentsFit(stk, op, target) ==
    LET n == Len(target.params) IN
    /\ Len(stk) >= Operands(op, target)
    /\ \A j \in 1 .. n : stk[Len(stk) - n + j] = TypeOf(target.params[j])
    /\ op # "invokestatic" => peek(stk, n) = "A"

\* (VM) The method is found in the class named, not inherited; no parameter is
\* an array of references; a native method is one native.c knows, with fewer
\* than 20 parameters, and a static one does not return a string.
InvokeRule(m, q, op, arg, classes) ==
    LET target == classes[arg.clazz].methods[arg.name]
        n == Operands(op, target)
    IN  op \in {"invokestatic", "invokespecial", "invokevirtual"} =>
          /\ arg.clazz \in DOMAIN classes
          /\ arg.name \in DOMAIN classes[arg.clazz].methods
          /\ arg.name # "<clinit>"
          /\ target.static = (op = "invokestatic")
          /\ op = "invokespecial" => target.ret = "V" /\ ~target.native
          /\ \A j \in 1 .. Len(target.params) : target.params[j] # "[L"
          /\ target.native => /\ Len(target.params) < 20
                              /\ target.ret \in {"V", "I", "J", "C", "String"}
                              /\ target.ret # "V" => arg.name \in PtrNatives
                              /\ target.ret = "String" => op = "invokevirtual"
          /\ ArgumentsFit(m.code[q].stk, op, target)
          /\ IF target.ret = "V" THEN Pops(m, q, q + 3, n)
             ELSE Pushes(m, q, 3, n, TypeOf(target.ret))

ReturnRule(m, q, op) ==
    /\ op = "return" => m.ret = "V"
    /\ op \in {"ireturn", "lreturn", "areturn"} => m.ret # "V" /\ Top(m.code[q].stk, TypeOf(m.ret))
    /\ op = "ireturn" => TypeOf(m.ret) = "I"
    /\ op = "lreturn" => TypeOf(m.ret) = "J"
    /\ op = "areturn" => TypeOf(m.ret) = "A"

InstructionRule(m, q, classes) ==
    LET op == m.code[q].op
        arg == m.code[q].arg
    IN  /\ op \in Handled                                             \* (VM)
        /\ ConstantRule(m, q, op, arg) /\ LocalRule(m, q, op, arg)
        /\ OperatorRule(m, q, op) /\ BranchRule(m, q, op, arg)
        /\ ArrayRule(m, q, op, arg) /\ FieldRule(m, q, op, arg, classes)
        /\ InvokeRule(m, q, op, arg, classes) /\ ReturnRule(m, q, op)

-----------------------------------------------------------------------------
\* The slot of the j-th parameter.  (VM) Java gives a long two slots; it may
\* only be the last parameter, or those behind it would be misplaced.
Slot(m, j) == IF m.static THEN j - 1 ELSE j

EntryLocals(m) ==
    /\ ~m.static => m.max_locals >= 1 /\ m.code[0].loc[1] \in {"A", "-"}
    /\ \A j \in 1 .. Len(m.params) :
         /\ Slot(m, j) < m.max_locals
         /\ m.code[0].loc[Slot(m, j) + 1] \in {TypeOf(m.params[j]), "-"}
    /\ \A i \in 0 .. m.max_locals - 1 :
         (i >= Slot(m, Len(m.params) + 1)) => m.code[0].loc[i + 1] = "-"

MethodVerified(m, classes) ==
    /\ m.max_locals \in Nat /\ m.max_stack \in Nat
    /\ 0 \in DOMAIN m.code
    /\ m.code[0].stk = <<>>
    /\ EntryLocals(m)
    /\ \A q \in DOMAIN m.code :
         /\ q \in Nat
         /\ m.code[q].stk \in Seq(VTypes)
         /\ Len(m.code[q].stk) <= m.max_stack
         /\ m.code[q].loc \in Seq(VTypes \cup {"-"})
         /\ Len(m.code[q].loc) = m.max_locals
         /\ InstructionRule(m, q, classes)

ClassVerified(class, classes) ==
    \A name \in DOMAIN class.methods :
        LET m == class.methods[name] IN
        /\ m.native \in BOOLEAN /\ m.static \in BOOLEAN
        /\ m.params \in Seq(STRING)
        /\ ~m.native => MethodVerified(m, classes)
        /\ name = "<clinit>" => m.static /\ ~m.native /\ m.params = <<>> /\ m.ret = "V"

Verified(program) ==
    /\ program.main \in DOMAIN program.classes \ program.natives
    /\ program.natives \subseteq DOMAIN program.classes
    /\ IsFiniteSet(program.natives)
    /\ \A c \in DOMAIN program.classes : ClassVerified(program.classes[c], program.classes)
    /\ LET methods == program.classes[program.main].methods IN
         /\ MainMethod \in DOMAIN methods
         /\ ~methods[MainMethod].native /\ methods[MainMethod].static
         /\ methods[MainMethod].ret = "V"
         /\ \A j \in 1 .. Len(methods[MainMethod].params) : methods[MainMethod].params[j] = "[L"
=============================================================================

--------------------------- MODULE JavaRefinement ---------------------------
(***************************************************************************)
(* The interpreter as an implementation of JavaMachine: the tags of the    *)
(* entries are forgotten, the blocks of memory are the objects, and an     *)
(* entry stands for the value its type in the type map can see of it.      *)
(***************************************************************************)
EXTENDS TypeSafety

\* A long is a number of words (iinc changes the low one), and 1 is an int.
ASSUME WordsAssumption == LongHalf % IntHalf = 0 /\ IntHalf > 1

Seen(e, t) == CASE t = "I" -> Signed(e.value, IntHalf)
                [] t = "J" -> Signed(e.value, LongHalf)
                [] t = "A" -> e.value

\* Operands, and the variables that can be used, at these types.
SeenStack(stack, stk) == [i \in 1 .. Len(stack) |-> Seen(stack[i], stk[i])]
SeenVars(locals, loc) ==
    [i \in {j \in DOMAIN locals : loc[j + 1] # "-"} |-> Seen(locals[i], loc[i + 1])]

\* The activation f as Java has it.
JavaFrame(f) ==
    LET at == TypesAt(f, f.pc)
    IN  [clazz |-> f.clazz, meth |-> f.meth, pc |-> f.pc,
         stack |-> SeenStack(f.op_stack, at.stk), vars |-> SeenVars(f.locals, at.loc)]

JavaFrames ==
    IF frame = Idle THEN <<>>
    ELSE [i \in 1 .. Len(callers) + 1 |-> JavaFrame(Called(i - 1))]

JavaObject(b) ==
    IF b.kind = "object"
    THEN [kind |-> b.kind, clazz |-> b.clazz,
          cells |-> [f \in DOMAIN b.cells |-> b.cells[f].value]]
    ELSE [kind |-> b.kind, clazz |-> "none",
          cells |-> IF b.kind = "int[]" THEN [i \in DOMAIN b.cells |-> Signed(b.cells[i], IntHalf)]
                    ELSE b.cells]

JavaHeap == [p \in 1 .. Len(memory) |-> JavaObject(memory[p])]

\* The classes whose <clinit> has been called, if the VM does what it should.
Begun == {c \in DOMAIN statics : find_method(c, "<clinit>") /\ ~Waiting(c)}

JavaOutcome == CASE status = "exit" -> "done"
                 [] status \in Terminal \ {"exit"} -> "uncaught"
                 [] OTHER -> IF stage = "main" THEN "running" ELSE "starting"

Java == INSTANCE JavaMachine WITH
            CharSize <- 2 * ShortHalf,
            Unassigned <- Junk,
            outcome <- JavaOutcome,
            frames <- JavaFrames,
            begun <- Begun,
            heap <- JavaHeap

\* On the programs of the subset every step of the interpreter is one a Java
\* virtual machine may take: the values and the order of operands, the method
\* a call selects, the variables it passes arguments in, when a class is
\* initialised, and that execution stops only where Java throws (execute() and
\* main() of jvm.c, against what the tests compare them with).
ImplementsJava == Java!Spec

-----------------------------------------------------------------------------
\* The places where the VM departs from Java although Verifier accepts the
\* program.  None of them is ahead: what the next step would depart at is
\* excluded, by the instruction that runs or the stage main() is at.

\* i2c and char fields keep eight bits and a sign, boolean ones more than one
\* bit; MIN / -1 is trapped; tableswitch misreads high (jvm.c:538, 582, 779).
NumbersAgree ==
    /\ ins.op = "i2c" => int32(top(opst)) \in 0 .. ByteHalf - 1
    /\ ins.op \in {"idiv", "irem"} =>
         ~(int32(peek(opst, 1)) = -IntHalf /\ int32(top(opst)) = -1)
    /\ ins.op = "ldiv" =>
         ~(stack_to_int(peek(opst, 1)) = -LongHalf /\ stack_to_int(top(opst)) = -1)
    /\ ins.op = "tableswitch" => read_high(ins.arg.high) = ins.arg.high
    /\ Resolved({"getstatic"}) /\ ins.arg.desc = "C" =>
         statics[ins.arg.clazz][ins.arg.name] \in 0 .. ByteHalf - 1
    /\ ins.op = "putstatic" /\ ins.arg.desc \in {"C", "Z"} =>
         stack_to_int(top(opst)) \in 0 .. ByteHalf - 1
    /\ ins.op = "putstatic" /\ ins.arg.desc = "Z" => stack_to_int(top(opst)) \in {0, 1}

NullOr(p, kind) == p = NULL \/ Points(p, kind)

\* Sizes are compared with nothing and swapped; a reference of the wrong kind,
\* a null string in a concatenation and an inherited field are not found out;
\* and the heap of 5000 objects is not compared with either.
ObjectsAgree ==
    /\ ins.op = "newarray" => int32(top(opst)) >= 0
    /\ ins.op = "multianewarray" => int32(top(opst)) >= 0 /\ int32(peek(opst, 1)) = int32(top(opst))
    /\ ins.op = "iaload" => NullOr(peek(opst, 1).value, "int[]")
    /\ ins.op = "aaload" => NullOr(peek(opst, 1).value, "int[][]")
    /\ ins.op = "iastore" => NullOr(peek(opst, 2).value, "int[]")
    /\ ins.op \in {"getfield", "putfield"} =>
         /\ NullOr(Receiver, "object")
         /\ Receiver # NULL => ins.arg.name \in DOMAIN memory[Receiver].cells
    /\ ins.op = "invokedynamic" =>
         /\ \A n \in 0 .. ins.arg.params - 1 :
              peek(opst, n).type = "REF" => Points(peek(opst, n).value, "string")
         /\ Len(object_heap) + ins.arg.params < MaxObjects
    /\ ins.op \in {"ldc", "newarray", "multianewarray", "new"} => ~HeapFull
    /\ ins.op = "new" => Java!FieldsOf[ins.arg.clazz] = DOMAIN Class(ins.arg.clazz).fields

\* invokestatic and the first use of a native class initialise nothing, what is
\* initialised is initialised without its super class, and the class heap of
\* 100 entries is not compared with (jvm.c:121, 728).
MayInitialize(c) == find_method(c, "<clinit>") => Java!Initialized(Class(c).super)

ClassesAgree ==
    /\ Resolved(Java!Triggers) => Java!Initialized(ins.arg.clazz)
    /\ ins.op \in Resolving /\ ~TargetFound =>
         /\ stage # "natives" /\ Len(class_heap) < MaxClasses
         /\ ins.op \in {"getstatic", "putstatic", "new"} \/ ~find_method(ins.arg.clazz, "<clinit>")
         /\ MayInitialize(ins.arg.clazz)

\* invokevirtual calls the method of the class named, on a null receiver too;
\* a long takes one slot; a static native method returns eight bits of a char
\* (jvm.c:1432, 1443).
CallsAgree ==
    Resolved({"invokestatic", "invokespecial", "invokevirtual"}) =>
      /\ ins.op # "invokestatic" => peek(opst, num_params).value # NULL
      /\ ~callee.native => /\ Java!Selected = ins.arg.clazz
                           /\ \A j \in 1 .. Len(callee.params) - 1 : callee.params[j] # "J"
      /\ callee.native /\ ins.op = "invokestatic" => callee.ret # "C"

\* main() initialises the native classes in any order, and frees some strings
\* twice.
MainAgrees ==
    /\ stage = "natives" =>
         IF booted < Len(class_heap) THEN MayInitialize(class_heap[booted + 1])
         ELSE Len(class_heap) < MaxClasses /\ MayInitialize(prog.main)
    /\ stage = "main" => ~FreedTwice /\ ~BootstrapFreedTwice

\* No step that is ahead departs from Java: the programs of the runs use the
\* VM inside what it shares with Java, in every state they reach.
CommonGround ==
    /\ status = "run" => NumbersAgree /\ ObjectsAgree /\ ClassesAgree /\ CallsAgree
    /\ status = "boot" => MainAgrees
=============================================================================

---------------------------- MODULE JavaMachine ----------------------------
(***************************************************************************)
(* What the tests of the repository compare PitifulVM with: a Java virtual *)
(* machine, as far as the instructions the VM has cases for go.  It knows  *)
(* no tags, no pointers and no class heap.  Operands and variables are     *)
(* plain values, a long takes two variables, methods are selected by the   *)
(* class of the object, and a class is initialised, after its super class, *)
(* when the first instruction needs it.  An exception is never caught.     *)
(*                                                                         *)
(* The class files are those of Interpreter and Verifier: code[pc] has the *)
(* instruction [op, arg] and the type map [stk, loc].                      *)
(*                                                                         *)
(* Java says more than this in three places: fields and elements that were *)
(* never assigned are 0, native methods return something definite, and the *)
(* argument of main is not null.                                           *)
(***************************************************************************)
EXTENDS Integers, Sequences, FiniteSets

CONSTANTS
    CharSize, ByteHalf, ShortHalf, IntHalf, LongHalf,   \* the ranges of the types
    Unassigned,     \* what fields and elements may hold before they are assigned
    NativeResults   \* the numbers native methods return

VARIABLES
    prog,       \* the class files
    outcome,    \* "starting" until main is called, then "running"; how it ended
    frames,     \* the activations, the running one last
    begun,      \* the classes the <clinit> of which has been called
    statics,    \* the static fields of the prepared classes
    heap        \* the objects, numbered in the order of their creation

vars == <<prog, outcome, frames, begun, statics, heap>>

MethodsOf(c) == prog.classes[c].methods
HasClinit(c) == c \in DOMAIN prog.classes /\ "<clinit>" \in DOMAIN MethodsOf(c)

running == frames[Len(frames)]
method  == MethodsOf(running.clazz)[running.meth]
ins     == method.code[running.pc]
stack   == running.stack

Is(ops) == outcome \in {"starting", "running"} /\ frames # <<>> /\ ins.op \in ops

\* The n-th operand from the top, counted from 0, and what is below n operands.
operand(n) == stack[Len(stack) - n]
Below(n)   == SubSeq(stack, 1, Len(stack) - n)

Wrapped(v, half) == ((v + half) % (2 * half)) - half

-----------------------------------------------------------------------------
\* The variables an instruction can use are those its type map lists.
Usable(m, pc) == {i \in 0 .. m.max_locals - 1 : m.code[pc].loc[i + 1] # "-"}

Frame(c, name, pc, operands, variables) ==
    [clazz |-> c, meth |-> name, pc |-> pc, stack |-> operands,
     vars |-> [i \in Usable(MethodsOf(c)[name], pc) |-> variables[i]]]

Suspended == SubSeq(frames, 1, Len(frames) - 1)

\* The running activation goes on at pc.
Continue(operands, variables, pc) ==
    /\ frames' = Append(Suspended,
                        Frame(running.clazz, running.meth, pc, operands, variables))
    /\ UNCHANGED <<prog, outcome, begun>>

Size == CASE ins.op \in {"bipush", "ldc", "iload", "lload", "aload", "istore", "lstore",
                         "astore", "newarray"} -> 2
          [] ins.op \in {"sipush", "ldc2_w", "iinc", "if", "if_icmp", "ifnull", "goto",
                         "getstatic", "putstatic", "getfield", "putfield", "new",
                         "invokestatic", "invokespecial", "invokevirtual"} -> 3
          [] ins.op = "multianewarray" -> 4
          [] ins.op = "invokedynamic" -> 5
          [] OTHER -> 1

Following == running.pc + Size
Yield(operands) == Continue(operands, running.vars, Following)

-----------------------------------------------------------------------------
\* Instructions that touch nothing but operands and variables.
Truncated(a, b) == LET Abs(n) == IF n < 0 THEN -n ELSE n
                       q == Abs(a) \div Abs(b)
                   IN  IF (a < 0) = (b < 0) THEN q ELSE -q

Calculated(op, a, b) ==
    CASE op = "iadd" -> Wrapped(a + b, IntHalf) [] op = "ladd" -> Wrapped(a + b, LongHalf)
      [] op = "isub" -> Wrapped(a - b, IntHalf) [] op = "lsub" -> Wrapped(a - b, LongHalf)
      [] op = "imul" -> Wrapped(a * b, IntHalf) [] op = "lmul" -> Wrapped(a * b, LongHalf)
      [] op = "idiv" -> Wrapped(Truncated(a, b), IntHalf)
      [] op = "ldiv" -> Wrapped(Truncated(a, b), LongHalf)
      [] op = "irem" -> a - b * Truncated(a, b)
      [] op = "lcmp" -> IF a > b THEN 1 ELSE IF a < b THEN -1 ELSE 0

Divisions == {"idiv", "irem", "ldiv"}
Binary == Divisions \cup {"iadd", "isub", "imul", "ladd", "lsub", "lmul", "lcmp"}

Constants ==
    /\ Is({"iconst", "bipush", "sipush", "ldc2_w"})
    /\ Yield(Append(stack, ins.arg)) /\ UNCHANGED <<statics, heap>>

IntConstant ==
    /\ Is({"ldc"}) /\ ins.arg.tag = "Integer"
    /\ Yield(Append(stack, ins.arg.value)) /\ UNCHANGED <<statics, heap>>

Loads ==
    /\ Is({"iload", "iload_n", "lload", "lload_n", "aload", "aload_n"})
    /\ Yield(Append(stack, running.vars[ins.arg])) /\ UNCHANGED <<statics, heap>>

\* Variable i has the value v from now on.
Assigned(i, v) == [j \in DOMAIN running.vars \cup {i} |-> IF j = i THEN v ELSE running.vars[j]]

Stores ==
    /\ Is({"istore", "istore_n", "lstore", "lstore_n", "astore", "astore_n"})
    /\ Continue(Below(1), Assigned(ins.arg, operand(0)), Following)
    /\ UNCHANGED <<statics, heap>>

Increments ==
    /\ Is({"iinc"})
    /\ Continue(stack,
                Assigned(ins.arg.i, Wrapped(running.vars[ins.arg.i] + ins.arg.b, IntHalf)),
                Following)
    /\ UNCHANGED <<statics, heap>>

Calculates ==
    /\ Is(Binary)
    /\ ins.op \in Divisions => operand(0) # 0
    /\ Yield(Append(Below(2), Calculated(ins.op, operand(1), operand(0))))
    /\ UNCHANGED <<statics, heap>>

Converts ==
    /\ Is({"i2l", "i2c", "ineg"})
    /\ Yield(Append(Below(1),
                    CASE ins.op = "i2l"  -> operand(0)
                      [] ins.op = "i2c"  -> operand(0) % CharSize
                      [] ins.op = "ineg" -> Wrapped(-operand(0), IntHalf)))
    /\ UNCHANGED <<statics, heap>>

\* dup2 duplicates a long or the two topmost operands.
Duplicates ==
    /\ Is({"dup", "dup2"})
    /\ LET n == IF ins.op = "dup" \/ ins.stk[Len(ins.stk)] = "J" THEN 1 ELSE 2
       IN  Yield(stack \o SubSeq(stack, Len(stack) - n + 1, Len(stack)))
    /\ UNCHANGED <<statics, heap>>

Holds(rel, a, b) == CASE rel = "eq" -> a = b [] rel = "ne" -> ~(a = b)
                      [] rel = "lt" -> a < b [] rel = "ge" -> ~(a < b)
                      [] rel = "gt" -> b < a [] rel = "le" -> ~(b < a)

\* The offset a jump adds to pc, and the operands it takes.
Offset == CASE ins.op = "goto"    -> ins.arg.to
            [] ins.op = "ifnull"  -> IF operand(0) = 0 THEN ins.arg.to ELSE Size
            [] ins.op = "if"      -> IF Holds(ins.arg.rel, operand(0), 0) THEN ins.arg.to ELSE Size
            [] ins.op = "if_icmp" ->
                 IF Holds(ins.arg.rel, operand(1), operand(0)) THEN ins.arg.to ELSE Size
            [] ins.op = "tableswitch" ->
                 IF operand(0) \in ins.arg.low .. ins.arg.high
                 THEN ins.arg.targets[operand(0)] ELSE ins.arg.default

Taken == CASE ins.op = "goto" -> 0 [] ins.op = "if_icmp" -> 2 [] OTHER -> 1

Jumps ==
    /\ Is({"goto", "ifnull", "if", "if_icmp", "tableswitch"})
    /\ Continue(Below(Taken), running.vars, running.pc + Offset)
    /\ UNCHANGED <<statics, heap>>

-----------------------------------------------------------------------------
\* Objects.  An object is [kind, clazz, cells]; 0 is the null reference.
Object(kind, c, cells) == [kind |-> kind, clazz |-> c, cells |-> cells]
String == Object("string", "none", <<>>)

\* More objects are created, the last of which is the operand that is pushed.
Creates(operands, objects) ==
    /\ heap' = heap \o objects
    /\ Yield(Append(operands, Len(heap) + Len(objects)))
    /\ UNCHANGED statics

NewArray(n, u) == Object("int[]", "none", [i \in 0 .. n - 1 |-> Wrapped(u, IntHalf)])

Literal == Is({"ldc"}) /\ ins.arg.tag = "String" /\ Creates(stack, <<String>>)

\* String concatenation may create more than its result.
Concatenates ==
    /\ Is({"invokedynamic"})
    /\ \E n \in 1 .. ins.arg.params + 1 : Creates(Below(ins.arg.params), [i \in 1 .. n |-> String])

ArrayCreated ==
    /\ Is({"newarray"}) /\ operand(0) >= 0
    /\ \E u \in Unassigned : Creates(Below(1), <<NewArray(operand(0), u)>>)

\* As many rows as the first dimension says, then the array of these rows.
MatrixCreated ==
    /\ Is({"multianewarray"}) /\ operand(0) >= 0 /\ operand(1) >= 0
    /\ LET rows == operand(1)
           table == Object("int[][]", "none", [i \in 0 .. rows - 1 |-> Len(heap) + 1 + i])
       IN  \E u \in Unassigned :
             Creates(Below(2), [i \in 1 .. rows |-> NewArray(operand(0), u)] \o <<table>>)

ElementOf(a, i) == a # 0 /\ i \in DOMAIN heap[a].cells

ElementRead ==
    /\ Is({"iaload", "aaload"}) /\ ElementOf(operand(1), operand(0))
    /\ Yield(Append(Below(2), heap[operand(1)].cells[operand(0)]))
    /\ UNCHANGED <<statics, heap>>

ElementWritten ==
    /\ Is({"iastore"}) /\ ElementOf(operand(2), operand(1))
    /\ heap' = [heap EXCEPT ![operand(2)].cells[operand(1)] = operand(0)]
    /\ Yield(Below(3)) /\ UNCHANGED statics

FieldRead ==
    /\ Is({"getfield"}) /\ operand(0) # 0
    /\ Yield(Append(Below(1), heap[operand(0)].cells[ins.arg.name]))
    /\ UNCHANGED <<statics, heap>>

FieldWritten ==
    /\ Is({"putfield"}) /\ operand(1) # 0
    /\ heap' = [heap EXCEPT ![operand(1)].cells[ins.arg.name] = operand(0)]
    /\ Yield(Below(2)) /\ UNCHANGED statics

-----------------------------------------------------------------------------
\* Classes.  A class has been initialised, or an activation below this one is
\* at it, or there is nothing to do.
Initialized(c) == HasClinit(c) => c \in begun

Triggers == {"getstatic", "putstatic", "new", "invokestatic"}

\* The static fields of c exist from now on.
Prepared(c) ==
    IF c \in DOMAIN statics THEN UNCHANGED statics
    ELSE \E u \in Unassigned :
           statics' = [d \in DOMAIN statics \cup {c} |->
                         IF d = c THEN [f \in DOMAIN prog.classes[c].fields |-> u] ELSE statics[d]]

\* A class may be read at any time.
Reads(c) ==
    /\ outcome \in {"starting", "running"}
    /\ c \notin DOMAIN statics /\ Prepared(c)
    /\ UNCHANGED <<prog, outcome, frames, begun, heap>>

\* The <clinit> of c is called, because the instruction that runs needs c or,
\* before main is called, because the machine likes to.
Initializes(c) ==
    /\ outcome \in {"starting", "running"}
    /\ frames = <<>> => outcome = "starting"
    /\ frames # <<>> => ins.op \in Triggers /\ ins.arg.clazz = c
    /\ HasClinit(c) /\ c \notin begun
    /\ Initialized(prog.classes[c].super)
    /\ Prepared(c)
    /\ begun' = begun \cup {c}
    /\ frames' = Append(frames, Frame(c, "<clinit>", 0, <<>>, <<>>))
    /\ UNCHANGED <<prog, outcome, heap>>

Triggered(op) == Is({op}) /\ Initialized(ins.arg.clazz) /\ ins.arg.clazz \in DOMAIN statics

\* A static field holds what its type has room for.
Kept(desc, v) == CASE desc = "B" -> Wrapped(v, ByteHalf) [] desc = "S" -> Wrapped(v, ShortHalf)
                   [] desc = "I" -> Wrapped(v, IntHalf)
                   [] desc = "C" -> v % CharSize         [] desc = "Z" -> v % 2
                   [] OTHER -> v

StaticRead ==
    /\ Triggered("getstatic")
    /\ LET v == statics[ins.arg.clazz][ins.arg.name] IN
         Yield(Append(stack, IF ins.arg.desc \in {"L", "String", "["} THEN v
                             ELSE Kept(ins.arg.desc, v)))
    /\ UNCHANGED <<statics, heap>>

StaticWritten ==
    /\ Triggered("putstatic")
    /\ statics' = [statics EXCEPT ![ins.arg.clazz][ins.arg.name] = Kept(ins.arg.desc, operand(0))]
    /\ Yield(Below(1)) /\ UNCHANGED heap

\* The fields of an object of class c, those of the super classes included.
FieldsOf[c \in DOMAIN prog.classes] ==
    DOMAIN prog.classes[c].fields \cup
    (IF prog.classes[c].super \in DOMAIN prog.classes THEN FieldsOf[prog.classes[c].super] ELSE {})

Instantiates ==
    /\ Triggered("new")
    /\ Creates(stack, <<Object("object", ins.arg.clazz, [f \in FieldsOf[ins.arg.clazz] |-> 0])>>)

-----------------------------------------------------------------------------
\* Methods.  Lookup finds the method in the class or in those above it.
named == MethodsOf(ins.arg.clazz)[ins.arg.name]
arguments == Len(named.params)
receiver == operand(arguments)

Lookup[c \in DOMAIN prog.classes] ==
    IF ins.arg.name \in DOMAIN MethodsOf(c) THEN c ELSE Lookup[prog.classes[c].super]

\* invokevirtual looks in the class of the object.
Selected ==
    IF ins.op = "invokevirtual" /\ heap[receiver].kind = "object"
    THEN Lookup[heap[receiver].clazz] ELSE ins.arg.clazz

Arguments(n) == [j \in 1 .. n |-> operand(n - j)]

\* The variable the j-th parameter is passed in: a long takes two.
Passed(m, j) ==
    (IF m.static THEN 0 ELSE 1) + (j - 1)
    + Cardinality({k \in 1 .. j - 1 : m.params[k] = "J"})

Parameters(m) ==
    [i \in 0 .. m.max_locals - 1 |->
        IF i = 0 /\ ~m.static THEN receiver
        ELSE IF \E j \in 1 .. Len(m.params) : Passed(m, j) = i
             THEN Arguments(Len(m.params))[CHOOSE j \in 1 .. Len(m.params) : Passed(m, j) = i]
             ELSE 0]

\* The operands the call takes, and whether it may go ahead.
Consumed == arguments + (IF ins.op = "invokestatic" THEN 0 ELSE 1)

Callable ==
    \/ Triggered("invokestatic")
    \/ Is({"invokespecial", "invokevirtual"}) /\ receiver # 0

Invokes ==
    /\ Callable
    /\ LET m == MethodsOf(Selected)[ins.arg.name]
       IN  /\ ~m.native
           /\ frames' = Suspended \o
                <<Frame(running.clazz, running.meth, running.pc, Below(Consumed), running.vars),
                  Frame(Selected, ins.arg.name, 0, <<>>, Parameters(m))>>
    /\ UNCHANGED <<prog, outcome, begun, statics, heap>>

\* A native method returns nothing, a number of its type, or a new string.
InvokesNative ==
    /\ Callable /\ named.native
    /\ \/ named.ret = "V" /\ Yield(Below(Consumed)) /\ UNCHANGED <<statics, heap>>
       \/ /\ named.ret \in {"I", "J", "C"}
          /\ \E r \in NativeResults :
               Yield(Append(Below(Consumed), Wrapped(r, IF named.ret = "J" THEN LongHalf ELSE IntHalf)))
          /\ UNCHANGED <<statics, heap>>
       \/ named.ret = "String" /\ Creates(Below(Consumed), <<String>>)

\* The activation that called goes on behind the call with the value returned;
\* behind a <clinit> comes the instruction that needed it.
Returns ==
    /\ Is({"return", "ireturn", "lreturn", "areturn"})
    /\ IF Len(frames) = 1 THEN frames' = <<>>
       ELSE LET g == Suspended[Len(Suspended)]
                values == IF method.ret = "V" THEN <<>> ELSE <<operand(0)>>
            IN  frames' = Append(SubSeq(Suspended, 1, Len(Suspended) - 1),
                   IF running.meth = "<clinit>" THEN g
                   ELSE Frame(g.clazz, g.meth, g.pc + 3, g.stack \o values, g.vars))
    /\ UNCHANGED <<prog, outcome, begun, statics, heap>>

-----------------------------------------------------------------------------
\* The exceptions of the instructions, and those a native method may throw.
Throws ==
    \/ Is(Divisions) /\ operand(0) = 0
    \/ Is({"newarray"}) /\ operand(0) < 0
    \/ Is({"multianewarray"}) /\ (operand(0) < 0 \/ operand(1) < 0)
    \/ Is({"iaload", "aaload"}) /\ ~ElementOf(operand(1), operand(0))
    \/ Is({"iastore"}) /\ ~ElementOf(operand(2), operand(1))
    \/ Is({"getfield"}) /\ operand(0) = 0
    \/ Is({"putfield"}) /\ operand(1) = 0
    \/ Is({"invokespecial", "invokevirtual"}) /\ receiver = 0
    \/ Callable /\ named.native

Uncaught ==
    /\ Throws
    /\ outcome' = "uncaught"
    /\ UNCHANGED <<prog, frames, begun, statics, heap>>

\* main is called when its class is initialised.
Main == "main([Ljava/lang/String;)V"

Launches ==
    /\ outcome = "starting" /\ frames = <<>>
    /\ Initialized(prog.main) /\ prog.main \in DOMAIN statics
    /\ outcome' = "running"
    /\ frames' = <<Frame(prog.main, Main, 0, <<>>,
                        [i \in 0 .. MethodsOf(prog.main)[Main].max_locals - 1 |-> 0])>>
    /\ UNCHANGED <<prog, begun, statics, heap>>

Finishes ==
    /\ outcome = "running" /\ frames = <<>>
    /\ outcome' = "done"
    /\ UNCHANGED <<prog, frames, begun, statics, heap>>

Init ==
    /\ outcome = "starting" /\ frames = <<>> /\ begun = {} /\ heap = <<>>
    /\ \A c \in DOMAIN statics : statics[c] \in [DOMAIN prog.classes[c].fields -> Unassigned]

Simple == \/ Constants \/ IntConstant \/ Loads \/ Stores \/ Increments
          \/ Calculates \/ Converts \/ Duplicates \/ Jumps

OnObjects == \/ Literal \/ Concatenates \/ ArrayCreated \/ MatrixCreated \/ ElementRead
             \/ ElementWritten \/ FieldRead \/ FieldWritten \/ Instantiates

OnClasses == \/ StaticRead \/ StaticWritten
             \/ \E c \in DOMAIN prog.classes : Reads(c) \/ Initializes(c)

Next == \/ Simple \/ OnObjects \/ OnClasses \/ Invokes \/ InvokesNative \/ Returns
        \/ Uncaught \/ Launches \/ Finishes

Spec == Init /\ [][Next]_vars
=============================================================================

---------------------------- MODULE Interpreter ----------------------------
(***************************************************************************)
(* execute() and main() of jvm.c, with the heaps of object_heap.c and      *)
(* class_heap.c they work on and the results of native.c they consume.     *)
(*                                                                         *)
(* One activation of execute() is a record: the class and method it runs,  *)
(* its pc, operand stack and local variables, and how it was called (via). *)
(* "frame" is the innermost activation, "callers" the ones suspended in a  *)
(* recursive call of execute(), oldest first.  An activation stays at the  *)
(* pc of the instruction that called, because jvm.c adds to pc after the   *)
(* nested execute() has returned.  main() is in control when status is     *)
(* "boot"; "stage" is how far it has come.                                 *)
(*                                                                         *)
(* A handler that has to load a class first runs its <clinit> in a nested  *)
(* execute() and goes on where it was.  Up to that call it has changed     *)
(* nothing but the heaps, so here the activation is resumed at the same pc *)
(* and dispatches the same instruction again, with the class now loaded.   *)
(*                                                                         *)
(* A pointer is NULL (0), the number of a block of "memory", or anything   *)
(* else: a stray address.  Memory the C code leaves uninitialised holds an *)
(* arbitrary value of Junk, chosen when it is allocated.                   *)
(***************************************************************************)
EXTENDS OperandStack, FiniteSets

CONSTANTS
    Programs,       \* the class files under study, by name (see Program below)
    MaxClasses,     \* class_heap.c allocates 100 entries
    MaxObjects,     \* object_heap.c allocates 5000 entries
    Junk,           \* what uninitialised memory may hold
    NativeResults   \* what a native method may return

ASSUME BoundsAssumption == MaxClasses \in Nat /\ MaxObjects \in Nat
ASSUME WorldAssumption ==
    Junk \subseteq Int /\ Junk # {} /\ NativeResults \subseteq Int

(***************************************************************************)
(* A program is [natives |-> the classes under java/, prefix |-> the       *)
(* directory of the class on the command line (not java/), main |-> that   *)
(* class, classes |-> a function from class names].  A class               *)
(* is [super, fields, first, methods, bootstraps]: its super class, the    *)
(* descriptors of its fields by name, the name of the first one, its       *)
(* methods by name and descriptor (one string here), the numbers of        *)
(* bootstrap arguments.  A method is [native, static, params, ret,         *)
(* max_stack, max_locals, code]: code maps the pc of each instruction to   *)
(* [op, arg, stk, loc]; stk and loc are for Verifier, execute() does not   *)
(* look at them.                                                           *)
(***************************************************************************)
VARIABLES
    prog,           \* the program being run: its class files
    status,         \* who is in control, or how the process ended
    stage,          \* the progress of main()
    booted,         \* the native classes whose <clinit> main() has dealt with
    frame,          \* the innermost activation of execute()
    callers,        \* the suspended activations
    class_heap,     \* the loaded classes, in loading order
    class_names,    \* the names they are kept under, a directory and a class
    statics,        \* the static fields of the loaded classes
    memory,         \* the blocks allocated for Java objects
    object_heap     \* the blocks registered to be freed by main()

vars == <<prog, status, stage, booted, frame, callers, class_heap, class_names,
          statics, memory, object_heap>>

heaps == <<class_heap, class_names, statics, memory, object_heap>>

NULL == 0

Terminal == {"exit", "abort", "error_exit", "input_error", "segv", "fpe", "undefined"}

Class(c) == prog.classes[c]
find_method(c, name) == name \in DOMAIN Class(c).methods
Method(c, name) == Class(c).methods[name]

\* Mutant of find_class_from_heap: the last class loaded is not looked at.
find_class_but_last(name) == \E i \in 1 .. Len(class_names) - 1 : class_names[i] = name

find_class_from_heap(name) == \E i \in 1 .. Len(class_names) : class_names[i] = name

\* The constant pool names a class without the directory of its file.  One of
\* java/ is in the heap under that name, any other one behind prefix; every
\* handler that looks for a class tries the one and then the other.
Found(c) == find_class_from_heap(<<"", c>>) \/ find_class_from_heap(<<prog.prefix, c>>)

\* The process ends: a failed assertion, exit(1), a wild access, a trap.
Crash(how) ==
    /\ status' = how
    /\ UNCHANGED <<prog, stage, booted, frame, callers, heaps>>

-----------------------------------------------------------------------------
\* The heaps.  Block p of memory is [kind, clazz, cells].
Points(p, kind) == p \in 1 .. Len(memory) /\ memory[p].kind = kind

\* What a dereference of the pointer p does when it does not reach a block of
\* the kind expected.
WildAccess(p) == Crash(IF p = NULL THEN "segv" ELSE "undefined")

Block(kind, c, cells) == [kind |-> kind, clazz |-> c, cells |-> cells]

\* Mutant of Allocate: nothing is registered.
Allocate_unregistered(blocks) == memory' = memory \o blocks /\ UNCHANGED object_heap

\* create_object, create_array, create_string: allocate blocks, the last of
\* which is registered in object_heap and known to Java by its number.
\* Nothing is compared with the 5000 entries init_object_heap allocated.
Allocate(blocks) ==
    /\ memory' = memory \o blocks
    /\ object_heap' = Append(object_heap, Len(memory) + Len(blocks))

HeapFull == Len(object_heap) >= MaxObjects

\* create_object zeroes the fields, inherited ones excepted: there are none.
new_object(c) ==
    Block("object", c, [f \in DOMAIN Class(c).fields |-> [type |-> "NONE", value |-> 0]])

new_string(c) == Block("string", c, <<>>)

\* malloc() of n ints; a negative n is an enormous size_t and gives NULL.
new_array(c, n, junk) == Block("int[]", c, [i \in 0 .. n - 1 |-> junk])

-----------------------------------------------------------------------------
\* The fetch of execute()'s loop, and the ways a handler ends.
code == Method(frame.clazz, frame.meth).code
ins  == code[frame.pc]
opst == frame.op_stack

Fetch(ops) == status = "run" /\ frame.pc \in DOMAIN code /\ ins.op \in ops

\* The handler leaves this operand stack and falls out of the switch at pc.
Goto(stack, pc) ==
    /\ frame' = [frame EXCEPT !.op_stack = stack, !.pc = pc]
    /\ UNCHANGED <<prog, status, stage, booted, callers>>

\* pc += len, nothing else changed.
Advance(stack, len) == Goto(stack, frame.pc + len) /\ UNCHANGED heaps

\* The same, with a local variable assigned.
Store(i, local, stack, len) ==
    /\ frame' = [frame EXCEPT !.op_stack = stack, !.pc = @ + len, !.locals[i] = local]
    /\ UNCHANGED <<prog, status, stage, booted, callers, heaps>>

\* pc += 3, or the 16-bit offset instead if the condition holds.
Branch(stack, taken, offset) == Advance(stack, IF taken THEN offset ELSE 3)

-----------------------------------------------------------------------------
\* Constants.
iconst == Fetch({"iconst"}) /\ Advance(push_int(opst, ins.arg), 1)
bipush == Fetch({"bipush"}) /\ Advance(push_byte(opst, ins.arg), 2)
sipush == Fetch({"sipush"}) /\ Advance(push_short(opst, ins.arg), 3)
ldc2_w == Fetch({"ldc2_w"}) /\ Advance(push_long(opst, ins.arg), 3)

\* An int constant, or a string: a new one each time (create_string).  Any
\* other constant ends the process with exit(1).
ldc ==
    /\ Fetch({"ldc"})
    /\ \/ ins.arg.tag = "Integer" /\ Advance(push_int(opst, ins.arg.value), 2)
       \/ /\ ins.arg.tag = "String" /\ ~HeapFull
          /\ Allocate(<<new_string(frame.clazz)>>)
          /\ Goto(push_ref(opst, Len(memory) + 1), frame.pc + 2)
          /\ UNCHANGED <<class_heap, class_names, statics>>
       \/ ins.arg.tag = "String" /\ HeapFull /\ Crash("undefined")
       \/ ins.arg.tag \notin {"Integer", "String"} /\ Crash("error_exit")

-----------------------------------------------------------------------------
\* Local variables.  The _n forms have their index in the opcode.
Short(op) == op \in {"iload_n", "lload_n", "aload_n", "istore_n", "lstore_n", "astore_n"}
LocalLength == IF Short(ins.op) THEN 1 ELSE 2

iload == /\ Fetch({"iload", "iload_n"})
         /\ Advance(push_int(opst, int_value(frame.locals[ins.arg])), LocalLength)

lload == /\ Fetch({"lload", "lload_n"})
         /\ Advance(push_long(opst, long_value(frame.locals[ins.arg])), LocalLength)

aload == /\ Fetch({"aload", "aload_n"})
         /\ Advance(push_ref(opst, ptr_value(frame.locals[ins.arg])), LocalLength)

\* Mutant of istore: the operand is read but not popped.
istore_peeks ==
    /\ Fetch({"istore", "istore_n"})
    /\ Store(ins.arg, [type |-> "INT", value |-> int32(top(opst))], opst, LocalLength)

\* The high half of the union keeps its old content, which no handler that
\* follows an int store reads; it is not kept here.
istore ==
    /\ Fetch({"istore", "istore_n"})
    /\ Store(ins.arg,
             [type |-> "INT", value |-> int32(top(opst))],
             drop(opst, 1), LocalLength)

lstore == /\ Fetch({"lstore", "lstore_n"})
          /\ Store(ins.arg, [type |-> "LONG", value |-> stack_to_int(top(opst))],
                   drop(opst, 1), LocalLength)

astore == /\ Fetch({"astore", "astore_n"})
          /\ Store(ins.arg, [type |-> "REF", value |-> top(opst).value],
                   drop(opst, 1), LocalLength)

iinc == /\ Fetch({"iinc"})
        /\ Store(ins.arg.i, add_int_value(frame.locals[ins.arg.i], ins.arg.b), opst, 3)

-----------------------------------------------------------------------------
\* Conversions and arithmetic.  The results wrap around in the push.
i2l == Fetch({"i2l"}) /\ Advance(push_long(drop(opst, 1), int32(top(opst))), 1)
i2c == Fetch({"i2c"}) /\ Advance(push_byte(drop(opst, 1), int32(top(opst))), 1)
ineg == Fetch({"ineg"}) /\ Advance(push_int(drop(opst, 1), -int32(top(opst))), 1)

\* C division truncates towards zero.
Magnitude(n) == IF n < 0 THEN -n ELSE n
Quotient(a, b) == LET q == Magnitude(a) \div Magnitude(b)
                  IN  IF (a < 0) = (b < 0) THEN q ELSE -q
Remainder(a, b) == a - b * Quotient(a, b)

\* op2 OP op1, where op1 is the topmost operand.
Arithmetic(op, op2, op1) ==
    CASE op \in {"iadd", "ladd"} -> op2 + op1
      [] op \in {"isub", "lsub"} -> op2 - op1
      [] op \in {"imul", "lmul"} -> op2 * op1
      [] op \in {"idiv", "ldiv"} -> Quotient(op2, op1)
      [] op = "irem"             -> Remainder(op2, op1)

IntOps  == {"iadd", "isub", "imul", "idiv", "irem"}
LongOps == {"ladd", "lsub", "lmul", "ldiv"}

\* The processor traps a division by zero and MIN / -1.
Traps(op, op2, op1, half) ==
    /\ op \in {"idiv", "irem", "ldiv"}
    /\ op1 = 0 \/ (op2 = -half /\ op1 = -1)

int_arithmetic ==
    /\ Fetch(IntOps)
    /\ LET op1 == int32(top(opst))
           op2 == int32(peek(opst, 1))
       IN  IF Traps(ins.op, op2, op1, IntHalf)
           THEN Crash("fpe")
           ELSE Advance(push_int(drop(opst, 2), Arithmetic(ins.op, op2, op1)), 1)

long_arithmetic ==
    /\ Fetch(LongOps)
    /\ LET op1 == stack_to_int(top(opst))
           op2 == stack_to_int(peek(opst, 1))
       IN  IF Traps(ins.op, op2, op1, LongHalf)
           THEN Crash("fpe")
           ELSE Advance(push_long(drop(opst, 2), Arithmetic(ins.op, op2, op1)), 1)

lcmp ==
    /\ Fetch({"lcmp"})
    /\ LET op1 == stack_to_int(top(opst))
           op2 == stack_to_int(peek(opst, 1))
       IN  Advance(push_int(drop(opst, 2),
                            IF op1 < op2 THEN 1 ELSE IF op1 = op2 THEN 0 ELSE -1), 1)

-----------------------------------------------------------------------------
\* Branches.
Compare(rel, a, b) == CASE rel = "eq" -> a = b
                        [] rel = "ne" -> a # b
                        [] rel = "lt" -> a < b
                        [] rel = "ge" -> a >= b
                        [] rel = "gt" -> a > b
                        [] rel = "le" -> a <= b

\* ifeq .. ifle and if_icmpeq .. if_icmple: arg is [rel, to].
if_cond ==
    /\ Fetch({"if"})
    /\ Branch(drop(opst, 1), Compare(ins.arg.rel, int32(top(opst)), 0), ins.arg.to)

if_icmp ==
    /\ Fetch({"if_icmp"})
    /\ Branch(drop(opst, 2),
              Compare(ins.arg.rel, int32(peek(opst, 1)), int32(top(opst))), ins.arg.to)

ifnull == /\ Fetch({"ifnull"})
          /\ Branch(drop(opst, 1), top(opst).value = NULL, ins.arg.to)

goto == Fetch({"goto"}) /\ Branch(opst, TRUE, ins.arg.to)

\* arg is [low, high, default, targets], targets being a function of the key.
\* Of high's four bytes the first is not read but the second one twice.
read_high(high) ==
    LET second == (high \div (2 * ShortHalf)) % (2 * ByteHalf)
    IN  Signed(second * (IntHalf \div ByteHalf) + second * 2 * ShortHalf
               + (high % (2 * ShortHalf)), IntHalf)

\* When pc is a multiple of 4, "pc += 3; pc -= pc % 4" stays on the opcode, and
\* each operand is read one word early: the default offset, which then begins
\* with the opcode, leads out of the code, where execute() returns the NULL its
\* caller dereferences.  So does, perhaps, what a wrong index finds.
tableswitch ==
    /\ Fetch({"tableswitch"})
    /\ LET key == int32(top(opst))
           t == ins.arg
           early == frame.pc % 4 = 0
           low == IF early THEN t.default ELSE t.low
           high == read_high(IF early THEN t.low ELSE t.high)
           offsets == IF early
                      THEN [k \in low .. low + t.high - t.low + 1 |->
                              IF k = low THEN t.high ELSE t.targets[t.low + (k - low - 1)]]
                      ELSE t.targets
       IN  \/ /\ low <= key /\ key <= high
              /\ key \in DOMAIN offsets /\ frame.pc + offsets[key] \in DOMAIN code
              /\ Advance(drop(opst, 1), offsets[key])
           \/ /\ low <= key /\ key <= high
              /\ ~(key \in DOMAIN offsets /\ frame.pc + offsets[key] \in DOMAIN code)
              /\ Crash("undefined")
           \/ /\ ~(low <= key /\ key <= high)
              /\ IF early THEN Crash("segv") ELSE Advance(drop(opst, 1), t.default)

-----------------------------------------------------------------------------
\* Duplication.  dup2 looks at the tag of the top entry to tell a long, which
\* takes one entry, from two narrower values.
dup == Fetch({"dup"}) /\ Advance(Append(opst, top(opst)), 1)

\* Mutant of dup2: the narrower values are taken for one.
dup2_one == Fetch({"dup2"}) /\ Advance(Append(opst, top(opst)), 1)

dup2 ==
    /\ Fetch({"dup2"})
    /\ IF top(opst).type = "LONG"
       THEN Advance(Append(opst, top(opst)), 1)
       ELSE Advance(Append(Append(opst, peek(opst, 1)), top(opst)), 1)

-----------------------------------------------------------------------------
\* Arrays.  An index is compared with nothing.
newarray ==
    /\ Fetch({"newarray"})
    /\ LET count == int32(top(opst))
       IN  \/ ins.arg # "T_INT" /\ Crash("abort")
           \/ ins.arg = "T_INT" /\ HeapFull /\ Crash("undefined")
           \/ /\ ins.arg = "T_INT" /\ ~HeapFull /\ count >= 0
              /\ \E junk \in Junk : Allocate(<<new_array(frame.clazz, count, junk)>>)
              /\ Goto(push_ref(drop(opst, 1), Len(memory) + 1), frame.pc + 2)
              /\ UNCHANGED <<class_heap, class_names, statics>>
           \/ /\ ins.arg = "T_INT" /\ ~HeapFull /\ count < 0
              /\ object_heap' = Append(object_heap, NULL)
              /\ Goto(push_ref(drop(opst, 1), NULL), frame.pc + 2)
              /\ UNCHANGED <<class_heap, class_names, statics, memory>>

\* The first count popped is the last one the program pushed; it becomes the
\* number of rows (create_two_dimension_array's count1).  Rows of a negative
\* length are not allocated but NULL.  arg is the type.
multianewarray ==
    /\ Fetch({"multianewarray"})
    /\ LET x == int32(top(opst))
           y == int32(peek(opst, 1))
           rows == IF y < 0 THEN 0 ELSE x
           row(i) == IF y < 0 THEN NULL ELSE Len(memory) + 1 + i
       IN  \/ ins.arg # "[[I" /\ Crash("abort")
           \/ ins.arg = "[[I" /\ HeapFull /\ Crash("undefined")
           \/ /\ ins.arg = "[[I" /\ ~HeapFull /\ x >= 0
              /\ \E junk \in Junk :
                   Allocate([j \in 1 .. rows |-> new_array(frame.clazz, y, junk)]
                            \o <<Block("int[][]", frame.clazz, [i \in 0 .. x - 1 |-> row(i)])>>)
              /\ Goto(push_ref(drop(opst, 2), Len(memory) + rows + 1), frame.pc + 4)
              /\ UNCHANGED <<class_heap, class_names, statics>>
           \/ /\ ins.arg = "[[I" /\ ~HeapFull /\ x < 0
              /\ object_heap' = Append(object_heap, NULL)
              /\ Goto(push_ref(drop(opst, 2), NULL), frame.pc + 4)
              /\ UNCHANGED <<class_heap, class_names, statics, memory>>

\* The element at index of the array at p, if there is one.
Element(p, kind, index) == Points(p, kind) /\ index \in DOMAIN memory[p].cells

iaload ==
    /\ Fetch({"iaload"})
    /\ LET index == int32(top(opst))
           arr == peek(opst, 1).value
       IN  IF Element(arr, "int[]", index)
           THEN Advance(push_int(drop(opst, 2), memory[arr].cells[index]), 1)
           ELSE WildAccess(arr)

iastore ==
    /\ Fetch({"iastore"})
    /\ LET value == int32(top(opst))
           index == int32(peek(opst, 1))
           arr == peek(opst, 2).value
       IN  IF Element(arr, "int[]", index)
           THEN /\ memory' = [memory EXCEPT ![arr].cells[index] = value]
                /\ Goto(drop(opst, 3), frame.pc + 1)
                /\ UNCHANGED <<class_heap, class_names, statics, object_heap>>
           ELSE WildAccess(arr)

aaload ==
    /\ Fetch({"aaload"})
    /\ LET index == int32(top(opst))
           arr == peek(opst, 1).value
       IN  IF Element(arr, "int[][]", index)
           THEN Advance(push_ref(drop(opst, 2), memory[arr].cells[index]), 1)
           ELSE WildAccess(arr)

-----------------------------------------------------------------------------
\* Class resolution: the prologue of getstatic, putstatic, new and the invokes.
Resolving == {"getstatic", "putstatic", "new", "invokespecial", "invokevirtual",
              "invokestatic"}

\* Mutant of TargetFound: invokestatic looks under the bare name only.
TargetFound_bare ==
    IF ins.op = "invokestatic" THEN find_class_from_heap(<<"", ins.arg.clazz>>)
    ELSE Found(ins.arg.clazz)

TargetFound == Found(ins.arg.clazz)

Resolved(ops) == Fetch(ops) /\ TargetFound

\* Mutant of add_class: the class is read but not put in the heap.
add_class_forgets(c) ==
    /\ UNCHANGED <<class_heap, class_names>>
    /\ \E junk \in Junk :
         statics' = [d \in DOMAIN statics \cup {c} |->
                       IF d = c THEN [f \in DOMAIN Class(c).fields |-> junk] ELSE statics[d]]
    /\ UNCHANGED <<memory, object_heap>>

\* add_class, after get_class has allocated the static fields: the class is
\* kept under the path it was read from.  Nothing is compared with the 100
\* entries init_class_heap allocated.
add_class(c) ==
    /\ class_heap' = Append(class_heap, c)
    /\ class_names' = Append(class_names, <<prog.prefix, c>>)
    /\ \E junk \in Junk :
         statics' = [d \in DOMAIN statics \cup {c} |->
                       IF d = c THEN [f \in DOMAIN Class(c).fields |-> junk] ELSE statics[d]]
    /\ UNCHANGED <<memory, object_heap>>

Activation(c, name, locals, via) ==
    [clazz |-> c, meth |-> name, pc |-> 0, op_stack |-> <<>>, locals |-> locals, via |-> via]

\* There is no activation: main() is in control.
Idle == Activation("none", "none", <<>>, "main")

\* Mutant of Call: pc is moved on before the nested execute().
Call_advanced(c, name, locals, via, stack) ==
    /\ callers' = Append(callers, [frame EXCEPT !.op_stack = stack, !.pc = @ + 3])
    /\ frame' = Activation(c, name, locals, via)
    /\ UNCHANGED <<prog, status, stage, booted>>

\* A nested execute(), from an activation whose operand stack is now stack.
Call(c, name, locals, via, stack) ==
    /\ callers' = Append(callers, [frame EXCEPT !.op_stack = stack])
    /\ frame' = Activation(c, name, locals, via)
    /\ UNCHANGED <<prog, status, stage, booted>>

\* A local_variable_t array the C code does not initialise, or memsets.
Fill(c, name, entry) == [i \in 0 .. Method(c, name).max_locals - 1 |-> entry]
Zeroed == [type |-> "NONE", value |-> 0]
Uninitialised == {[type |-> "UNINIT", value |-> v] : v \in Junk}

\* Mutant of load_class: only the classes main() knows are initialised.
load_class_uninitialized ==
    /\ Fetch(Resolving) /\ ~TargetFound
    /\ ins.arg.clazz \in DOMAIN prog.classes
    /\ add_class(ins.arg.clazz)
    /\ UNCHANGED <<prog, status, stage, booted, frame, callers>>

\* A class that is not in the heap is read from its file, under the directory
\* main() sets prefix to when the native classes are initialised; until then
\* prefix is NULL.  All but invokestatic run the <clinit> of the new class.
load_class ==
    /\ Fetch(Resolving) /\ ~TargetFound
    /\ LET c == ins.arg.clazz
       IN  \/ stage = "natives" /\ Crash("segv")
           \/ stage # "natives" /\ c \notin DOMAIN prog.classes /\ Crash("abort")
           \/ /\ stage # "natives" /\ c \in DOMAIN prog.classes
              /\ Len(class_heap) >= MaxClasses
              /\ Crash("undefined")
           \/ /\ stage # "natives" /\ c \in DOMAIN prog.classes
              /\ Len(class_heap) < MaxClasses
              /\ add_class(c)
              /\ IF ins.op # "invokestatic" /\ find_method(c, "<clinit>")
                 THEN \E u \in Uninitialised :
                        Call(c, "<clinit>", Fill(c, "<clinit>", u), "clinit", opst)
                 ELSE UNCHANGED <<prog, status, stage, booted, frame, callers>>

-----------------------------------------------------------------------------
\* Static fields.  arg is [clazz, name, desc].
find_field(c, f) == f.name \in DOMAIN Class(c).fields /\ Class(c).fields[f.name] = f.desc

\* The class whose field is used: the one named or, failing that, the super
\* class of the class that is running (and of no other).
Holder(f) == IF find_field(f.clazz, f) THEN f.clazz ELSE Class(frame.clazz).super

\* find_field on a super class that is not loaded dereferences NULL; one that
\* does not have the field either is looked up again, for ever.
static_lookup_fails ==
    /\ Resolved({"getstatic", "putstatic"})
    /\ LET holder == Holder(ins.arg)
       IN  \/ ~Found(holder) /\ Crash("segv")
           \/ /\ Found(holder) /\ ~find_field(holder, ins.arg)
              /\ UNCHANGED vars

FieldAccess(ops) ==
    /\ Resolved(ops)
    /\ Found(Holder(ins.arg))
    /\ find_field(Holder(ins.arg), ins.arg)

\* Half the range of the member of value_t a static field is kept in.
FieldHalf(desc) == CASE desc \in {"B", "C", "Z"} -> ByteHalf
                     [] desc = "S"               -> ShortHalf
                     [] desc = "I"               -> IntHalf

\* double, float, long and boolean fields push nothing.
getstatic ==
    /\ FieldAccess({"getstatic"})
    /\ LET desc == ins.arg.desc
           v == statics[Holder(ins.arg)][ins.arg.name]
       IN  Advance(CASE desc \in {"B", "C"} -> push_byte(opst, v)
                     [] desc = "S" -> push_short(opst, v)
                     [] desc = "I" -> push_int(opst, v)
                     [] desc \in {"L", "String", "["} -> push_ref(opst, v)
                     [] desc \in {"D", "F", "J", "Z"} -> opst,
                   3)

\* double, float and long fields pop nothing.
putstatic ==
    /\ FieldAccess({"putstatic"})
    /\ IF ins.arg.desc \in {"D", "F", "J"}
       THEN Advance(opst, 3)
       ELSE /\ statics' = [statics EXCEPT ![Holder(ins.arg)][ins.arg.name] =
                            IF ins.arg.desc \in {"L", "String", "["}
                            THEN top(opst).value
                            ELSE Signed(stack_to_int(top(opst)), FieldHalf(ins.arg.desc))]
            /\ Goto(drop(opst, 1), frame.pc + 3)
            /\ UNCHANGED <<class_heap, class_names, memory, object_heap>>

-----------------------------------------------------------------------------
\* Objects and their fields.
new ==
    /\ Resolved({"new"})
    /\ \/ HeapFull /\ Crash("undefined")
       \/ /\ ~HeapFull
          /\ Allocate(<<new_object(ins.arg.clazz)>>)
          /\ Goto(push_ref(opst, Len(memory) + 1), frame.pc + 3)
          /\ UNCHANGED <<class_heap, class_names, statics>>

\* find_field_addr looks for the name among the fields of the object's own
\* class.  An inherited field is not there, and the loop over the super
\* classes repeats the same search for ever (unless the super class is not
\* loaded and prefix, which its search needs, not set).
Receiver == peek(opst, IF ins.op = "putfield" THEN 1 ELSE 0).value

field_lookup_fails ==
    /\ Fetch({"getfield", "putfield"})
    /\ \/ ~Points(Receiver, "object") /\ WildAccess(Receiver)
       \/ /\ Points(Receiver, "object")
          /\ ins.arg.name \notin DOMAIN memory[Receiver].cells
          /\ IF stage = "natives" /\ ~Found(Class(memory[Receiver].clazz).super)
             THEN Crash("segv")
             ELSE UNCHANGED vars
       \/ /\ Points(Receiver, "object")
          /\ ins.arg.name \in DOMAIN memory[Receiver].cells
          /\ ins.arg.desc \notin {"I", "J", "L", "String"}
          /\ Crash("abort")

Addressed(op) ==
    /\ Fetch({op})
    /\ Points(Receiver, "object")
    /\ ins.arg.name \in DOMAIN memory[Receiver].cells
    /\ ins.arg.desc \in {"I", "J", "L", "String"}

getfield ==
    /\ Addressed("getfield")
    /\ LET v == memory[Receiver].cells[ins.arg.name].value
           rest == drop(opst, 1)
       IN  Advance(CASE ins.arg.desc = "I" -> push_int(rest, v)
                     [] ins.arg.desc = "J" -> push_long(rest, v)
                     [] OTHER              -> push_ref(rest, v),
                   3)

\* The variable_t putfield stores.  What is popped depends on the tag of the
\* top entry, what is stored on the descriptor; the member not popped is 0.
Stored(desc, e) ==
    LET value == IF e.type = "REF" THEN 0 ELSE stack_to_int(e)
        addr  == IF e.type = "REF" THEN e.value ELSE NULL
    IN  CASE desc = "I"      -> [type |-> "INT",  value |-> Signed(value, IntHalf)]
          [] desc = "J"      -> [type |-> "LONG", value |-> value]
          [] desc = "String" -> [type |-> "STR_PTR", value |-> addr]
          [] desc = "L"      -> [type |-> "PTR", value |-> addr]

putfield ==
    /\ Addressed("putfield")
    /\ memory' = [memory EXCEPT ![Receiver].cells[ins.arg.name] = Stored(ins.arg.desc, top(opst))]
    /\ Goto(drop(opst, 2), frame.pc + 3)
    /\ UNCHANGED <<class_heap, class_names, statics, object_heap>>

-----------------------------------------------------------------------------
\* Method invocation.  arg is [clazz, name].
callee == Method(ins.arg.clazz, ins.arg.name)

\* The scan of the descriptor takes every letter of an array's class name for
\* a parameter: "[L" stands for [Ljava/lang/String; and counts as 18.
get_number_of_parameters(m) ==
    Len(m.params) + 17 * Cardinality({i \in DOMAIN m.params : m.params[i] = "[L"})

num_params == get_number_of_parameters(callee)

\* The operands an invocation pops, "this" included.
Popped == IF ins.op = "invokestatic" THEN num_params ELSE num_params + 1

Argument(j) == pop_to_local(opst[Len(opst) - num_params + j])

\* Mutant of this: the object is taken from above the arguments.
this_on_top == [type |-> "REF", value |-> top(opst).value]

this == [type |-> "REF", value |-> peek(opst, num_params).value]

\* own_locals: the arguments are popped into consecutive slots, from 0 for a
\* static method and from 1 behind "this" for an instance method.  A long
\* takes one slot, like everything else.
OwnLocals(first, fill) ==
    [i \in 0 .. callee.max_locals - 1 |->
        IF i < first THEN this
        ELSE IF i - first < num_params THEN Argument(i - first + 1) ELSE fill]

\* own_locals has room for the arguments: max_locals entries, or, for a native
\* method, 20, of which the first is not an argument.
Room == IF callee.native THEN num_params < 20 ELSE Popped <= callee.max_locals

\* The method must be in the class named (inherited methods are not found),
\* the pops must not run below the stack, nor what they fill past own_locals.
\* invokespecial executes the code of any method, that of a native one being
\* whatever malloc() returned.
invoke_fails ==
    /\ Resolved({"invokestatic", "invokespecial", "invokevirtual"})
    /\ \/ ~find_method(ins.arg.clazz, ins.arg.name) /\ Crash("segv")
       \/ /\ find_method(ins.arg.clazz, ins.arg.name)
          /\ Len(opst) < Popped
          /\ Crash("undefined")
       \/ find_method(ins.arg.clazz, ins.arg.name) /\ ~Room /\ Crash("undefined")
       \/ /\ find_method(ins.arg.clazz, ins.arg.name)
          /\ ins.op = "invokespecial" /\ callee.native
          /\ Crash("undefined")

Invoke(op, native) ==
    /\ Resolved({op})
    /\ find_method(ins.arg.clazz, ins.arg.name)
    /\ Len(opst) >= Popped /\ Room
    /\ callee.native = native

invokestatic ==
    /\ Invoke("invokestatic", FALSE)
    /\ \E u \in Uninitialised :
         Call(ins.arg.clazz, ins.arg.name, OwnLocals(0, u), ins.op, drop(opst, Popped))
    /\ UNCHANGED heaps

invokespecial ==
    /\ Invoke("invokespecial", FALSE)
    /\ \E u \in Uninitialised :
         Call(ins.arg.clazz, ins.arg.name, OwnLocals(1, u), ins.op, drop(opst, Popped))
    /\ UNCHANGED heaps

\* The method of the class named in the constant pool, whatever the class of
\* the object.
invokevirtual ==
    /\ Invoke("invokevirtual", FALSE)
    /\ Call(ins.arg.clazz, ins.arg.name, OwnLocals(1, Zeroed), ins.op, drop(opst, Popped))
    /\ UNCHANGED heaps

-----------------------------------------------------------------------------
\* Native methods (native.c).  A void one is looked up by the name of the
\* method called, or, from invokestatic, by that of the method calling.
Implementation == IF callee.ret = "V" /\ ins.op = "invokestatic" THEN frame.meth ELSE ins.arg.name

\* What ptr_native_method knows; for any other name it returns NULL.
PtrNatives == {"readLine()Ljava/lang/String;", "parseLong(Ljava/lang/String;)J",
               "currentTimeMillis()J", "charAt(I)C", "compareTo(Ljava/lang/String;)I"}

\* The local variables it, print or println reads as C strings.
StringLocals(name) ==
    CASE name = "charAt(I)C" -> {0}
      [] name = "compareTo(Ljava/lang/String;)I" -> {0, 1}
      [] name \in {"parseLong(Ljava/lang/String;)J", "println(Ljava/lang/String;)V",
                   "print(Ljava/lang/String;)V"} -> {1}
      [] OTHER -> {}

\* own_locals[0] of a static native method is zeroed; a method that has no
\* first parameter finds NULL in own_locals[1].
NativeLocal(i) == IF i = 0 THEN IF ins.op = "invokestatic" THEN NULL ELSE this.value
                  ELSE IF i <= num_params THEN Argument(i).value ELSE NULL

NativeCall == \E op \in {"invokestatic", "invokevirtual"} : Invoke(op, TRUE)

Readable == \A i \in StringLocals(Implementation) : Points(NativeLocal(i), "string")

native_access_fails ==
    /\ NativeCall
    /\ \E i \in StringLocals(Implementation) :
         ~Points(NativeLocal(i), "string") /\ WildAccess(NativeLocal(i))

native_void ==
    /\ NativeCall /\ callee.ret = "V" /\ Readable
    /\ Advance(drop(opst, Popped), 3)

\* A result of NULL pushes nothing.  charAt's one byte is pushed as a byte by
\* invokestatic; invokevirtual reads an int from it.
native_value ==
    /\ NativeCall /\ callee.ret \in {"J", "I", "C"} /\ Readable
    /\ LET rest == drop(opst, Popped)
       IN  IF Implementation \notin PtrNatives
           THEN Advance(rest, 3)
           ELSE \E r \in NativeResults :
                  Advance(CASE callee.ret = "J" -> push_long(rest, r)
                            [] callee.ret = "C" /\ ins.op = "invokestatic" -> push_byte(rest, r)
                            [] OTHER -> push_int(rest, r),
                          3)

\* Any other descriptor: the result becomes a string, which invokestatic does
\* not push.  create_string(NULL) and the end of the input end the process.
native_string ==
    /\ NativeCall /\ callee.ret \notin {"V", "J", "I", "C"} /\ Readable
    /\ \/ Implementation \notin PtrNatives /\ Crash("segv")
       \/ Implementation \in PtrNatives /\ Crash("input_error")
       \/ Implementation \in PtrNatives /\ HeapFull /\ Crash("undefined")
       \/ /\ Implementation \in PtrNatives /\ ~HeapFull
          /\ Allocate(<<new_string(frame.clazz)>>)
          /\ LET rest == drop(opst, Popped)
             IN  Goto(IF ins.op = "invokestatic" THEN rest ELSE push_ref(rest, Len(memory) + 1),
                      frame.pc + 3)
          /\ UNCHANGED <<class_heap, class_names, statics>>

-----------------------------------------------------------------------------
\* String concatenation.  arg is [params, constants]: the \u0001 placeholders
\* of the recipe and the number of bootstrap arguments.  Each integer operand
\* becomes a string object of its own, and so does the result.
invokedynamic ==
    /\ Fetch({"invokedynamic"})
    /\ LET n == ins.arg.params
           operands == SubSeq(opst, Len(opst) - n + 1, Len(opst))
           numbers == {i \in 1 .. n : operands[i].type # "REF"}
           strays == {i \in 1 .. n \ numbers : ~Points(operands[i].value, "string")}
           made == Cardinality(numbers) + 1
       IN  \/ ins.arg.constants # 1 /\ Crash("abort")
           \/ /\ ins.arg.constants = 1
              /\ \E i \in strays : WildAccess(operands[i].value)
           \/ /\ ins.arg.constants = 1 /\ strays = {}
              /\ Len(object_heap) + made > MaxObjects
              /\ Crash("undefined")
           \/ /\ ins.arg.constants = 1 /\ strays = {}
              /\ Len(object_heap) + made <= MaxObjects
              /\ memory' = memory \o [i \in 1 .. made |-> new_string(frame.clazz)]
              /\ object_heap' = object_heap \o [i \in 1 .. made |-> Len(memory) + i]
              /\ Goto(push_ref(drop(opst, n), Len(memory) + made), frame.pc + 5)
              /\ UNCHANGED <<class_heap, class_names, statics>>

-----------------------------------------------------------------------------
\* Returns: execute() hands the typed result to the C code that called it.
Returns == {"ireturn", "return", "lreturn", "areturn"}

result == CASE ins.op = "ireturn" -> [type |-> "INT",  value |-> int32(top(opst))]
            [] ins.op = "lreturn" -> [type |-> "LONG", value |-> stack_to_int(top(opst))]
            [] ins.op = "areturn" -> [type |-> "REF",  value |-> top(opst).value]
            [] ins.op = "return"  -> [type |-> "NONE", value |-> 0]

caller == callers[Len(callers)]

\* Back in the handler of the suspended activation.
Resume(stack, len) ==
    /\ frame' = [caller EXCEPT !.op_stack = stack, !.pc = @ + len]
    /\ callers' = drop(callers, 1)
    /\ UNCHANGED <<prog, status, stage, booted, heaps>>

\* Mutant of wrong_return: the assertion is made of every method.
wrong_return_everywhere == Fetch(Returns) /\ result.type # "NONE" /\ Crash("abort")

\* The three places that assert that the method returned nothing.
wrong_return ==
    /\ Fetch(Returns)
    /\ result.type # "NONE"
    /\ callers = <<>> \/ frame.via \in {"clinit", "invokespecial"}
    /\ Crash("abort")

return_to_main ==
    /\ Fetch(Returns) /\ callers = <<>> /\ result.type = "NONE"
    /\ status' = "boot" /\ frame' = Idle
    /\ UNCHANGED <<prog, stage, booted, callers, heaps>>

return_from_clinit ==
    /\ Fetch(Returns) /\ callers # <<>> /\ frame.via = "clinit" /\ result.type = "NONE"
    /\ Resume(caller.op_stack, 0)

return_from_special ==
    /\ Fetch(Returns) /\ callers # <<>> /\ frame.via = "invokespecial" /\ result.type = "NONE"
    /\ Resume(caller.op_stack, 3)

return_value ==
    /\ Fetch(Returns) /\ callers # <<>> /\ frame.via \in {"invokestatic", "invokevirtual"}
    /\ Resume(IF result.type = "NONE" THEN caller.op_stack
              ELSE Push(caller.op_stack, result.type, result.value), 3)

-----------------------------------------------------------------------------
\* main().
Enter(c, name, locals) ==
    /\ frame' = Activation(c, name, locals, "main")
    /\ status' = "run"
    /\ UNCHANGED <<prog, callers>>

\* execute() the <clinit> of c, if it has one.
RunClinit(c) ==
    IF find_method(c, "<clinit>")
    THEN \E u \in Uninitialised : Enter(c, "<clinit>", Fill(c, "<clinit>", u))
    ELSE UNCHANGED <<prog, status, frame, callers>>

\* One turn of the loop over the class heap.
native_clinit ==
    /\ status = "boot" /\ stage = "natives" /\ booted < Len(class_heap)
    /\ booted' = booted + 1
    /\ RunClinit(class_heap[booted + 1])
    /\ UNCHANGED <<stage, heaps>>

\* The main class is added, prefix set, and its <clinit> run.
add_main_class ==
    /\ status = "boot" /\ stage = "natives" /\ booted = Len(class_heap)
    /\ IF Len(class_heap) < MaxClasses
       THEN /\ stage' = "main_clinit"
            /\ add_class(prog.main)
            /\ RunClinit(prog.main)
            /\ UNCHANGED booted
       ELSE Crash("undefined")

MainMethod == "main([Ljava/lang/String;)V"

call_main ==
    /\ status = "boot" /\ stage = "main_clinit"
    /\ IF find_method(prog.main, MainMethod)
       THEN /\ stage' = "main"
            /\ Enter(prog.main, MainMethod, Fill(prog.main, MainMethod, Zeroed))
            /\ UNCHANGED <<booted, heaps>>
       ELSE Crash("abort")

\* The blocks free_object_heap() frees because of the entry of object_heap at
\* p: the block itself and, if it is an object whose first field was last
\* assigned a string, that string.
FirstField(p) == memory[p].cells[Class(memory[p].clazz).first]

StringsFreedWith(p) ==
    IF /\ Points(p, "object")
       /\ Class(memory[p].clazz).first \in DOMAIN memory[p].cells
       /\ FirstField(p).type = "STR_PTR"
    THEN {FirstField(p).value} \ {NULL} ELSE {}

\* Every string is in object_heap itself, so that a string freed with an
\* object is freed twice.
FreedTwice == \E i \in 1 .. Len(object_heap) : StringsFreedWith(object_heap[i]) # {}

\* free_class_heap() frees the arguments of a bootstrap method as often as
\* there are arguments.
BootstrapFreedTwice ==
    \E i \in 1 .. Len(class_heap) : \E n \in Class(class_heap[i]).bootstraps : n > 1

shutdown ==
    /\ status = "boot" /\ stage = "main"
    /\ Crash(IF FreedTwice \/ BootstrapFreedTwice THEN "undefined" ELSE "exit")

-----------------------------------------------------------------------------
\* Opcodes that have no case: the loop of execute() fetches them for ever.
Handled == {"iconst", "bipush", "sipush", "ldc", "ldc2_w", "iload", "iload_n", "lload",
            "lload_n", "aload", "aload_n", "istore", "istore_n", "lstore", "lstore_n",
            "astore", "astore_n", "iinc", "i2l", "i2c", "ineg", "lcmp", "if", "if_icmp",
            "ifnull", "goto", "tableswitch", "dup", "dup2", "newarray", "multianewarray",
            "iaload", "iastore", "aaload", "getfield", "putfield", "invokedynamic"}
           \cup IntOps \cup LongOps \cup Resolving \cup Returns

no_case == status = "run" /\ frame.pc \in DOMAIN code /\ ins.op \notin Handled /\ UNCHANGED vars

\* Past the last instruction execute() returns NULL, which every caller
\* dereferences.
no_return == status = "run" /\ frame.pc \notin DOMAIN code /\ Crash("segv")

ended == status \in Terminal /\ UNCHANGED vars

-----------------------------------------------------------------------------
\* load_native_class adds the classes under java/ in the order of readdir().
Orders(set) == {order \in [1 .. Cardinality(set) -> set] :
                  \A i, j \in DOMAIN order : order[i] = order[j] => i = j}

Init ==
    /\ \E p \in DOMAIN Programs : prog = Programs[p]
    /\ status = "boot" /\ stage = "natives" /\ booted = 0
    /\ frame = Idle
    /\ callers = <<>>
    /\ class_heap \in Orders(prog.natives)
    /\ class_names = [i \in DOMAIN class_heap |-> <<"", class_heap[i]>>]
    /\ \E junk \in Junk :
         statics = [c \in prog.natives |-> [f \in DOMAIN Class(c).fields |-> junk]]
    /\ memory = <<>> /\ object_heap = <<>>

main == native_clinit \/ add_main_class \/ call_main \/ shutdown

pushes == iconst \/ bipush \/ sipush \/ ldc \/ ldc2_w \/ iload \/ lload \/ aload \/ dup \/ dup2

stores == istore \/ lstore \/ astore \/ iinc

operators == i2l \/ i2c \/ ineg \/ int_arithmetic \/ long_arithmetic \/ lcmp

branches == if_cond \/ if_icmp \/ ifnull \/ goto \/ tableswitch

arrays == newarray \/ multianewarray \/ iaload \/ iastore \/ aaload

fields == \/ static_lookup_fails \/ getstatic \/ putstatic
          \/ field_lookup_fails \/ getfield \/ putfield

invokes == \/ invoke_fails \/ invokestatic \/ invokespecial \/ invokevirtual
           \/ native_access_fails \/ native_void \/ native_value \/ native_string
           \/ invokedynamic

returns == \/ wrong_return \/ return_to_main \/ return_from_clinit
           \/ return_from_special \/ return_value

\* One turn of the loop of execute(), or what is left of it.
execute == \/ pushes \/ stores \/ operators \/ branches \/ arrays \/ fields
           \/ load_class \/ new \/ invokes \/ returns \/ no_case \/ no_return

Next == main \/ execute \/ ended

Spec == Init /\ [][Next]_vars

\* The interpreter is one thread: as long as it can take a step it does.
FairSpec == Spec /\ WF_vars(main \/ execute)

=============================================================================

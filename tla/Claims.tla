------------------------------- MODULE Claims -------------------------------
(***************************************************************************)
(* What comments of the source say of single instructions, stated of the   *)
(* interpreter as it is.  None of these holds: each is checked by a run    *)
(* that ends in a counterexample.                                          *)
(***************************************************************************)
EXTENDS Interpreter

\* "Invoke instance method; dispatch based on class" (jvm.c:1380): when the
\* class of the receiver declares the method, that is the one called.
DispatchesOnClass ==
    [][(Invoke("invokevirtual", FALSE) /\ Points(this.value, "object")
          /\ find_method(memory[this.value].clazz, ins.arg.name)
          /\ Len(callers') > Len(callers))
         => frame'.clazz = memory[this.value].clazz]_vars

\* "field 1 store first dimension size" (object_heap.c:51): the array of arrays
\* that multianewarray makes has as many rows as the first dimension says.
DimensionsInOrder ==
    [][(Fetch({"multianewarray"}) /\ Len(memory') > Len(memory))
         => DOMAIN memory'[Len(memory')].cells = 0 .. int32(peek(opst, 1)) - 1]_vars

\* "Convert int to char" (jvm.c:535): a char is 16 bits wide and has no sign.
ConvertsToChar ==
    [][Fetch({"i2c"}) => top(frame'.op_stack).value = int32(top(opst)) % (2 * ShortHalf)]_vars

\* "find from super class" (jvm.c:1029): a getfield comes to an end, be it with
\* the field of a super class or with "cannot find field".
FindsFromSuperClass == Fetch({"getfield"}) ~> ~Fetch({"getfield"})

\* "Get the number of integer parameters that a method takes" (java_file.c:81):
\* that is how many operands an invocation pops.
CountsParameters ==
    (Resolved({"invokestatic", "invokespecial", "invokevirtual"})
       /\ find_method(ins.arg.clazz, ins.arg.name))
      => num_params = Len(callee.params)

\* "Access jump table by index and jump" (jvm.c:650).
JumpsByTable ==
    [][Fetch({"tableswitch"}) =>
         LET key == int32(top(opst)) IN
         /\ status' = "run"
         /\ frame'.pc = frame.pc + IF key \in ins.arg.low .. ins.arg.high
                                   THEN ins.arg.targets[key] ELSE ins.arg.default]_vars

\* "max contain 5000 object" (object_heap.c:5): a program that asks for more is
\* not served with memory that is not there.
KeepsToItsMaximum == [][(status = "run" /\ HeapFull) => status' # "undefined"]_vars
=============================================================================

----------------------------- MODULE TypeSafety -----------------------------
(***************************************************************************)
(* What execute() owes verified class files: it neither checks the bounds  *)
(* of an operand stack nor looks at most tags, so that everything below    *)
(* has to hold for it not to corrupt its memory.                           *)
(***************************************************************************)
EXTENDS Verifier, ClassLoading

ASSUME VerifiedPrograms == \A p \in DOMAIN Programs : Verified(Programs[p])

\* The integer a tagged entry holds fits the tag; a pointer or a raw union is
\* any number.
InRange(e) == e.type \in IntegerTypes => e.value \in SignedRange(HalfOf(e.type))

\* The tags an operand, or a local variable, of each verification type has.
\* pop_to_local widens an int argument to LONG and istore tags INT; main()
\* zeroes its locals, and calls that a null reference.
OperandTags(t) == CASE t = "I" -> {"BYTE", "SHORT", "INT"}
                    [] t = "J" -> {"LONG"}
                    [] t = "A" -> {"REF"}

LocalTags(t) == CASE t = "I" -> {"INT", "LONG"}
                  [] t = "J" -> {"LONG"}
                  [] t = "A" -> {"REF", "NONE"}
                  [] t = "-" -> EntryTypes

StackFits(stack, stk) ==
    /\ Len(stack) = Len(stk)
    /\ \A i \in 1 .. Len(stk) : stack[i].type \in OperandTags(stk[i])

LocalsFit(locals, loc) ==
    \A i \in DOMAIN locals : locals[i].type \in LocalTags(loc[i + 1])

FrameTypeOK(f) ==
    /\ f.clazz \in DOMAIN prog.classes
    /\ f.meth \in DOMAIN Class(f.clazz).methods
    /\ ~Method(f.clazz, f.meth).native
    /\ f.pc \in DOMAIN Method(f.clazz, f.meth).code
    /\ f.op_stack \in Seq(Entry)
    /\ f.locals \in [0 .. Method(f.clazz, f.meth).max_locals - 1 -> Entry]
    /\ f.via \in {"main", "clinit", "invokestatic", "invokespecial", "invokevirtual"}
    /\ \A i \in 1 .. Len(f.op_stack) : InRange(f.op_stack[i])
    /\ \A i \in DOMAIN f.locals : InRange(f.locals[i])

Variable == [type : {"NONE", "INT", "LONG", "PTR", "STR_PTR"}, value : Int]

BlockTypeOK(b) ==
    /\ b \in [kind : {"object", "string", "int[]", "int[][]"},
              clazz : DOMAIN prog.classes, cells : {b.cells}]
    /\ b.kind = "object" =>
         /\ b.cells \in [DOMAIN b.cells -> Variable]
         /\ \A f \in DOMAIN b.cells : b.cells[f].type = "STR_PTR" => TakesString(f)
    /\ b.kind \in {"int[]", "int[][]"} => b.cells \in [DOMAIN b.cells -> Int]

\* The state variables have the values the C declarations allow; in particular
\* every integer entry fits the C type its tag names, and a field is tagged as
\* a string only where the program assigns one.
TypeOK ==
    /\ \E p \in DOMAIN Programs : prog = Programs[p]
    /\ status \in Terminal \cup {"boot", "run"}
    /\ stage \in {"natives", "main_clinit", "main"}
    /\ booted \in 0 .. Len(class_heap)
    /\ status = "run" => FrameTypeOK(frame)
    /\ status = "run" => \A i \in 1 .. Len(callers) : FrameTypeOK(callers[i])
    /\ \A i \in 1 .. Len(class_heap) : class_heap[i] \in DOMAIN prog.classes
    /\ NamesOK
    /\ \A i \in 1 .. Len(class_heap) :
         /\ class_heap[i] \in DOMAIN statics
         /\ statics[class_heap[i]] \in [DOMAIN Class(class_heap[i]).fields -> Int]
    /\ \A p \in 1 .. Len(memory) : BlockTypeOK(memory[p])

-----------------------------------------------------------------------------
TypesAt(f, pc) == Method(f.clazz, f.meth).code[pc]

\* The activation that is running has the operands and locals its code expects.
Running(f) == /\ StackFits(f.op_stack, TypesAt(f, f.pc).stk)
              /\ LocalsFit(f.locals, TypesAt(f, f.pc).loc)

\* A suspended activation will have them when the activation g returns.
Awaiting(f, g) ==
    LET ret == Method(g.clazz, g.meth).ret IN
    IF g.via = "clinit"
    THEN Running(f)
    ELSE /\ f.pc + 3 \in DOMAIN Method(f.clazz, f.meth).code
         /\ LocalsFit(f.locals, TypesAt(f, f.pc + 3).loc)
         /\ LET stk == TypesAt(f, f.pc + 3).stk IN
            IF ret = "V" THEN StackFits(f.op_stack, stk)
            ELSE /\ Len(stk) = Len(f.op_stack) + 1
                 /\ stk[Len(stk)] = TypeOf(ret)
                 /\ \A i \in 1 .. Len(f.op_stack) : f.op_stack[i].type \in OperandTags(stk[i])

\* Every operand and local variable, in the running activation and in all the
\* suspended ones, carries a tag that stands for the type the code uses it at:
\* no handler ever takes an integer for a pointer or pops the wrong width.
OperandsTyped ==
    status = "run" =>
        /\ Running(frame)
        /\ \A i \in 1 .. Len(callers) : Awaiting(callers[i], Called(i))

\* No push runs past the max_stack entries init_stack allocated (the pushes do
\* not look), the return value a suspended activation waits for included.
StackInBounds ==
    status = "run" =>
        /\ Len(frame.op_stack) <= Method(frame.clazz, frame.meth).max_stack
        /\ \A i \in 1 .. Len(callers) :
             LET returned == Called(i).via # "clinit"
                             /\ Method(Called(i).clazz, Called(i).meth).ret # "V"
             IN  Len(callers[i].op_stack) + (IF returned THEN 1 ELSE 0)
                   <= Method(callers[i].clazz, callers[i].meth).max_stack

\* What a clinit and a constructor return, and what main() is handed, is void:
\* with the rest of the verified subset, no assertion of jvm.c fails and no
\* exit(1) is reached.  (That of native.c, on the end of the input, may fail.)
NoAssertionFails == status \notin {"abort", "error_exit"}

=============================================================================

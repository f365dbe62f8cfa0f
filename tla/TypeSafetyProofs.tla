-------------------------- MODULE TypeSafetyProofs --------------------------
(***************************************************************************)
(* Type safety of execute() for all verified programs: SafeInv, which says *)
(* of each activation that its operands and locals fit the type map at its *)
(* pc (or, when suspended, at the pc where it goes on), of the heaps that  *)
(* they are well typed and of main() that it only calls void methods, is   *)
(* inductive.  There is one lemma per handler or group of handlers.        *)
(***************************************************************************)
EXTENDS TypeSafety, ClassLoadingProofs

USE DEF heaps, control

\* The operand stack holds entries of these verification types.
Stacked(stack, stk) ==
    /\ stack \in Seq(Entry)
    /\ \A i \in 1 .. Len(stack) : InRange(stack[i])
    /\ StackFits(stack, stk)

\* The widths of the C types are in order.
LEMMA Widths ==
  /\ ByteHalf \in Nat \ {0} /\ ShortHalf \in Nat \ {0} /\ IntHalf \in Nat \ {0} /\ LongHalf \in Nat \ {0}
  /\ ByteHalf <= LongHalf /\ ShortHalf <= LongHalf /\ IntHalf <= LongHalf
BY WidthsAssumption

\* A push of an entry the verifier expects.
LEMMA AppendFits ==
  ASSUME NEW stack, NEW stk \in Seq(VTypes), Stacked(stack, stk),
         NEW e \in Entry, NEW t \in VTypes, e.type \in OperandTags(t), InRange(e)
  PROVE  Stacked(Append(stack, e), Append(stk, t)) /\ Append(stk, t) \in Seq(VTypes)
<1>1. stack \in Seq(Entry) /\ Len(stack) = Len(stk) /\ Len(stk) \in Nat
  BY DEF Stacked, StackFits
<1>2. /\ Append(stack, e) \in Seq(Entry) /\ Append(stk, t) \in Seq(VTypes)
      /\ Len(Append(stack, e)) = Len(stk) + 1 /\ Len(Append(stk, t)) = Len(stk) + 1
      /\ \A i \in 1 .. Len(stk) : Append(stack, e)[i] = stack[i] /\ Append(stk, t)[i] = stk[i]
      /\ Append(stack, e)[Len(stk) + 1] = e /\ Append(stk, t)[Len(stk) + 1] = t
  BY <1>1
<1>3. ASSUME NEW i \in 1 .. Len(stk) + 1
      PROVE  InRange(Append(stack, e)[i]) /\ Append(stack, e)[i].type \in OperandTags(Append(stk, t)[i])
  <2>1. CASE i = Len(stk) + 1
    BY <1>2, <2>1
  <2>2. CASE i \in 1 .. Len(stk)
    BY <1>1, <1>2, <2>2 DEF Stacked, StackFits
  <2> QED BY <1>1, <2>1, <2>2
<1> QED BY <1>2, <1>3 DEF Stacked, StackFits

\* A pop, on both sides.
LEMMA DropFits ==
  ASSUME NEW stack, NEW stk \in Seq(VTypes), Stacked(stack, stk), NEW n \in 0 .. Len(stk)
  PROVE  Stacked(drop(stack, n), drop(stk, n)) /\ drop(stk, n) \in Seq(VTypes)
<1>1. stack \in Seq(Entry) /\ Len(stack) = Len(stk) /\ Len(stk) \in Nat
  BY DEF Stacked, StackFits
<1>2. /\ drop(stack, n) \in Seq(Entry) /\ drop(stk, n) \in Seq(VTypes)
      /\ Len(drop(stack, n)) = Len(stk) - n /\ Len(drop(stk, n)) = Len(stk) - n
      /\ \A i \in 1 .. Len(stk) - n : drop(stack, n)[i] = stack[i] /\ drop(stk, n)[i] = stk[i]
  BY <1>1 DEF drop
<1>3. ASSUME NEW i \in 1 .. Len(stk) - n
      PROVE  /\ i \in 1 .. Len(stk) /\ InRange(drop(stack, n)[i])
             /\ drop(stack, n)[i].type \in OperandTags(drop(stk, n)[i])
  <2>1. i \in 1 .. Len(stk)
    BY <1>1
  <2>2. InRange(stack[i]) /\ stack[i].type \in OperandTags(stk[i])
    BY <2>1 DEF Stacked, StackFits
  <2> QED BY <1>2, <2>1, <2>2
<1> QED BY <1>2, <1>3 DEF Stacked, StackFits

\* A pop of nothing.
LEMMA DropNone ==
  ASSUME NEW S, NEW s \in Seq(S)
  PROVE  drop(s, 0) = s
BY DEF drop

\* The n-th entry from the top is of the type the verifier has there.
LEMMA PeekFits ==
  ASSUME NEW stack, NEW stk \in Seq(VTypes), Stacked(stack, stk), NEW n \in Nat, n < Len(stk)
  PROVE  /\ peek(stack, n) \in Entry /\ InRange(peek(stack, n))
         /\ peek(stk, n) \in VTypes /\ peek(stack, n).type \in OperandTags(peek(stk, n))
<1>1. stack \in Seq(Entry) /\ Len(stack) = Len(stk) /\ Len(stk) \in Nat /\ Len(stk) - n \in 1 .. Len(stk)
  BY DEF Stacked, StackFits
<1> QED BY <1>1 DEF Stacked, StackFits, peek

\* What a read of an entry gives.
LEMMA ReadsInt ==
  ASSUME NEW e \in Entry
  PROVE  /\ stack_to_int(e) \in Int /\ int32(e) \in SignedRange(IntHalf) /\ int32(e) \in Int
         /\ e.value \in Int
         /\ stack_to_int(e) \in SignedRange(LongHalf)
<1>1. HalfOf(e.type) \in Nat \ {0} /\ HalfOf(e.type) <= LongHalf
  BY Widths DEF HalfOf
<1>2. stack_to_int(e) \in SignedRange(HalfOf(e.type)) /\ e.value \in Int
  BY <1>1, SignedInRange DEF stack_to_int, Entry
<1>3. stack_to_int(e) \in Int /\ stack_to_int(e) \in SignedRange(LongHalf)
  BY <1>1, <1>2, Widths DEF SignedRange
<1>4. int32(e) \in SignedRange(IntHalf)
  BY <1>3, Widths, SignedInRange DEF int32
<1> QED BY <1>2, <1>3, <1>4, Widths DEF SignedRange

\* The entries the push operations make.
LEMMA MadeEntries ==
  ASSUME NEW v \in Int
  PROVE  /\ \A half \in {ByteHalf, ShortHalf, IntHalf, LongHalf} : Signed(v, half) \in Int
         /\ InRange([type |-> "BYTE", value |-> Signed(v, ByteHalf)])
         /\ InRange([type |-> "SHORT", value |-> Signed(v, ShortHalf)])
         /\ InRange([type |-> "INT", value |-> Signed(v, IntHalf)])
         /\ InRange([type |-> "LONG", value |-> Signed(v, LongHalf)])
         /\ InRange([type |-> "REF", value |-> v])
<1>1. \A half \in {ByteHalf, ShortHalf, IntHalf, LongHalf} : Signed(v, half) \in SignedRange(half)
  BY Widths, SignedInRange
<1> QED BY <1>1, Widths DEF InRange, SignedRange, IntegerTypes, HalfOf

\* The push operations push an entry of the type they are named for.
LEMMA PushFits ==
  ASSUME NEW stack, NEW stk \in Seq(VTypes), Stacked(stack, stk), NEW v \in Int
  PROVE  /\ Stacked(push_byte(stack, v), Append(stk, "I"))
         /\ Stacked(push_short(stack, v), Append(stk, "I"))
         /\ Stacked(push_int(stack, v), Append(stk, "I"))
         /\ Stacked(push_long(stack, v), Append(stk, "J"))
         /\ Stacked(push_ref(stack, v), Append(stk, "A"))
<1>1. ASSUME NEW tag \in EntryTypes, NEW w \in Int, NEW t \in VTypes, tag \in OperandTags(t),
             InRange([type |-> tag, value |-> w])
      PROVE  Stacked(Push(stack, tag, w), Append(stk, t))
  <2>1. [type |-> tag, value |-> w] \in Entry /\ [type |-> tag, value |-> w].type = tag
    BY DEF Entry
  <2> QED BY <1>1, <2>1, AppendFits DEF Push
<1>2. /\ "I" \in VTypes /\ "J" \in VTypes /\ "A" \in VTypes
      /\ {"BYTE", "SHORT", "INT", "LONG", "REF"} \subseteq EntryTypes
      /\ {"BYTE", "SHORT", "INT"} = OperandTags("I") /\ "LONG" \in OperandTags("J") /\ "REF" \in OperandTags("A")
  BY DEF VTypes, EntryTypes, OperandTags
<1> QED BY <1>1, <1>2, MadeEntries DEF push_byte, push_short, push_int, push_long, push_ref

-----------------------------------------------------------------------------
HeapsOK ==
    /\ IsSequence(memory)
    /\ \A p \in 1 .. Len(memory) : BlockTypeOK(memory[p])
    /\ \A i \in 1 .. Len(class_heap) :
         /\ class_heap[i] \in DOMAIN statics
         /\ statics[class_heap[i]] \in [DOMAIN Class(class_heap[i]).fields -> Int]

SuspendedOK(i) == FrameTypeOK(callers[i]) /\ Awaiting(callers[i], Called(i))

\* main() calls only these.
BottomOK == \/ Called(0).meth = "<clinit>"
            \/ Called(0).meth = MainMethod /\ Called(0).clazz = prog.main

ActivationsOK ==
    /\ FrameTypeOK(frame) /\ Running(frame) /\ BottomOK
    /\ \A i \in 1 .. Len(callers) : SuspendedOK(i)

SafeInv ==
    /\ ClassInv
    /\ HeapsOK
    /\ status \in (Terminal \ {"abort", "error_exit"}) \cup {"boot", "run"}
    /\ stage \in {"natives", "main_clinit", "main"}
    /\ status = "run" => ActivationsOK

\* The properties are parts of the invariant.
LEMMA SafeInvImplies ==
  ASSUME SafeInv
  PROVE  TypeOK /\ OperandsTyped /\ NoAssertionFails
<1>1. TypeOK
  BY DEF SafeInv, ClassInv, HeapInv, NamesInv, HeapsOK, ActivationsOK, SuspendedOK, TypeOK
<1>2. OperandsTyped
  BY DEF SafeInv, ActivationsOK, SuspendedOK, OperandsTyped
<1>3. NoAssertionFails
  BY DEF SafeInv, NoAssertionFails, Terminal
<1> QED BY <1>1, <1>2, <1>3

\* The activations that a step keeps are still well typed.
LEMMA KeptOK ==
  ASSUME NEW n \in Nat, Len(callers) \in Nat, n <= Len(callers), Kept(n), prog' = prog,
         \A i \in 1 .. Len(callers) : SuspendedOK(i)
  PROVE  \A i \in 1 .. n : SuspendedOK(i)'
<1> TAKE i \in 1 .. n
<1>1. /\ callers'[i] = callers[i] /\ Same(Called(i)', Called(i))
      /\ FrameTypeOK(callers[i]) /\ Awaiting(callers[i], Called(i))
  BY DEF Kept, SuspendedOK
<1>2. FrameTypeOK(callers[i])'
  BY <1>1 DEF FrameTypeOK, Method, Class
<1>3. \A c, meth : Method(c, meth)' = Method(c, meth)
  BY DEF Method, Class
<1>4. Awaiting(callers[i], Called(i))'
  BY <1>1, <1>3 DEF Awaiting, Running, TypesAt, Same
<1> QED BY <1>2, <1>4 DEF SuspendedOK

\* The activation main() called is kept with the others.
LEMMA KeptBottom ==
  ASSUME NEW n \in Nat, Kept(n), prog' = prog, BottomOK
  PROVE  BottomOK'
<1>1. Same(Called(0)', Called(0))
  BY DEF Kept
<1> QED BY <1>1 DEF Same, BottomOK

-----------------------------------------------------------------------------
\* What is known of the instruction that runs.
method == Method(frame.clazz, frame.meth)
rule == method.code[frame.pc]

\* The program that runs is one of Programs.
LEMMA ProgramVerified ==
  ASSUME SafeInv
  PROVE  Verified(prog)
BY VerifiedPrograms DEF SafeInv, ClassInv, HeapInv

\* The methods that execute() runs are verified.
LEMMA MethodsVerified ==
  ASSUME SafeInv, NEW c \in DOMAIN prog.classes, NEW name \in DOMAIN Class(c).methods,
         ~Method(c, name).native
  PROVE  MethodVerified(Method(c, name), prog.classes)
BY ProgramVerified DEF Verified, ClassVerified, Class, Method

\* All that is known of the activation that runs and of its instruction.
LEMMA Current ==
  ASSUME SafeInv, status = "run"
  PROVE  /\ MethodVerified(method, prog.classes)
         /\ code = method.code /\ frame.pc \in DOMAIN method.code /\ ins = rule
         /\ InstructionRule(method, frame.pc, prog.classes)
         /\ rule.stk \in Seq(VTypes)
         /\ Len(rule.stk) \in Nat
         /\ Stacked(opst, rule.stk)
         /\ LocalsFit(frame.locals, rule.loc)
         /\ frame.locals \in [0 .. method.max_locals - 1 -> Entry]
         /\ \A i \in 0 .. method.max_locals - 1 : InRange(frame.locals[i])
         /\ frame.clazz \in DOMAIN prog.classes
         /\ ActivationsOK /\ IsActivation(frame) /\ Known(frame)
<1>1. FrameTypeOK(frame) /\ Running(frame) /\ ActivationsOK
  BY DEF SafeInv, ActivationsOK
<1>5. Known(frame)
  <2>1. Len(callers) \in 0 .. Len(callers) /\ Called(Len(callers)) = frame
    BY DEF Called, SafeInv, ClassInv, ActivationsInv, IsSequence
  <2> QED BY <2>1 DEF SafeInv, ClassInv, ActivationsInv, InMethods
<1>2. MethodVerified(method, prog.classes)
  BY <1>1, MethodsVerified DEF FrameTypeOK, method
<1>3. /\ code = method.code /\ frame.pc \in DOMAIN method.code /\ ins = rule
      /\ Stacked(opst, rule.stk) /\ LocalsFit(frame.locals, rule.loc)
      /\ frame.locals \in [0 .. method.max_locals - 1 -> Entry]
      /\ \A i \in 0 .. method.max_locals - 1 : InRange(frame.locals[i])
      /\ frame.clazz \in DOMAIN prog.classes
  BY <1>1 DEF FrameTypeOK, Running, TypesAt, code, ins, method, rule, opst, Stacked
<1>4. InstructionRule(method, frame.pc, prog.classes) /\ rule.stk \in Seq(VTypes)
  BY <1>2, <1>3 DEF MethodVerified, rule
<1> QED BY <1>1, <1>2, <1>3, <1>4, <1>5 DEF Known

\* The instruction after the one that ran finds what the verifier says.
LEMMA LocalsFlow ==
  ASSUME NEW m, NEW locals \in [0 .. m.max_locals - 1 -> Entry], NEW pc, NEW stk, NEW loc,
         LocalsFit(locals, loc), Flows(m, pc, stk, loc)
  PROVE  LocalsFit(locals, m.code[pc].loc)
<1> SUFFICES ASSUME NEW i \in 0 .. m.max_locals - 1
             PROVE  locals[i].type \in LocalTags(m.code[pc].loc[i + 1])
  BY DEF LocalsFit
<1>1. locals[i].type \in LocalTags(loc[i + 1]) /\ locals[i].type \in EntryTypes
  BY DEF LocalsFit, Entry
<1>2. m.code[pc].loc[i + 1] \in {loc[i + 1], "-"}
  BY DEF Flows
<1> QED BY <1>1, <1>2 DEF LocalTags

\* A handler that stays in its activation.
LEMMA LocalStep ==
  ASSUME SafeInv, ClassInv', Continues, HeapsOK',
         NEW stk, NEW loc, Stacked(frame'.op_stack, stk),
         frame'.locals \in [0 .. method.max_locals - 1 -> Entry],
         \A i \in 0 .. method.max_locals - 1 : InRange(frame'.locals[i]),
         LocalsFit(frame'.locals, loc),
         Flows(method, frame'.pc, stk, loc)
  PROVE  SafeInv'
<1>1. status = "run" /\ ActivationsOK /\ UNCHANGED <<control, status>> /\ Same(frame', frame)
  BY DEF SafeInv, Continues
<1>2. IsSequence(callers) /\ Len(callers) \in Nat /\ AllActivations
  BY <1>1 DEF SafeInv, ClassInv, ActivationsInv, IsSequence, InMethods, Known, AllActivations
<1>3. Kept(Len(callers))
  BY <1>2, ContinueKeeps
<1>4. \A i \in 1 .. Len(callers) : SuspendedOK(i)'
  BY <1>1, <1>2, <1>3, KeptOK DEF ActivationsOK
<1>9. BottomOK'
  BY <1>1, <1>2, <1>3, KeptBottom DEF ActivationsOK
<1>5. Method(frame.clazz, frame.meth)' = method
  BY <1>1 DEF Method, Class, method, Same
<1>6. LocalsFit(frame'.locals, method.code[frame'.pc].loc)
  BY LocalsFlow
<1>7. Running(frame)'
  BY <1>5, <1>6 DEF Running, TypesAt, Flows, Stacked
<1>8. FrameTypeOK(frame)'
  BY <1>1, <1>5 DEF FrameTypeOK, ActivationsOK, Same, Class, Flows, Stacked, method
<1> QED BY <1>1, <1>4, <1>7, <1>8, <1>9 DEF SafeInv, ActivationsOK

\* The rules of the instruction that runs.
LEMMA Rules ==
  ASSUME SafeInv, status = "run"
  PROVE  LET q == frame.pc IN
         /\ ConstantRule(method, q, ins.op, ins.arg) /\ LocalRule(method, q, ins.op, ins.arg)
         /\ OperatorRule(method, q, ins.op) /\ BranchRule(method, q, ins.op, ins.arg)
         /\ ArrayRule(method, q, ins.op, ins.arg)
         /\ FieldRule(method, q, ins.op, ins.arg, prog.classes)
         /\ InvokeRule(method, q, ins.op, ins.arg, prog.classes)
         /\ ReturnRule(method, q, ins.op)
BY Current DEF InstructionRule, rule

\* The heaps stay well typed while they stay as they are.
LEMMA HeapsKept ==
  ASSUME HeapsOK, UNCHANGED <<prog, heaps>>
  PROVE  HeapsOK'
BY DEF HeapsOK, BlockTypeOK, TakesString, Methods, Class

\* A handler that sets pc and the operand stack, and may have changed the heaps.
LEMMA GotoStep ==
  ASSUME SafeInv, ClassInv', status = "run", UNCHANGED <<class_heap, class_names>>, HeapsOK',
         NEW stack, NEW pc, Goto(stack, pc),
         NEW stk, Stacked(stack, stk), Flows(method, pc, stk, rule.loc)
  PROVE  SafeInv'
<1>1. frame'.op_stack = stack /\ frame'.pc = pc /\ frame'.locals = frame.locals
  BY Current DEF Goto, IsActivation
<1>2. Continues
  BY Current, GotoContinues
<1> QED BY <1>1, <1>2, Current, LocalStep

\* A handler that sets pc and the operand stack, and changes nothing else.
LEMMA AdvanceStep ==
  ASSUME SafeInv, ClassInv', status = "run",
         NEW stack, NEW len, Advance(stack, len),
         NEW stk, Stacked(stack, stk), Flows(method, frame.pc + len, stk, rule.loc)
  PROVE  SafeInv'
<1>1. Goto(stack, frame.pc + len) /\ UNCHANGED <<prog, heaps>>
  BY DEF Advance, Goto
<1>2. HeapsOK'
  BY <1>1, HeapsKept DEF SafeInv
<1> QED BY <1>1, <1>2, GotoStep

\* A handler that pops n operands and pushes one.
LEMMA PushStep ==
  ASSUME SafeInv, ClassInv', status = "run",
         NEW stack, NEW len, NEW n, NEW t, Advance(stack, len),
         Stacked(stack, Append(drop(rule.stk, n), t)), Pushes(method, frame.pc, len, n, t)
  PROVE  SafeInv'
BY AdvanceStep DEF Pushes, rule

\* A handler that pops n operands.
LEMMA PopStep ==
  ASSUME SafeInv, ClassInv', status = "run",
         NEW len, NEW n \in 0 .. Len(rule.stk), Advance(drop(opst, n), len),
         Pops(method, frame.pc, frame.pc + len, n)
  PROVE  SafeInv'
<1>1. Stacked(drop(opst, n), drop(rule.stk, n))
  BY Current, DropFits
<1> QED BY <1>1, AdvanceStep DEF Pops, rule

\* A handler that assigns a local variable.
LEMMA StoreStep ==
  ASSUME SafeInv, ClassInv', status = "run",
         NEW i \in 0 .. method.max_locals - 1, NEW local \in Entry, NEW stack, NEW len,
         Store(i, local, stack, len), InRange(local),
         NEW stk, NEW loc, Stacked(stack, stk), Flows(method, frame.pc + len, stk, loc),
         \A j \in 0 .. method.max_locals - 1 :
           IF j = i THEN local.type \in LocalTags(loc[j + 1]) ELSE loc[j + 1] = rule.loc[j + 1]
  PROVE  SafeInv'
<1>1. /\ frame'.op_stack = stack /\ frame'.pc = frame.pc + len
      /\ frame'.locals = [frame.locals EXCEPT ![i] = local]
      /\ UNCHANGED <<prog, heaps>>
  BY Current DEF Store, IsActivation
<1>2. Continues
  BY Current, StoreContinues
<1>3. frame'.locals \in [0 .. method.max_locals - 1 -> Entry]
  BY <1>1, Current
<1>4. ASSUME NEW j \in 0 .. method.max_locals - 1
      PROVE  frame'.locals[j] = IF j = i THEN local ELSE frame.locals[j]
  BY <1>1, Current
<1>5. LocalsFit(frame'.locals, loc)
  BY <1>3, <1>4, Current DEF LocalsFit
<1>6. HeapsOK'
  BY <1>1, HeapsKept DEF SafeInv
<1> QED BY <1>1, <1>2, <1>3, <1>4, <1>5, <1>6, Current, LocalStep

\* A step that ends the process, or does nothing.
LEMMA CrashSafe ==
  ASSUME SafeInv, ClassInv', NEW how \in Terminal \ {"abort", "error_exit"}, Crash(how)
  PROVE  SafeInv'
<1>1. HeapsOK'
  BY HeapsKept DEF SafeInv, Crash
<1> QED BY <1>1 DEF SafeInv, Crash, Terminal

\* A handler that loops for ever, or a process that has ended.
LEMMA StutterSafe ==
  ASSUME SafeInv, ClassInv', UNCHANGED vars
  PROVE  SafeInv'
<1>1. HeapsOK'
  BY HeapsKept DEF SafeInv, vars
<1>2. ASSUME status = "run"
      PROVE  ActivationsOK'
  <2>1. Continues
    BY <1>2, Current DEF Continues, Same, vars
  <2>2. IsSequence(callers) /\ Len(callers) \in Nat /\ AllActivations
    BY <1>2 DEF SafeInv, ClassInv, ActivationsInv, IsSequence, InMethods, Known, AllActivations
  <2>3. Kept(Len(callers))
    BY <2>1, <2>2, ContinueKeeps
  <2>4. \A i \in 1 .. Len(callers) : SuspendedOK(i)'
    BY <1>2, <2>2, <2>3, Current, KeptOK DEF ActivationsOK, vars
  <2>5. FrameTypeOK(frame)' /\ Running(frame)'
    BY <1>2, Current DEF ActivationsOK, FrameTypeOK, Running, TypesAt, Method, Class, vars
  <2>6. BottomOK'
    BY <2>2, <2>3, <1>2, Current, KeptBottom DEF ActivationsOK, vars
  <2> QED BY <2>4, <2>5, <2>6 DEF ActivationsOK, vars
<1> QED BY <1>1, <1>2 DEF SafeInv, vars

-----------------------------------------------------------------------------
\* Blocks added to the memory.
LEMMA ConcatElements ==
  ASSUME NEW s, IsSequence(s), NEW u, IsSequence(u)
  PROVE  /\ IsSequence(s \o u)
         /\ Len(s) \in Nat /\ Len(u) \in Nat /\ Len(s \o u) = Len(s) + Len(u)
         /\ \A i \in 1 .. Len(s) : (s \o u)[i] = s[i]
         /\ \A i \in 1 .. Len(u) : (s \o u)[Len(s) + i] = u[i]
<1> DEFINE T == Elements(s) \cup Elements(u)
<1>1. s \in Seq(T) /\ u \in Seq(T)
  BY DEF IsSequence
<1> HIDE DEF T
<1>2. s \o u \in Seq(T)
  BY <1>1
<1>3. IsSequence(s \o u)
  BY <1>2, SequenceOfSet
<1>4. /\ Len(s) \in Nat /\ Len(u) \in Nat /\ Len(s \o u) = Len(s) + Len(u)
      /\ \A i \in 1 .. Len(s) : (s \o u)[i] = s[i]
      /\ \A i \in 1 .. Len(u) : (s \o u)[Len(s) + i] = u[i]
  BY <1>1
<1> QED BY <1>3, <1>4

\* w is s followed by u.
Joined(s, u, w) ==
    /\ IsSequence(w)
    /\ Len(s) \in Nat /\ Len(u) \in Nat /\ Len(w) = Len(s) + Len(u)
    /\ \A i \in 1 .. Len(s) : w[i] = s[i]
    /\ \A i \in 1 .. Len(u) : w[Len(s) + i] = u[i]

LEMMA Join ==
  ASSUME NEW s, IsSequence(s), NEW u, IsSequence(u), NEW w, w = s \o u
  PROVE  Joined(s, u, w)
<1>1. IsSequence(w) /\ Len(s) \in Nat /\ Len(u) \in Nat /\ Len(w) = Len(s) + Len(u)
  BY ConcatElements
<1>2. \A i \in 1 .. Len(s) : w[i] = s[i]
  BY ConcatElements
<1>3. \A i \in 1 .. Len(u) : w[Len(s) + i] = u[i]
  BY ConcatElements
<1> QED BY <1>1, <1>2, <1>3 DEF Joined

\* malloc() of several blocks keeps the heaps well typed.
LEMMA BlocksMade ==
  ASSUME HeapsOK, NEW blocks, IsSequence(blocks), memory' = memory \o blocks,
         \A i \in 1 .. Len(blocks) : BlockTypeOK(blocks[i]), UNCHANGED <<prog, class_heap, class_names, statics>>
  PROVE  HeapsOK'
<1>1. /\ IsSequence(memory')
      /\ Len(memory) \in Nat /\ Len(blocks) \in Nat /\ Len(memory') = Len(memory) + Len(blocks)
      /\ \A i \in 1 .. Len(memory) : memory'[i] = memory[i]
      /\ \A i \in 1 .. Len(blocks) : memory'[Len(memory) + i] = blocks[i]
  BY ConcatElements DEF HeapsOK
<1>2. ASSUME NEW p \in 1 .. Len(memory')
      PROVE  BlockTypeOK(memory'[p])
  <2>1. CASE p \in 1 .. Len(memory)
    BY <1>1, <2>1 DEF HeapsOK
  <2>2. CASE p \notin 1 .. Len(memory)
    <3>1. p - Len(memory) \in 1 .. Len(blocks) /\ p = Len(memory) + (p - Len(memory))
      BY <1>1, <2>2
    <3> QED BY <1>1, <3>1
  <2> QED BY <2>1, <2>2
<1>3. \A p \in 1 .. Len(memory') : BlockTypeOK(memory[p])'
  <2>1. \A f : TakesString(f)' = TakesString(f)
    BY DEF TakesString, Methods
  <2> QED BY <1>2, <2>1 DEF BlockTypeOK
<1> QED BY <1>1, <1>3 DEF HeapsOK, Class

\* malloc() of one block keeps the heaps well typed.
LEMMA BlockMade ==
  ASSUME HeapsOK, NEW block, memory' = memory \o <<block>>, BlockTypeOK(block),
         UNCHANGED <<prog, class_heap, class_names, statics>>
  PROVE  HeapsOK' /\ Len(memory) \in Nat
<1>1. IsSequence(<<block>>) /\ Len(<<block>>) = 1 /\ <<block>>[1] = block
  <2>1. <<block>> \in Seq({block})
    OBVIOUS
  <2> QED BY <2>1, SequenceOfSet
<1>2. \A i \in 1 .. Len(<<block>>) : BlockTypeOK(<<block>>[i])
  BY <1>1
<1>3. HeapsOK'
  BY <1>1, <1>2, BlocksMade
<1>4. Len(memory) \in Nat
  BY DEF HeapsOK, IsSequence
<1> QED BY <1>3, <1>4

\* create_string keeps the heaps well typed.
LEMMA StringMade ==
  ASSUME SafeInv, status = "run", Allocate(<<new_string(frame.clazz)>>),
         UNCHANGED <<prog, class_heap, class_names, statics>>
  PROVE  HeapsOK' /\ Len(memory) \in Nat
<1>1. BlockTypeOK(new_string(frame.clazz))
  BY Current DEF new_string, Block, BlockTypeOK
<1> QED BY <1>1, BlockMade DEF SafeInv, Allocate

-----------------------------------------------------------------------------
\* Without operands popped.
LEMMA NoDrop ==
  ASSUME SafeInv, status = "run"
  PROVE  drop(rule.stk, 0) = rule.stk /\ drop(opst, 0) = opst
BY Current, DropNone DEF Stacked

\* The constants are integers of the types the instructions say.
LEMMA ConstantTyped ==
  ASSUME SafeInv, status = "run"
  PROVE  /\ ins.op = "iconst" => ins.arg \in SignedRange(IntHalf) /\ ins.arg \in Int
                                 /\ Pushes(method, frame.pc, 1, 0, "I")
         /\ ins.op = "bipush" => ins.arg \in SignedRange(ByteHalf) /\ ins.arg \in Int
                                 /\ Pushes(method, frame.pc, 2, 0, "I")
         /\ ins.op = "sipush" => ins.arg \in SignedRange(ShortHalf) /\ ins.arg \in Int
                                 /\ Pushes(method, frame.pc, 3, 0, "I")
         /\ ins.op = "ldc2_w" => ins.arg \in SignedRange(LongHalf) /\ ins.arg \in Int
                                 /\ Pushes(method, frame.pc, 3, 0, "J")
         /\ ins.op = "ldc" /\ ins.arg.tag = "Integer" =>
              ins.arg.value \in SignedRange(IntHalf) /\ ins.arg.value \in Int
              /\ Pushes(method, frame.pc, 2, 0, "I")
         /\ ins.op = "ldc" /\ ins.arg.tag = "String" => Pushes(method, frame.pc, 2, 0, "A")
<1>1. ConstantRule(method, frame.pc, ins.op, ins.arg)
  BY Rules
<1>2. \A half \in {ByteHalf, ShortHalf, IntHalf, LongHalf} : SignedRange(half) \subseteq Int
  BY Widths DEF SignedRange
<1> QED BY <1>1, <1>2 DEF ConstantRule

\* iconst, bipush, sipush, ldc2_w and ldc keep the invariant.
LEMMA ConstantsSafe ==
  ASSUME SafeInv, ClassInv', iconst \/ bipush \/ sipush \/ ldc2_w \/ ldc
  PROVE  SafeInv'
<1>1. status = "run"
  BY DEF iconst, bipush, sipush, ldc2_w, ldc, Fetch
<1>2. CASE iconst
  <2>1. ins.arg \in Int /\ Pushes(method, frame.pc, 1, 0, "I") /\ Advance(push_int(opst, ins.arg), 1)
    BY <1>1, <1>2, ConstantTyped DEF iconst, Fetch
  <2> QED BY <1>1, <2>1, Current, NoDrop, PushFits, PushStep
<1>3. CASE bipush
  <2>1. ins.arg \in Int /\ Pushes(method, frame.pc, 2, 0, "I") /\ Advance(push_byte(opst, ins.arg), 2)
    BY <1>1, <1>3, ConstantTyped DEF bipush, Fetch
  <2> QED BY <1>1, <2>1, Current, NoDrop, PushFits, PushStep
<1>4. CASE sipush
  <2>1. ins.arg \in Int /\ Pushes(method, frame.pc, 3, 0, "I") /\ Advance(push_short(opst, ins.arg), 3)
    BY <1>1, <1>4, ConstantTyped DEF sipush, Fetch
  <2> QED BY <1>1, <2>1, Current, NoDrop, PushFits, PushStep
<1>5. CASE ldc2_w
  <2>1. ins.arg \in Int /\ Pushes(method, frame.pc, 3, 0, "J") /\ Advance(push_long(opst, ins.arg), 3)
    BY <1>1, <1>5, ConstantTyped DEF ldc2_w, Fetch
  <2> QED BY <1>1, <2>1, Current, NoDrop, PushFits, PushStep
<1>6. CASE ldc
  <2>1. ins.op = "ldc"
    BY <1>6 DEF ldc, Fetch
  <2>2. CASE ins.arg.tag = "Integer" /\ Advance(push_int(opst, ins.arg.value), 2)
    <3>1. ins.arg.value \in Int /\ Pushes(method, frame.pc, 2, 0, "I")
      BY <1>1, <2>1, <2>2, ConstantTyped
    <3> QED BY <1>1, <2>2, <3>1, Current, NoDrop, PushFits, PushStep
  <2>3. CASE /\ ins.arg.tag = "String" /\ ~HeapFull
             /\ Allocate(<<new_string(frame.clazz)>>)
             /\ Goto(push_ref(opst, Len(memory) + 1), frame.pc + 2)
             /\ UNCHANGED <<class_heap, class_names, statics>>
    <3>1. Pushes(method, frame.pc, 2, 0, "A")
      BY <1>1, <2>1, <2>3, Rules DEF ConstantRule
    <3>2. HeapsOK' /\ Len(memory) \in Nat
      BY <1>1, <2>3, StringMade DEF Goto
    <3>3. Stacked(push_ref(opst, Len(memory) + 1), Append(drop(rule.stk, 0), "A"))
      BY <1>1, <3>2, Current, NoDrop, PushFits
    <3> QED BY <1>1, <2>3, <3>1, <3>2, <3>3, GotoStep DEF Pushes, rule
  <2>4. ins.arg.tag \in {"Integer", "String"}
    BY <1>1, <2>1, Rules DEF ConstantRule
  <2> QED BY <1>6, <2>2, <2>3, <2>4, CrashSafe DEF ldc, Terminal
<1> QED BY <1>2, <1>3, <1>4, <1>5, <1>6

\* Reads of a local variable give integers, or pointers.
LEMMA LocalReads ==
  ASSUME NEW e \in Entry
  PROVE  int_value(e) \in Int /\ long_value(e) \in Int /\ ptr_value(e) \in Int
<1>1. e.value \in Int
  BY DEF Entry
<1>2. int_value(e) \in SignedRange(IntHalf) /\ long_value(e) \in SignedRange(LongHalf)
  BY <1>1, Widths, SignedInRange DEF int_value, long_value
<1> QED BY <1>1, <1>2, Widths DEF SignedRange, ptr_value

\* iload, lload and aload keep the invariant.
LEMMA LoadsSafe ==
  ASSUME SafeInv, ClassInv', iload \/ lload \/ aload
  PROVE  SafeInv'
<1>1. status = "run"
  BY DEF iload, lload, aload, Fetch
<1>2. \A i \in 0 .. method.max_locals - 1 : frame.locals[i] \in Entry
  BY <1>1, Current
<1>3. LocalRule(method, frame.pc, ins.op, ins.arg)
  BY <1>1, Rules
<1>4. CASE iload
  <2>1. ins.arg \in 0 .. method.max_locals - 1 /\ Pushes(method, frame.pc, LocalLength, 0, "I")
    <3>1. CASE ins.op = "iload"
      BY <1>3, <3>1 DEF LocalRule, LocalLength, Short, Loads
    <3>2. CASE ins.op = "iload_n"
      BY <1>3, <3>2 DEF LocalRule, LocalLength, Short, Loads
    <3> QED BY <1>4, <3>1, <3>2 DEF iload, Fetch
  <2>2. Advance(push_int(opst, int_value(frame.locals[ins.arg])), LocalLength)
    BY <1>4 DEF iload
  <2> QED BY <1>1, <1>2, <2>1, <2>2, LocalReads, Current, NoDrop, PushFits, PushStep
<1>5. CASE lload
  <2>1. ins.arg \in 0 .. method.max_locals - 1 /\ Pushes(method, frame.pc, LocalLength, 0, "J")
    <3>1. CASE ins.op = "lload"
      BY <1>3, <3>1 DEF LocalRule, LocalLength, Short, Loads
    <3>2. CASE ins.op = "lload_n"
      BY <1>3, <3>2 DEF LocalRule, LocalLength, Short, Loads
    <3> QED BY <1>5, <3>1, <3>2 DEF lload, Fetch
  <2>2. Advance(push_long(opst, long_value(frame.locals[ins.arg])), LocalLength)
    BY <1>5 DEF lload
  <2> QED BY <1>1, <1>2, <2>1, <2>2, LocalReads, Current, NoDrop, PushFits, PushStep
<1>6. CASE aload
  <2>1. ins.arg \in 0 .. method.max_locals - 1 /\ Pushes(method, frame.pc, LocalLength, 0, "A")
    <3>1. CASE ins.op = "aload"
      BY <1>3, <3>1 DEF LocalRule, LocalLength, Short, Loads
    <3>2. CASE ins.op = "aload_n"
      BY <1>3, <3>2 DEF LocalRule, LocalLength, Short, Loads
    <3> QED BY <1>6, <3>1, <3>2 DEF aload, Fetch
  <2>2. Advance(push_ref(opst, ptr_value(frame.locals[ins.arg])), LocalLength)
    BY <1>6 DEF aload
  <2> QED BY <1>1, <1>2, <2>1, <2>2, LocalReads, Current, NoDrop, PushFits, PushStep
<1> QED BY <1>4, <1>5, <1>6

\* dup and dup2 keep the invariant: the tag of the top entry is LONG exactly when
\* the verifier has a long there.
LEMMA DupSafe ==
  ASSUME SafeInv, ClassInv', dup \/ dup2
  PROVE  SafeInv'
<1>1. status = "run" /\ OperatorRule(method, frame.pc, ins.op)
  BY Rules DEF dup, dup2, Fetch
<1>2. ASSUME NEW n \in Nat, n < Len(rule.stk)
      PROVE  /\ peek(opst, n) \in Entry /\ InRange(peek(opst, n))
             /\ peek(rule.stk, n) \in VTypes /\ peek(opst, n).type \in OperandTags(peek(rule.stk, n))
  BY <1>1, <1>2, Current, PeekFits
<1>3. Stacked(opst, rule.stk) /\ rule.stk \in Seq(VTypes) /\ Len(rule.stk) \in Nat
  BY <1>1, Current
<1>4. CASE dup
  <2>1. /\ Len(rule.stk) >= 1 /\ Pushes(method, frame.pc, 1, 0, top(rule.stk))
        /\ Advance(Append(opst, top(opst)), 1)
    BY <1>1, <1>4 DEF dup, Fetch, OperatorRule, rule
  <2>2. Stacked(Append(opst, top(opst)), Append(rule.stk, top(rule.stk)))
    BY <1>2, <1>3, <2>1, AppendFits DEF top
  <2> QED BY <1>1, <2>1, <2>2, NoDrop, PushStep
<1>5. CASE dup2
  <2>1. /\ Len(rule.stk) >= 1
        /\ top(rule.stk) = "J" => Pushes(method, frame.pc, 1, 0, "J")
        /\ top(rule.stk) # "J" =>
              /\ Len(rule.stk) >= 2 /\ peek(rule.stk, 1) # "J"
              /\ Flows(method, frame.pc + 1, Append(Append(rule.stk, peek(rule.stk, 1)), top(rule.stk)), rule.loc)
    BY <1>1, <1>5 DEF dup2, Fetch, OperatorRule, rule
  <2>2. top(opst).type = "LONG" <=> top(rule.stk) = "J"
    BY <1>2, <2>1 DEF top, OperandTags, VTypes
  <2>3. Stacked(Append(opst, top(opst)), Append(rule.stk, top(rule.stk)))
    BY <1>2, <1>3, <2>1, AppendFits DEF top
  <2>4. CASE top(rule.stk) = "J"
    BY <1>1, <1>5, <2>1, <2>2, <2>3, <2>4, NoDrop, PushStep DEF dup2
  <2>5. CASE top(rule.stk) # "J"
    <3>1. /\ Stacked(Append(opst, peek(opst, 1)), Append(rule.stk, peek(rule.stk, 1)))
          /\ Append(rule.stk, peek(rule.stk, 1)) \in Seq(VTypes)
      BY <1>2, <1>3, <2>1, <2>5, AppendFits
    <3>2. /\ top(opst) \in Entry /\ InRange(top(opst))
          /\ top(rule.stk) \in VTypes /\ top(opst).type \in OperandTags(top(rule.stk))
      BY <1>2, <1>3, <2>1 DEF top
    <3>3. Stacked(Append(Append(opst, peek(opst, 1)), top(opst)),
                  Append(Append(rule.stk, peek(rule.stk, 1)), top(rule.stk)))
      BY <3>1, <3>2, AppendFits
    <3> QED BY <1>1, <1>5, <2>1, <2>2, <2>5, <3>3, AdvanceStep DEF dup2
  <2> QED BY <2>4, <2>5
<1> QED BY <1>4, <1>5

\* What the topmost n operands are worth to a handler.
LEMMA OperandsRead ==
  ASSUME SafeInv, status = "run", NEW n \in Nat, n <= Len(rule.stk)
  PROVE  /\ Stacked(drop(opst, n), drop(rule.stk, n)) /\ drop(rule.stk, n) \in Seq(VTypes)
         /\ Len(opst) = Len(rule.stk)
         /\ \A k \in 0 .. n - 1 :
              /\ peek(opst, k) \in Entry /\ InRange(peek(opst, k))
              /\ peek(opst, k).type \in OperandTags(peek(rule.stk, k))
              /\ int32(peek(opst, k)) \in Int /\ int32(peek(opst, k)) \in SignedRange(IntHalf)
              /\ stack_to_int(peek(opst, k)) \in Int
              /\ stack_to_int(peek(opst, k)) \in SignedRange(LongHalf)
              /\ peek(opst, k).value \in Int
<1>1. Stacked(opst, rule.stk) /\ rule.stk \in Seq(VTypes) /\ Len(rule.stk) \in Nat
  BY Current
<1>2. ASSUME NEW k \in 0 .. n - 1
      PROVE  /\ peek(opst, k) \in Entry /\ InRange(peek(opst, k))
             /\ peek(opst, k).type \in OperandTags(peek(rule.stk, k))
  BY <1>1, PeekFits
<1>3. Stacked(drop(opst, n), drop(rule.stk, n)) /\ drop(rule.stk, n) \in Seq(VTypes)
  BY <1>1, DropFits
<1> QED BY <1>1, <1>2, <1>3, ReadsInt DEF Stacked, StackFits

\* The same for the top one, the top two and the top three.
LEMMA TopRead ==
  ASSUME SafeInv, status = "run", NEW t, Top(rule.stk, t)
  PROVE  /\ Stacked(drop(opst, 1), drop(rule.stk, 1)) /\ 1 <= Len(rule.stk) /\ Len(rule.stk) \in Nat
         /\ top(opst) \in Entry /\ InRange(top(opst)) /\ top(opst).type \in OperandTags(t)
         /\ int32(top(opst)) \in Int /\ int32(top(opst)) \in SignedRange(IntHalf)
         /\ stack_to_int(top(opst)) \in Int /\ stack_to_int(top(opst)) \in SignedRange(LongHalf)
         /\ top(opst).value \in Int
<1>1. 1 <= Len(rule.stk) /\ Len(rule.stk) \in Nat /\ peek(rule.stk, 0) = t /\ 0 \in 0 .. 1 - 1
  BY Current DEF Top, top
<1> QED BY <1>1, OperandsRead DEF top

\* The two topmost operands.
LEMMA Top2Read ==
  ASSUME SafeInv, status = "run", NEW u, NEW t, Top2(rule.stk, u, t)
  PROVE  /\ Stacked(drop(opst, 2), drop(rule.stk, 2)) /\ 2 <= Len(rule.stk) /\ Len(rule.stk) \in Nat
         /\ Top(rule.stk, t)
         /\ peek(opst, 1) \in Entry /\ peek(opst, 1).value \in Int
         /\ int32(peek(opst, 1)) \in Int /\ stack_to_int(peek(opst, 1)) \in Int
<1>1. 2 <= Len(rule.stk) /\ Len(rule.stk) \in Nat /\ peek(rule.stk, 1) = u /\ 1 \in 0 .. 2 - 1
  BY Current DEF Top2
<1>2. Top(rule.stk, t)
  BY <1>1 DEF Top, Top2
<1> QED BY <1>1, <1>2, OperandsRead

-----------------------------------------------------------------------------
\* A store of the topmost operand in a local variable.
LEMMA StoreTyped ==
  ASSUME SafeInv, ClassInv', status = "run",
         NEW i \in 0 .. method.max_locals - 1, NEW t \in VTypes, NEW local \in Entry, InRange(local),
         local.type \in LocalTags(t), NEW len, Store(i, local, drop(opst, 1), len), Top(rule.stk, t),
         Flows(method, frame.pc + len, drop(rule.stk, 1), [rule.loc EXCEPT ![i + 1] = t])
  PROVE  SafeInv'
<1>1. /\ rule.loc \in Seq(VTypes \cup {"-"}) /\ Len(rule.loc) = method.max_locals
      /\ method.max_locals \in Nat
  BY Current DEF MethodVerified, rule
<1> DEFINE loc == [rule.loc EXCEPT ![i + 1] = t]
<1>2. ASSUME NEW j \in 0 .. method.max_locals - 1
      PROVE  IF j = i THEN local.type \in LocalTags(loc[j + 1]) ELSE loc[j + 1] = rule.loc[j + 1]
  BY <1>1
<1>3. Stacked(drop(opst, 1), drop(rule.stk, 1))
  BY TopRead
<1> HIDE DEF loc
<1>4. Flows(method, frame.pc + len, drop(rule.stk, 1), loc)
  BY DEF loc
<1> QED BY <1>2, <1>3, <1>4, StoreStep

\* istore, lstore and astore keep the invariant.
LEMMA StoresSafe ==
  ASSUME SafeInv, ClassInv', istore \/ lstore \/ astore
  PROVE  SafeInv'
<1>1. status = "run"
  BY DEF istore, lstore, astore, Fetch
<1>2. LocalRule(method, frame.pc, ins.op, ins.arg)
  BY <1>1, Rules
<1>3. ASSUME NEW t \in VTypes, NEW local, Stores(method, frame.pc, LocalLength, ins.arg, t),
             Store(ins.arg, local, drop(opst, 1), LocalLength),
             Top(rule.stk, t) => local \in Entry /\ InRange(local) /\ local.type \in LocalTags(t)
      PROVE  SafeInv'
  BY <1>1, <1>3, StoreTyped DEF Stores, rule
<1>4. CASE istore
  <2>1. Stores(method, frame.pc, LocalLength, ins.arg, "I")
    <3>1. CASE ins.op = "istore"
      BY <1>2, <3>1 DEF LocalRule, LocalLength, Short
    <3>2. CASE ins.op = "istore_n"
      BY <1>2, <3>2 DEF LocalRule, LocalLength, Short
    <3> QED BY <1>4, <3>1, <3>2 DEF istore, Fetch
  <2> DEFINE local == [type |-> "INT", value |-> int32(top(opst))]
  <2>2. ASSUME Top(rule.stk, "I")
        PROVE  local \in Entry /\ InRange(local) /\ local.type \in LocalTags("I")
    BY <1>1, <2>2, TopRead DEF Entry, EntryTypes, InRange, LocalTags, HalfOf
  <2> QED BY <1>3, <1>4, <2>1, <2>2 DEF istore, VTypes
<1>5. CASE lstore
  <2>1. Stores(method, frame.pc, LocalLength, ins.arg, "J")
    <3>1. CASE ins.op = "lstore"
      BY <1>2, <3>1 DEF LocalRule, LocalLength, Short
    <3>2. CASE ins.op = "lstore_n"
      BY <1>2, <3>2 DEF LocalRule, LocalLength, Short
    <3> QED BY <1>5, <3>1, <3>2 DEF lstore, Fetch
  <2> DEFINE local == [type |-> "LONG", value |-> stack_to_int(top(opst))]
  <2>2. ASSUME Top(rule.stk, "J")
        PROVE  local \in Entry /\ InRange(local) /\ local.type \in LocalTags("J")
    BY <1>1, <2>2, TopRead DEF Entry, EntryTypes, InRange, LocalTags, HalfOf
  <2> QED BY <1>3, <1>5, <2>1, <2>2 DEF lstore, VTypes
<1>6. CASE astore
  <2>1. Stores(method, frame.pc, LocalLength, ins.arg, "A")
    <3>1. CASE ins.op = "astore"
      BY <1>2, <3>1 DEF LocalRule, LocalLength, Short
    <3>2. CASE ins.op = "astore_n"
      BY <1>2, <3>2 DEF LocalRule, LocalLength, Short
    <3> QED BY <1>6, <3>1, <3>2 DEF astore, Fetch
  <2> DEFINE local == [type |-> "REF", value |-> top(opst).value]
  <2>2. ASSUME Top(rule.stk, "A")
        PROVE  local \in Entry /\ InRange(local) /\ local.type \in LocalTags("A")
    BY <1>1, <2>2, TopRead DEF Entry, EntryTypes, InRange, LocalTags, IntegerTypes
  <2> QED BY <1>3, <1>6, <2>1, <2>2 DEF astore, VTypes
<1> QED BY <1>4, <1>5, <1>6

\* "entry.int_value += b" leaves an entry of the same tag, in its range.
LEMMA AddsInt ==
  ASSUME NEW local \in Entry, local.type \in {"INT", "LONG"}, NEW b \in Int
  PROVE  LET e == add_int_value(local, b) IN e \in Entry /\ InRange(e) /\ e.type = local.type
<1> DEFINE word == 2 * IntHalf
           low == int_value(local) + b
           long == local.value - (local.value % word) + (low % word)
<1>1. local.value \in Int /\ word \in Nat \ {0} /\ int_value(local) \in Int
  BY Widths, LocalReads DEF Entry
<1>2. local.value % word \in Int /\ low % word \in Int /\ low \in Int
  BY <1>1
<1>3. Signed(long, LongHalf) \in SignedRange(LongHalf) /\ Signed(low, IntHalf) \in SignedRange(IntHalf)
  BY <1>1, <1>2, Widths, SignedInRange
<1>4. Signed(long, LongHalf) \in Int /\ Signed(low, IntHalf) \in Int
  BY <1>3, Widths DEF SignedRange
<1>5. add_int_value(local, b) = [type |-> local.type,
                                 value |-> IF local.type = "LONG" THEN Signed(long, LongHalf)
                                           ELSE Signed(low, IntHalf)]
  BY DEF add_int_value, Entry
<1> QED BY <1>3, <1>4, <1>5 DEF Entry, InRange, HalfOf

\* iinc keeps the invariant.
LEMMA IincSafe ==
  ASSUME SafeInv, ClassInv', iinc
  PROVE  SafeInv'
<1>1. status = "run" /\ ins.op = "iinc"
  BY DEF iinc, Fetch
<1>2. LocalRule(method, frame.pc, ins.op, ins.arg)
  BY <1>1, Rules
<1>3. /\ ins.arg.i \in 0 .. method.max_locals - 1 /\ ins.arg.b \in Int
      /\ rule.loc[ins.arg.i + 1] = "I"
      /\ Flows(method, frame.pc + 3, rule.stk, rule.loc)
  BY <1>1, <1>2, NoDrop DEF LocalRule, Pops, rule
<1> DEFINE old == frame.locals[ins.arg.i]
           local == add_int_value(old, ins.arg.b)
<1>4. old \in Entry /\ old.type \in {"INT", "LONG"}
  BY <1>1, <1>3, Current DEF LocalsFit, LocalTags
<1>5. local \in Entry /\ InRange(local) /\ local.type \in LocalTags("I")
  BY <1>3, <1>4, AddsInt DEF LocalTags
<1>6. Store(ins.arg.i, local, opst, 3) /\ Stacked(opst, rule.stk)
  BY <1>1, Current DEF iinc
<1> HIDE DEF local
<1> QED BY <1>1, <1>3, <1>5, <1>6, StoreStep

-----------------------------------------------------------------------------
\* The arithmetic operators give integers.
LEMMA ArithmeticInt ==
  ASSUME NEW a \in Int, NEW b \in Int, NEW op \in IntOps \cup LongOps, op \in {"idiv", "irem", "ldiv"} => b # 0
  PROVE  Arithmetic(op, a, b) \in Int
<1>1. b # 0 => Quotient(a, b) \in Int
  <2>1. Magnitude(a) \in Nat /\ (b # 0 => Magnitude(b) \in Nat \ {0})
    BY DEF Magnitude
  <2>2. b # 0 => Magnitude(a) \div Magnitude(b) \in Int
    BY <2>1
  <2> QED BY <2>2 DEF Quotient
<1>2. b # 0 => Remainder(a, b) \in Int
  BY <1>1 DEF Remainder
<1> QED BY <1>1, <1>2 DEF Arithmetic, IntOps, LongOps

\* Conversions, arithmetic and lcmp keep the invariant.
LEMMA OperatorsSafe ==
  ASSUME SafeInv, ClassInv', operators
  PROVE  SafeInv'
<1>1. status = "run"
  BY DEF operators, i2l, i2c, ineg, int_arithmetic, long_arithmetic, lcmp, Fetch
<1>2. OperatorRule(method, frame.pc, ins.op)
  BY <1>1, Rules
<1>3. drop(rule.stk, 1) \in Seq(VTypes) /\ drop(rule.stk, 2) \in Seq(VTypes)
  BY <1>1, Current DEF drop
<1>4. CASE i2l
  <2>1. Top(rule.stk, "I") /\ Pushes(method, frame.pc, 1, 1, "J")
    BY <1>2, <1>4 DEF i2l, Fetch, OperatorRule, rule
  <2>2. Stacked(push_long(drop(opst, 1), int32(top(opst))), Append(drop(rule.stk, 1), "J"))
    BY <1>1, <1>3, <2>1, TopRead, PushFits
  <2> QED BY <1>1, <1>4, <2>1, <2>2, PushStep DEF i2l
<1>5. CASE i2c
  <2>1. Top(rule.stk, "I") /\ Pushes(method, frame.pc, 1, 1, "I")
    BY <1>2, <1>5 DEF i2c, Fetch, OperatorRule, rule
  <2>2. Stacked(push_byte(drop(opst, 1), int32(top(opst))), Append(drop(rule.stk, 1), "I"))
    BY <1>1, <1>3, <2>1, TopRead, PushFits
  <2> QED BY <1>1, <1>5, <2>1, <2>2, PushStep DEF i2c
<1>6. CASE ineg
  <2>1. Top(rule.stk, "I") /\ Pushes(method, frame.pc, 1, 1, "I")
    BY <1>2, <1>6 DEF ineg, Fetch, OperatorRule, rule
  <2>2. Stacked(push_int(drop(opst, 1), -int32(top(opst))), Append(drop(rule.stk, 1), "I"))
    BY <1>1, <1>3, <2>1, TopRead, PushFits
  <2> QED BY <1>1, <1>6, <2>1, <2>2, PushStep DEF ineg
<1>7. CASE int_arithmetic
  <2> DEFINE op1 == int32(top(opst))
             op2 == int32(peek(opst, 1))
  <2>1. /\ Top2(rule.stk, "I", "I") /\ Pushes(method, frame.pc, 1, 2, "I") /\ ins.op \in IntOps
    BY <1>2, <1>7 DEF int_arithmetic, Fetch, OperatorRule, rule
  <2>2. Stacked(drop(opst, 2), drop(rule.stk, 2)) /\ op1 \in Int /\ op2 \in Int
    BY <1>1, <2>1, Top2Read, TopRead
  <2>3. CASE Traps(ins.op, op2, op1, IntHalf)
    BY <1>7, <2>3, CrashSafe DEF int_arithmetic, Terminal
  <2>4. CASE ~Traps(ins.op, op2, op1, IntHalf)
    <3>1. Advance(push_int(drop(opst, 2), Arithmetic(ins.op, op2, op1)), 1)
      BY <1>7, <2>4 DEF int_arithmetic
    <3>2. Arithmetic(ins.op, op2, op1) \in Int
      BY <2>1, <2>2, <2>4, ArithmeticInt DEF Traps
    <3>3. Stacked(push_int(drop(opst, 2), Arithmetic(ins.op, op2, op1)), Append(drop(rule.stk, 2), "I"))
      BY <1>3, <2>2, <3>2, PushFits
    <3> QED BY <1>1, <2>1, <3>1, <3>3, PushStep
  <2> QED BY <2>3, <2>4
<1>8. CASE long_arithmetic
  <2> DEFINE op1 == stack_to_int(top(opst))
             op2 == stack_to_int(peek(opst, 1))
  <2>1. /\ Top2(rule.stk, "J", "J") /\ Pushes(method, frame.pc, 1, 2, "J") /\ ins.op \in LongOps
    BY <1>2, <1>8 DEF long_arithmetic, Fetch, OperatorRule, rule
  <2>2. Stacked(drop(opst, 2), drop(rule.stk, 2)) /\ op1 \in Int /\ op2 \in Int
    BY <1>1, <2>1, Top2Read, TopRead
  <2>3. CASE Traps(ins.op, op2, op1, LongHalf)
    BY <1>8, <2>3, CrashSafe DEF long_arithmetic, Terminal
  <2>4. CASE ~Traps(ins.op, op2, op1, LongHalf)
    <3>1. Advance(push_long(drop(opst, 2), Arithmetic(ins.op, op2, op1)), 1)
      BY <1>8, <2>4 DEF long_arithmetic
    <3>2. Arithmetic(ins.op, op2, op1) \in Int
      BY <2>1, <2>2, <2>4, ArithmeticInt DEF Traps
    <3>3. Stacked(push_long(drop(opst, 2), Arithmetic(ins.op, op2, op1)), Append(drop(rule.stk, 2), "J"))
      BY <1>3, <2>2, <3>2, PushFits
    <3> QED BY <1>1, <2>1, <3>1, <3>3, PushStep
  <2> QED BY <2>3, <2>4
<1>9. CASE lcmp
  <2>1. Top2(rule.stk, "J", "J") /\ Pushes(method, frame.pc, 1, 2, "I")
    BY <1>2, <1>9 DEF lcmp, Fetch, OperatorRule, rule
  <2>2. Stacked(drop(opst, 2), drop(rule.stk, 2))
    BY <1>1, <2>1, Top2Read
  <2>3. PICK v \in {-1, 0, 1} : Advance(push_int(drop(opst, 2), v), 1)
    BY <1>9 DEF lcmp
  <2>4. Stacked(push_int(drop(opst, 2), v), Append(drop(rule.stk, 2), "I"))
    BY <1>3, <2>2, PushFits
  <2> QED BY <1>1, <2>1, <2>3, <2>4, PushStep
<1> QED BY <1>4, <1>5, <1>6, <1>7, <1>8, <1>9 DEF operators

-----------------------------------------------------------------------------
\* A branch, taken or not, leads to an instruction that finds its operands.
LEMMA BranchSafe ==
  ASSUME SafeInv, ClassInv', status = "run", NEW n \in 0 .. Len(rule.stk), NEW taken, NEW to,
         Branch(drop(opst, n), taken, to),
         Pops(method, frame.pc, frame.pc + 3, n), Pops(method, frame.pc, frame.pc + to, n)
  PROVE  SafeInv'
<1>1. PICK len \in {3, to} : Advance(drop(opst, n), len)
  BY DEF Branch
<1> QED BY <1>1, PopStep

\* The branches and tableswitch keep the invariant.
LEMMA BranchesSafe ==
  ASSUME SafeInv, ClassInv', branches
  PROVE  SafeInv'
<1>1. status = "run"
  BY DEF branches, if_cond, if_icmp, ifnull, goto, tableswitch, Fetch
<1>2. BranchRule(method, frame.pc, ins.op, ins.arg)
  BY <1>1, Rules
<1>3. Len(rule.stk) \in Nat /\ drop(opst, 0) = opst
  BY <1>1, Current, NoDrop
<1>4. CASE if_cond
  <2>1. /\ Top(rule.stk, "I") /\ Pops(method, frame.pc, frame.pc + 3, 1)
        /\ Pops(method, frame.pc, frame.pc + ins.arg.to, 1)
    BY <1>2, <1>4 DEF if_cond, Fetch, BranchRule, rule
  <2>2. 1 \in 0 .. Len(rule.stk)
    BY <1>3, <2>1 DEF Top
  <2> QED BY <1>1, <1>4, <2>1, <2>2, BranchSafe DEF if_cond
<1>5. CASE if_icmp
  <2>1. /\ Top2(rule.stk, "I", "I") /\ Pops(method, frame.pc, frame.pc + 3, 2)
        /\ Pops(method, frame.pc, frame.pc + ins.arg.to, 2)
    BY <1>2, <1>5 DEF if_icmp, Fetch, BranchRule, rule
  <2>2. 2 \in 0 .. Len(rule.stk)
    BY <1>3, <2>1 DEF Top2
  <2> QED BY <1>1, <1>5, <2>1, <2>2, BranchSafe DEF if_icmp
<1>6. CASE ifnull
  <2>1. /\ Top(rule.stk, "A") /\ Pops(method, frame.pc, frame.pc + 3, 1)
        /\ Pops(method, frame.pc, frame.pc + ins.arg.to, 1)
    BY <1>2, <1>6 DEF ifnull, Fetch, BranchRule, rule
  <2>2. 1 \in 0 .. Len(rule.stk)
    BY <1>3, <2>1 DEF Top
  <2> QED BY <1>1, <1>6, <2>1, <2>2, BranchSafe DEF ifnull
<1>7. CASE goto
  <2>1. Pops(method, frame.pc, frame.pc + ins.arg.to, 0)
    BY <1>2, <1>7 DEF goto, Fetch, BranchRule
  <2>2. Advance(drop(opst, 0), ins.arg.to) /\ 0 \in 0 .. Len(rule.stk)
    BY <1>3, <1>7 DEF goto, Branch
  <2> QED BY <1>1, <2>1, <2>2, PopStep
<1>8. CASE tableswitch
  <2>1. /\ Top(rule.stk, "I") /\ frame.pc % 4 # 0
        /\ DOMAIN ins.arg.targets = ins.arg.low .. ins.arg.high
        /\ Pops(method, frame.pc, frame.pc + ins.arg.default, 1)
        /\ \A key \in DOMAIN ins.arg.targets : Pops(method, frame.pc, frame.pc + ins.arg.targets[key], 1)
    BY <1>2, <1>8 DEF tableswitch, Fetch, BranchRule, rule
  <2>2. 1 \in 0 .. Len(rule.stk)
    BY <1>3, <2>1 DEF Top
  <2>3. \/ \E key \in DOMAIN ins.arg.targets : Advance(drop(opst, 1), ins.arg.targets[key])
        \/ Crash("undefined")
        \/ Advance(drop(opst, 1), ins.arg.default)
    BY <1>8, <2>1 DEF tableswitch
  <2>4. ASSUME NEW len, Advance(drop(opst, 1), len), Pops(method, frame.pc, frame.pc + len, 1)
        PROVE  SafeInv'
    BY <1>1, <2>2, <2>4, PopStep
  <2> QED BY <2>1, <2>3, <2>4, CrashSafe DEF Terminal
<1> QED BY <1>4, <1>5, <1>6, <1>7, <1>8 DEF branches

-----------------------------------------------------------------------------
\* A handler that pops n operands and pushes a reference, and has changed the
\* heaps.
LEMMA ReferenceStep ==
  ASSUME SafeInv, ClassInv', status = "run", UNCHANGED <<class_heap, class_names>>, HeapsOK',
         NEW n \in Nat, n <= Len(rule.stk), NEW p \in Int, NEW len,
         Goto(push_ref(drop(opst, n), p), frame.pc + len), Pushes(method, frame.pc, len, n, "A")
  PROVE  SafeInv'
<1>1. Stacked(push_ref(drop(opst, n), p), Append(drop(rule.stk, n), "A"))
  BY OperandsRead, PushFits
<1> QED BY <1>1, GotoStep DEF Pushes, rule

\* A wild access ends the process, but not in an assertion.
LEMMA WildSafe ==
  ASSUME SafeInv, ClassInv', NEW p, WildAccess(p)
  PROVE  SafeInv'
BY CrashSafe DEF WildAccess, Terminal

\* A new array is a well-typed block.
LEMMA ArrayMade ==
  ASSUME NEW c \in DOMAIN prog.classes, NEW n \in Int, NEW junk \in Junk
  PROVE  BlockTypeOK(new_array(c, n, junk))
BY WorldAssumption DEF new_array, Block, BlockTypeOK

\* newarray keeps the invariant.
LEMMA NewarraySafe ==
  ASSUME SafeInv, ClassInv', newarray
  PROVE  SafeInv'
<1>1. status = "run" /\ ins.op = "newarray" /\ ArrayRule(method, frame.pc, ins.op, ins.arg)
  BY Rules DEF newarray, Fetch
<1>2. ins.arg = "T_INT" /\ Top(rule.stk, "I") /\ Pushes(method, frame.pc, 2, 1, "A")
  BY <1>1 DEF ArrayRule, rule
<1>3. int32(top(opst)) \in Int /\ 1 <= Len(rule.stk)
  BY <1>1, <1>2, TopRead
<1>4. CASE Crash("undefined")
  BY <1>4, CrashSafe DEF Terminal
<1>5. ASSUME NEW junk \in Junk, Allocate(<<new_array(frame.clazz, int32(top(opst)), junk)>>),
             Goto(push_ref(drop(opst, 1), Len(memory) + 1), frame.pc + 2),
             UNCHANGED <<class_heap, class_names, statics>>
      PROVE  SafeInv'
  <2>1. BlockTypeOK(new_array(frame.clazz, int32(top(opst)), junk))
    BY <1>1, <1>3, Current, ArrayMade
  <2>2. HeapsOK' /\ Len(memory) + 1 \in Int
    BY <1>5, <2>1, BlockMade DEF SafeInv, Allocate, Goto
  <2> QED BY <1>1, <1>2, <1>3, <1>5, <2>2, ReferenceStep
<1>6. CASE Goto(push_ref(drop(opst, 1), NULL), frame.pc + 2) /\ UNCHANGED <<class_heap, class_names, statics, memory>>
  <2>1. HeapsOK'
    BY <1>6 DEF SafeInv, HeapsOK, BlockTypeOK, TakesString, Methods, Class, Goto
  <2> QED BY <1>1, <1>2, <1>3, <1>6, <2>1, ReferenceStep DEF NULL
<1> QED BY <1>2, <1>4, <1>5, <1>6 DEF newarray

\* multianewarray keeps the invariant.
LEMMA MultianewarraySafe ==
  ASSUME SafeInv, ClassInv', multianewarray
  PROVE  SafeInv'
<1>1. status = "run" /\ ins.op = "multianewarray" /\ ArrayRule(method, frame.pc, ins.op, ins.arg)
  BY Rules DEF multianewarray, Fetch
<1>2. ins.arg = "[[I" /\ Top2(rule.stk, "I", "I") /\ Pushes(method, frame.pc, 4, 2, "A")
  BY <1>1 DEF ArrayRule, rule
<1> DEFINE x == int32(top(opst))
           y == int32(peek(opst, 1))
           height == IF y < 0 THEN 0 ELSE x
           row(i) == IF y < 0 THEN NULL ELSE Len(memory) + 1 + i
           table == Block("int[][]", frame.clazz, [i \in 0 .. x - 1 |-> row(i)])
           rows(junk) == [j \in 1 .. height |-> new_array(frame.clazz, y, junk)]
<1>3. x \in Int /\ y \in Int /\ 2 <= Len(rule.stk)
  BY <1>1, <1>2, Top2Read, TopRead
<1>4. Len(memory) \in Nat
  BY DEF SafeInv, HeapsOK, IsSequence
<1>5. CASE Crash("undefined")
  BY <1>5, CrashSafe DEF Terminal
<1>6. ASSUME x >= 0, NEW junk \in Junk, Allocate(rows(junk) \o <<table>>),
             Goto(push_ref(drop(opst, 2), Len(memory) + height + 1), frame.pc + 4),
             UNCHANGED <<class_heap, class_names, statics>>
      PROVE  SafeInv'
  <2> DEFINE made == {new_array(frame.clazz, y, junk), table}
  <2>1. BlockTypeOK(new_array(frame.clazz, y, junk))
    BY <1>1, <1>3, Current, ArrayMade
  <2>2. BlockTypeOK(table)
    <3>1. \A i \in 0 .. x - 1 : row(i) \in Int
      BY <1>3, <1>4 DEF NULL
    <3> QED BY <1>1, <3>1, Current DEF Block, BlockTypeOK
  <2>3. rows(junk) \in Seq(made) /\ <<table>> \in Seq(made)
    <3>1. height \in Nat
      BY <1>3, <1>6
    <3> HIDE DEF height, y, table
    <3> QED BY <3>1
  <2>4. rows(junk) \o <<table>> \in Seq(made)
    <3> HIDE DEF rows, made
    <3> QED BY <2>3
  <2>5. /\ IsSequence(rows(junk) \o <<table>>)
        /\ \A i \in 1 .. Len(rows(junk) \o <<table>>) : (rows(junk) \o <<table>>)[i] \in made
    BY <2>4, SequenceOfSet
  <2>6. HeapsOK'
    BY <1>6, <2>1, <2>2, <2>5, BlocksMade DEF SafeInv, Allocate, Goto
  <2>7. PICK p : p = Len(memory) + height + 1
    OBVIOUS
  <2>8. p \in Int
    BY <1>3, <1>4, <2>7
  <2>9. Goto(push_ref(drop(opst, 2), p), frame.pc + 4) /\ UNCHANGED <<class_heap, class_names>>
    BY <1>6, <2>7
  <2> QED BY <1>1, <1>2, <1>3, <2>6, <2>8, <2>9, ReferenceStep
<1>7. CASE Goto(push_ref(drop(opst, 2), NULL), frame.pc + 4) /\ UNCHANGED <<class_heap, class_names, statics, memory>>
  <2>1. HeapsOK'
    BY <1>7 DEF SafeInv, HeapsOK, BlockTypeOK, TakesString, Methods, Class, Goto
  <2> QED BY <1>1, <1>2, <1>3, <1>7, <2>1, ReferenceStep DEF NULL
<1> QED BY <1>2, <1>5, <1>6, <1>7 DEF multianewarray

\* iaload keeps the invariant.
LEMMA IaloadSafe ==
  ASSUME SafeInv, ClassInv', iaload
  PROVE  SafeInv'
<1>1. status = "run" /\ ins.op = "iaload" /\ ArrayRule(method, frame.pc, ins.op, ins.arg)
  BY Rules DEF iaload, Fetch
<1>2. Top2(rule.stk, "A", "I") /\ Pushes(method, frame.pc, 1, 2, "I")
  BY <1>1 DEF ArrayRule, rule
<1> DEFINE index == int32(top(opst))
           arr == peek(opst, 1).value
<1>3. CASE Element(arr, "int[]", index) /\ Advance(push_int(drop(opst, 2), memory[arr].cells[index]), 1)
  <2>1. memory[arr].cells[index] \in Int
    BY <1>3 DEF Element, Points, SafeInv, HeapsOK, BlockTypeOK
  <2>2. Stacked(push_int(drop(opst, 2), memory[arr].cells[index]), Append(drop(rule.stk, 2), "I"))
    BY <1>1, <1>2, <2>1, Top2Read, OperandsRead, PushFits
  <2> QED BY <1>1, <1>2, <1>3, <2>2, PushStep
<1>4. CASE WildAccess(arr)
  BY <1>4, WildSafe
<1> QED BY <1>3, <1>4 DEF iaload

\* aaload keeps the invariant.
LEMMA AaloadSafe ==
  ASSUME SafeInv, ClassInv', aaload
  PROVE  SafeInv'
<1>1. status = "run" /\ ins.op = "aaload" /\ ArrayRule(method, frame.pc, ins.op, ins.arg)
  BY Rules DEF aaload, Fetch
<1>2. Top2(rule.stk, "A", "I") /\ Pushes(method, frame.pc, 1, 2, "A")
  BY <1>1 DEF ArrayRule, rule
<1> DEFINE index == int32(top(opst))
           arr == peek(opst, 1).value
<1>3. CASE Element(arr, "int[][]", index) /\ Advance(push_ref(drop(opst, 2), memory[arr].cells[index]), 1)
  <2>1. memory[arr].cells[index] \in Int
    BY <1>3 DEF Element, Points, SafeInv, HeapsOK, BlockTypeOK
  <2>2. Stacked(push_ref(drop(opst, 2), memory[arr].cells[index]), Append(drop(rule.stk, 2), "A"))
    BY <1>1, <1>2, <2>1, Top2Read, OperandsRead, PushFits
  <2> QED BY <1>1, <1>2, <1>3, <2>2, PushStep
<1>4. CASE WildAccess(arr)
  BY <1>4, WildSafe
<1> QED BY <1>3, <1>4 DEF aaload

\* A cell of a block is assigned.
LEMMA CellAssigned ==
  ASSUME HeapsOK, NEW p \in 1 .. Len(memory), NEW i, NEW v,
         memory' = [memory EXCEPT ![p].cells[i] = v],
         memory[p].kind = "int[]" => v \in Int, memory[p].kind = "int[][]" => v \in Int,
         memory[p].kind = "object" => /\ v \in Variable
                                      /\ v.type = "STR_PTR" => TakesString(i),
         UNCHANGED <<prog, class_heap, class_names, statics>>
  PROVE  HeapsOK'
<1> DEFINE block == memory[p]
           cells == [block.cells EXCEPT ![i] = v]
           assigned == [block EXCEPT !.cells = cells]
<1>1. memory' = [memory EXCEPT ![p] = assigned]
  OBVIOUS
<1>2. BlockTypeOK(block)
  BY DEF HeapsOK
<1>3. /\ assigned \in [kind : {"object", "string", "int[]", "int[][]"},
                       clazz : DOMAIN prog.classes, cells : {cells}]
      /\ assigned.kind = block.kind /\ assigned.cells = cells
  <2> HIDE DEF cells
  <2> QED BY <1>2 DEF BlockTypeOK
<1>4. /\ block.kind = "object" =>
           /\ cells \in [DOMAIN cells -> Variable]
           /\ \A f \in DOMAIN cells : cells[f].type = "STR_PTR" => TakesString(f)
      /\ block.kind \in {"int[]", "int[][]"} => cells \in [DOMAIN cells -> Int]
  <2>1. ASSUME block.kind = "object"
        PROVE  /\ cells \in [DOMAIN cells -> Variable]
               /\ \A f \in DOMAIN cells : cells[f].type = "STR_PTR" => TakesString(f)
    <3>1. /\ block.cells \in [DOMAIN block.cells -> Variable] /\ DOMAIN cells = DOMAIN block.cells
          /\ \A f \in DOMAIN block.cells : block.cells[f].type = "STR_PTR" => TakesString(f)
      BY <1>2, <2>1 DEF BlockTypeOK
    <3>2. \A f \in DOMAIN cells : cells[f] = IF f = i THEN v ELSE block.cells[f]
      OBVIOUS
    <3> HIDE DEF cells
    <3>3. \A f \in DOMAIN cells : cells[f] \in Variable /\ (cells[f].type = "STR_PTR" => TakesString(f))
      <4> TAKE f \in DOMAIN cells
      <4>1. CASE f = i
        BY <2>1, <3>2, <4>1
      <4>2. CASE f # i
        <5>1. cells[f] = block.cells[f] /\ f \in DOMAIN block.cells
          BY <3>1, <3>2, <4>2
        <5> HIDE DEF block
        <5>2. block.cells[f] \in Variable
          BY <3>1, <5>1
        <5> QED BY <3>1, <5>1, <5>2
      <4> QED BY <4>1, <4>2
    <3>4. cells \in [DOMAIN cells -> Variable]
      <4>1. cells = [f \in DOMAIN cells |-> cells[f]]
        BY DEF cells
      <4> QED BY <3>3, <4>1
    <3> QED BY <3>3, <3>4
  <2>2. block.kind \in {"int[]", "int[][]"} => cells \in [DOMAIN cells -> Int]
    BY <1>2 DEF BlockTypeOK
  <2> QED BY <2>1, <2>2
<1>5. BlockTypeOK(assigned)
  <2> HIDE DEF assigned, cells
  <2> QED BY <1>3, <1>4 DEF BlockTypeOK
<1>6. /\ IsSequence(memory') /\ Len(memory') = Len(memory)
      /\ \A q \in 1 .. Len(memory) : memory'[q] = IF q = p THEN assigned ELSE memory[q]
  <2> DEFINE T == Elements(memory) \cup {assigned}
  <2>1. memory \in Seq(T) /\ assigned \in T
    BY DEF HeapsOK, IsSequence
  <2> HIDE DEF T, assigned
  <2>2. memory' \in Seq(T) /\ Len(memory') = Len(memory)
    BY <1>1, <2>1
  <2>3. IsSequence(memory')
    BY <2>2, SequenceOfSet
  <2>4. \A q \in 1 .. Len(memory) : memory'[q] = IF q = p THEN assigned ELSE memory[q]
    BY <1>1, <2>1
  <2> QED BY <2>2, <2>3, <2>4
<1>7. \A q \in 1 .. Len(memory') : BlockTypeOK(memory[q])'
  <2> HIDE DEF assigned
  <2> TAKE q \in 1 .. Len(memory')
  <2>1. BlockTypeOK(memory'[q])
    BY <1>5, <1>6 DEF HeapsOK
  <2> QED BY <2>1 DEF BlockTypeOK, TakesString, Methods
<1> QED BY <1>6, <1>7 DEF HeapsOK, Class

\* iastore keeps the invariant.
LEMMA IastoreSafe ==
  ASSUME SafeInv, ClassInv', iastore
  PROVE  SafeInv'
<1>1. status = "run" /\ ins.op = "iastore" /\ ArrayRule(method, frame.pc, ins.op, ins.arg)
  BY Rules DEF iastore, Fetch
<1>2. Top3(rule.stk, "A", "I", "I") /\ Pops(method, frame.pc, frame.pc + 1, 3)
  BY <1>1 DEF ArrayRule, rule
<1> DEFINE value == int32(top(opst))
           index == int32(peek(opst, 1))
           arr == peek(opst, 2).value
<1>3. CASE /\ Element(arr, "int[]", index)
           /\ memory' = [memory EXCEPT ![arr].cells[index] = value]
           /\ Goto(drop(opst, 3), frame.pc + 1)
           /\ UNCHANGED <<class_heap, class_names, statics, object_heap>>
  <2>1. Stacked(drop(opst, 3), drop(rule.stk, 3)) /\ value \in Int
    <3>1. 3 <= Len(rule.stk) /\ Len(rule.stk) \in Nat /\ 3 \in Nat /\ 0 \in 0 .. 3 - 1
      BY <1>1, <1>2, Current DEF Top3
    <3> QED BY <1>1, <3>1, OperandsRead DEF top
  <2>2. arr \in 1 .. Len(memory) /\ memory[arr].kind = "int[]" /\ prog' = prog
    BY <1>3 DEF Element, Points, Goto
  <2>3. HeapsOK'
    <3> HIDE DEF arr, index, value
    <3> QED BY <1>3, <2>1, <2>2, CellAssigned DEF SafeInv
  <2> QED BY <1>1, <1>2, <1>3, <2>1, <2>3, GotoStep DEF Pops, rule
<1>4. CASE WildAccess(arr)
  BY <1>4, WildSafe
<1> QED BY <1>3, <1>4 DEF iastore

-----------------------------------------------------------------------------
\* Static fields: the class named has the field, so that no other is looked at.
LEMMA StaticField ==
  ASSUME SafeInv, status = "run", Resolved({"getstatic", "putstatic"})
  PROVE  /\ Holder(ins.arg) = ins.arg.clazz /\ Loaded(ins.arg.clazz)
         /\ ins.arg.clazz \in DOMAIN statics
         /\ statics[ins.arg.clazz] \in [DOMAIN Class(ins.arg.clazz).fields -> Int]
         /\ ins.arg.name \in DOMAIN Class(ins.arg.clazz).fields
         /\ FieldRule(method, frame.pc, ins.op, ins.arg, prog.classes)
<1>1. FieldRule(method, frame.pc, ins.op, ins.arg, prog.classes) /\ ins.op \in {"getstatic", "putstatic"}
  BY Rules DEF Resolved, Fetch
<1>2. /\ ins.arg.name \in DOMAIN Class(ins.arg.clazz).fields
      /\ Class(ins.arg.clazz).fields[ins.arg.name] = ins.arg.desc
  BY <1>1 DEF FieldRule, Class
<1>3. Loaded(ins.arg.clazz)
  BY LoadedIsFound DEF Resolved, TargetFound, SafeInv, ClassInv, HeapInv, NamesInv
<1>4. /\ ins.arg.clazz \in DOMAIN statics
      /\ statics[ins.arg.clazz] \in [DOMAIN Class(ins.arg.clazz).fields -> Int]
  BY <1>3 DEF Loaded, SafeInv, HeapsOK, ClassInv, HeapInv, IsSequence
<1>5. Holder(ins.arg) = ins.arg.clazz
  BY <1>2 DEF Holder, find_field
<1> QED BY <1>1, <1>2, <1>3, <1>4, <1>5

\* getstatic keeps the invariant.
LEMMA GetstaticSafe ==
  ASSUME SafeInv, ClassInv', getstatic
  PROVE  SafeInv'
<1>1. status = "run" /\ ins.op = "getstatic" /\ Resolved({"getstatic", "putstatic"})
  BY DEF getstatic, FieldAccess, Resolved, Fetch
<1>2. FieldRule(method, frame.pc, ins.op, ins.arg, prog.classes)
  BY <1>1, StaticField
<1>3. /\ ins.arg.desc \in {"B", "C", "S", "I", "L", "String", "["}
      /\ Pushes(method, frame.pc, 3, 0, TypeOf(ins.arg.desc))
  BY <1>1, <1>2 DEF FieldRule
<1> DEFINE v == statics[Holder(ins.arg)][ins.arg.name]
           pushed == CASE ins.arg.desc \in {"B", "C"} -> push_byte(opst, v)
                       [] ins.arg.desc = "S" -> push_short(opst, v)
                       [] ins.arg.desc = "I" -> push_int(opst, v)
                       [] ins.arg.desc \in {"L", "String", "["} -> push_ref(opst, v)
                       [] ins.arg.desc \in {"D", "F", "J", "Z"} -> opst
<1>4. v \in Int
  BY <1>1, StaticField
<1>5. /\ Stacked(push_byte(opst, v), Append(rule.stk, "I"))
      /\ Stacked(push_short(opst, v), Append(rule.stk, "I"))
      /\ Stacked(push_int(opst, v), Append(rule.stk, "I"))
      /\ Stacked(push_ref(opst, v), Append(rule.stk, "A"))
  BY <1>1, <1>4, Current, PushFits
<1>6. Stacked(pushed, Append(rule.stk, TypeOf(ins.arg.desc)))
  <2> HIDE DEF v
  <2>1. CASE ins.arg.desc \in {"B", "C"}
    BY <1>5, <2>1 DEF TypeOf
  <2>2. CASE ins.arg.desc = "S"
    BY <1>5, <2>2 DEF TypeOf
  <2>3. CASE ins.arg.desc = "I"
    BY <1>5, <2>3 DEF TypeOf
  <2>4. CASE ins.arg.desc \in {"L", "String", "["}
    BY <1>5, <2>4 DEF TypeOf
  <2> QED BY <1>3, <2>1, <2>2, <2>3, <2>4
<1>7. Advance(pushed, 3)
  BY DEF getstatic
<1> HIDE DEF pushed
<1> QED BY <1>1, <1>3, <1>6, <1>7, NoDrop, PushStep

\* putstatic keeps the invariant.
LEMMA PutstaticSafe ==
  ASSUME SafeInv, ClassInv', putstatic
  PROVE  SafeInv'
<1>1. status = "run" /\ ins.op = "putstatic" /\ Resolved({"getstatic", "putstatic"})
  BY DEF putstatic, FieldAccess, Resolved, Fetch
<1>2. FieldRule(method, frame.pc, ins.op, ins.arg, prog.classes)
  BY <1>1, StaticField
<1>3. /\ ins.arg.desc \in {"B", "C", "S", "I", "Z", "L", "String", "["}
      /\ Top(rule.stk, TypeOf(ins.arg.desc)) /\ Pops(method, frame.pc, frame.pc + 3, 1)
  BY <1>1, <1>2 DEF FieldRule, rule
<1> DEFINE v == IF ins.arg.desc \in {"L", "String", "["}
                THEN top(opst).value
                ELSE Signed(stack_to_int(top(opst)), FieldHalf(ins.arg.desc))
<1>4. v \in Int
  <2>1. stack_to_int(top(opst)) \in Int /\ top(opst).value \in Int
    BY <1>1, <1>3, TopRead
  <2>2. ins.arg.desc \in {"B", "C", "S", "I", "Z"} =>
          FieldHalf(ins.arg.desc) \in {ByteHalf, ShortHalf, IntHalf, LongHalf}
    BY DEF FieldHalf
  <2> QED BY <1>3, <2>1, <2>2, MadeEntries
<1>5. /\ statics' = [statics EXCEPT ![ins.arg.clazz][ins.arg.name] = v]
      /\ Goto(drop(opst, 1), frame.pc + 3)
      /\ UNCHANGED <<class_heap, class_names, memory, object_heap>>
  BY <1>1, <1>3, StaticField DEF putstatic
<1>6. HeapsOK'
  <2> DEFINE c == ins.arg.clazz
             fields_ == [statics[c] EXCEPT ![ins.arg.name] = v]
  <2>1. statics' = [statics EXCEPT ![c] = fields_] /\ prog' = prog
    BY <1>5 DEF Goto
  <2>2. fields_ \in [DOMAIN Class(c).fields -> Int]
    <3> HIDE DEF v
    <3> QED BY <1>1, <1>4, StaticField
  <2> HIDE DEF fields_, c
  <2>3. ASSUME NEW i \in 1 .. Len(class_heap)
        PROVE  /\ class_heap[i] \in DOMAIN statics'
               /\ statics'[class_heap[i]] \in [DOMAIN Class(class_heap[i]).fields -> Int]
    <3>1. /\ class_heap[i] \in DOMAIN statics
          /\ statics[class_heap[i]] \in [DOMAIN Class(class_heap[i]).fields -> Int]
      BY DEF SafeInv, HeapsOK
    <3>2. CASE class_heap[i] = c
      BY <2>1, <2>2, <3>1, <3>2
    <3>3. CASE class_heap[i] # c
      BY <2>1, <3>1, <3>3
    <3> QED BY <3>2, <3>3
  <2> QED BY <1>5, <2>1, <2>3 DEF SafeInv, HeapsOK, BlockTypeOK, TakesString, Methods, Class
<1>7. Stacked(drop(opst, 1), drop(rule.stk, 1))
  BY <1>1, <1>3, TopRead
<1> QED BY <1>1, <1>3, <1>5, <1>6, <1>7, GotoStep DEF Pops, rule

\* The member a getfield reads, which a putfield has stored.
LEMMA MemberRead ==
  ASSUME SafeInv, NEW p, Points(p, "object"), NEW f \in DOMAIN memory[p].cells
  PROVE  memory[p].cells[f].value \in Int
<1>1. memory[p].cells[f] \in Variable
  BY DEF Points, SafeInv, HeapsOK, BlockTypeOK
<1> QED BY <1>1 DEF Variable

\* getfield keeps the invariant.
LEMMA GetfieldSafe ==
  ASSUME SafeInv, ClassInv', getfield
  PROVE  SafeInv'
<1>1. /\ status = "run" /\ ins.op = "getfield" /\ Points(Receiver, "object")
      /\ ins.arg.name \in DOMAIN memory[Receiver].cells
      /\ FieldRule(method, frame.pc, ins.op, ins.arg, prog.classes)
  BY Rules DEF getfield, Addressed, Fetch
<1>2. /\ ins.arg.desc \in {"I", "J", "L", "String"}
      /\ Top(rule.stk, "A") /\ Pushes(method, frame.pc, 3, 1, TypeOf(ins.arg.desc))
  BY <1>1 DEF FieldRule, rule
<1> DEFINE v == memory[Receiver].cells[ins.arg.name].value
           rest == drop(opst, 1)
           pushed == CASE ins.arg.desc = "I" -> push_int(rest, v)
                       [] ins.arg.desc = "J" -> push_long(rest, v)
                       [] OTHER              -> push_ref(rest, v)
<1>3. v \in Int
  BY <1>1, MemberRead
<1>4. /\ Stacked(push_int(rest, v), Append(drop(rule.stk, 1), "I"))
      /\ Stacked(push_long(rest, v), Append(drop(rule.stk, 1), "J"))
      /\ Stacked(push_ref(rest, v), Append(drop(rule.stk, 1), "A"))
  <2>1. Stacked(rest, drop(rule.stk, 1)) /\ drop(rule.stk, 1) \in Seq(VTypes)
    BY <1>1, <1>2, TopRead, OperandsRead
  <2> HIDE DEF v, rest
  <2> QED BY <1>3, <2>1, PushFits
<1>5. Stacked(pushed, Append(drop(rule.stk, 1), TypeOf(ins.arg.desc)))
  <2> HIDE DEF v, rest
  <2> QED BY <1>2, <1>4 DEF TypeOf
<1>6. Advance(pushed, 3)
  BY DEF getfield
<1> HIDE DEF pushed
<1> QED BY <1>1, <1>2, <1>5, <1>6, PushStep

\* putfield keeps the invariant.
LEMMA PutfieldSafe ==
  ASSUME SafeInv, ClassInv', putfield
  PROVE  SafeInv'
<1>1. /\ status = "run" /\ ins.op = "putfield" /\ Points(Receiver, "object")
      /\ FieldRule(method, frame.pc, ins.op, ins.arg, prog.classes)
  BY Rules DEF putfield, Addressed, Fetch
<1>2. /\ ins.arg.desc \in {"I", "J", "L", "String"}
      /\ Top2(rule.stk, "A", TypeOf(ins.arg.desc)) /\ Pops(method, frame.pc, frame.pc + 3, 2)
  BY <1>1 DEF FieldRule, rule
<1>3. /\ Stacked(drop(opst, 2), drop(rule.stk, 2))
      /\ top(opst).value \in Int /\ stack_to_int(top(opst)) \in Int
  BY <1>1, <1>2, Top2Read, TopRead
<1>4. Stored(ins.arg.desc, top(opst)) \in Variable
  <2>1. Signed(stack_to_int(top(opst)), IntHalf) \in Int /\ Signed(0, IntHalf) \in Int
    <3>1. \A w \in Int : Signed(w, IntHalf) \in Int
      BY MadeEntries
    <3> QED BY <1>3, <3>1
  <2> QED BY <1>2, <1>3, <2>1 DEF Stored, Variable, NULL
<1>5. /\ memory' = [memory EXCEPT ![Receiver].cells[ins.arg.name] = Stored(ins.arg.desc, top(opst))]
      /\ Goto(drop(opst, 2), frame.pc + 3)
      /\ UNCHANGED <<class_heap, class_names, statics, object_heap>>
  BY DEF putfield
<1>6. HeapsOK'
  <2>1. Stored(ins.arg.desc, top(opst)).type = "STR_PTR" => TakesString(ins.arg.name)
    <3>1. ASSUME ins.arg.desc = "String"
          PROVE  TakesString(ins.arg.name)
      <4>1. method \in Methods(prog) /\ frame.pc \in DOMAIN method.code /\ ins = method.code[frame.pc]
        <5>1. FrameTypeOK(frame) /\ frame.pc \in DOMAIN method.code /\ ins = method.code[frame.pc]
          BY <1>1, Current DEF ActivationsOK, rule
        <5>2. /\ frame.clazz \in DOMAIN prog.classes
              /\ frame.meth \in DOMAIN prog.classes[frame.clazz].methods
              /\ method = prog.classes[frame.clazz].methods[frame.meth]
          BY <5>1 DEF FrameTypeOK, method, Method, Class
        <5> HIDE DEF method
        <5>3. method \in {prog.classes[frame.clazz].methods[m] : m \in DOMAIN prog.classes[frame.clazz].methods}
          BY <5>2
        <5>4. method \in Methods(prog)
          BY <5>2, <5>3 DEF Methods
        <5> QED BY <5>1, <5>4
      <4> QED BY <1>1, <3>1, <4>1 DEF TakesString
    <3>2. CASE ins.arg.desc = "String"
      BY <3>1, <3>2
    <3>3. CASE ins.arg.desc \in {"I", "J", "L"}
      BY <3>3 DEF Stored
    <3> QED BY <1>2, <3>2, <3>3
  <2> QED BY <1>1, <1>4, <1>5, <2>1, CellAssigned DEF SafeInv, Points, Goto
<1> QED BY <1>1, <1>2, <1>3, <1>5, <1>6, GotoStep DEF Pops, rule

\* Field accesses, failing lookups included, keep the invariant.
LEMMA FieldsSafe ==
  ASSUME SafeInv, ClassInv', fields
  PROVE  SafeInv'
<1>1. CASE static_lookup_fails
  BY <1>1, CrashSafe, StutterSafe DEF static_lookup_fails, Terminal
<1>2. CASE field_lookup_fails
  <2>1. FieldRule(method, frame.pc, ins.op, ins.arg, prog.classes) /\ ins.op \in {"getfield", "putfield"}
    BY <1>2, Rules DEF field_lookup_fails, Fetch
  <2>2. ins.arg.desc \in {"I", "J", "L", "String"}
    BY <2>1 DEF FieldRule
  <2> QED BY <1>2, <2>2, CrashSafe, StutterSafe, WildSafe DEF field_lookup_fails, Terminal
<1> QED BY <1>1, <1>2, GetstaticSafe, PutstaticSafe, GetfieldSafe, PutfieldSafe DEF fields

\* new keeps the invariant.
LEMMA NewSafe ==
  ASSUME SafeInv, ClassInv', new
  PROVE  SafeInv'
<1>1. /\ status = "run" /\ ins.op = "new"
      /\ FieldRule(method, frame.pc, ins.op, ins.arg, prog.classes)
  BY Rules DEF new, Resolved, Fetch
<1>2. ins.arg.clazz \in DOMAIN prog.classes /\ Pushes(method, frame.pc, 3, 0, "A")
  BY <1>1 DEF FieldRule
<1>3. CASE Crash("undefined")
  BY <1>3, CrashSafe DEF Terminal
<1>4. CASE /\ Allocate(<<new_object(ins.arg.clazz)>>)
           /\ Goto(push_ref(opst, Len(memory) + 1), frame.pc + 3)
           /\ UNCHANGED <<class_heap, class_names, statics>>
  <2>1. BlockTypeOK(new_object(ins.arg.clazz))
    BY <1>2 DEF new_object, Block, BlockTypeOK, Variable
  <2>2. HeapsOK' /\ Len(memory) + 1 \in Int
    BY <1>4, <2>1, BlockMade DEF SafeInv, Allocate, Goto
  <2>3. drop(opst, 0) = opst /\ 0 <= Len(rule.stk)
    BY <1>1, Current, NoDrop
  <2> QED BY <1>1, <1>2, <1>4, <2>2, <2>3, ReferenceStep
<1> QED BY <1>3, <1>4 DEF new

-----------------------------------------------------------------------------
\* A new activation of c.name is well typed when its locals are.
EntryOK(c, name, locals) ==
    /\ c \in DOMAIN prog.classes /\ name \in DOMAIN Class(c).methods /\ ~Method(c, name).native
    /\ locals \in [0 .. Method(c, name).max_locals - 1 -> Entry]
    /\ \A i \in DOMAIN locals : InRange(locals[i])
    /\ LocalsFit(locals, Method(c, name).code[0].loc)

\* A new activation has an empty stack and pc 0, and finds its locals.
LEMMA EntrySafe ==
  ASSUME SafeInv, NEW c, NEW name, NEW locals, EntryOK(c, name, locals), prog' = prog,
         NEW via \in {"main", "clinit", "invokestatic", "invokespecial", "invokevirtual"},
         frame' = Activation(c, name, locals, via)
  PROVE  FrameTypeOK(frame)' /\ Running(frame)'
<1>1. MethodVerified(Method(c, name), prog.classes)
  BY MethodsVerified DEF EntryOK
<1>2. 0 \in DOMAIN Method(c, name).code /\ Method(c, name).code[0].stk = <<>>
  BY <1>1 DEF MethodVerified
<1>3. Method(c, name)' = Method(c, name) /\ Class(c)' = Class(c)
  BY DEF Method, Class
<1>4. /\ frame'.clazz = c /\ frame'.meth = name /\ frame'.pc = 0 /\ frame'.op_stack = <<>>
      /\ frame'.locals = locals /\ frame'.via = via
  BY DEF Activation
<1>5. FrameTypeOK(frame)'
  <2>1. <<>> \in Seq(Entry) /\ Len(<<>>) = 0
    OBVIOUS
  <2>2. Method(frame.clazz, frame.meth)' = Method(c, name) /\ Class(frame.clazz)' = Class(c)
    BY <1>4 DEF Method, Class
  <2> QED BY <1>2, <1>4, <2>1, <2>2 DEF FrameTypeOK, EntryOK
<1>6. Running(frame)'
  <2>1. StackFits(<<>>, <<>>)
    BY DEF StackFits
  <2>2. TypesAt(frame, frame.pc)' = Method(c, name).code[0]
    BY <1>3, <1>4 DEF TypesAt, Method, Class
  <2> QED BY <1>2, <1>4, <2>1, <2>2 DEF Running, EntryOK
<1> QED BY <1>5, <1>6

\* A nested execute(): the activation that stays behind has its new stack.
LEMMA CallStep ==
  ASSUME SafeInv, ClassInv', status = "run", HeapsOK',
         NEW c, NEW name, NEW locals, EntryOK(c, name, locals),
         NEW via \in {"clinit", "invokestatic", "invokespecial", "invokevirtual"},
         NEW stack \in Seq(Entry), \A i \in 1 .. Len(stack) : InRange(stack[i]),
         Call(c, name, locals, via, stack),
         Awaiting([frame EXCEPT !.op_stack = stack], Activation(c, name, locals, via))
  PROVE  SafeInv'
<1>1. PICK f, n : f = [frame EXCEPT !.op_stack = stack] /\ n = Len(callers)
  OBVIOUS
<1>2. /\ callers' = Append(callers, f) /\ frame' = Activation(c, name, locals, via)
      /\ UNCHANGED <<prog, status, stage, booted>>
  BY <1>1 DEF Call
<1>3. IsSequence(callers) /\ n \in Nat /\ AllActivations
  BY <1>1 DEF SafeInv, ClassInv, ActivationsInv, IsSequence, InMethods, Known, AllActivations
<1>4. Kept(n)
  BY <1>1, <1>3, Current, CallEnters, EnterKeeps
<1>5. /\ Len(callers') = n + 1 /\ callers'[n + 1] = f
      /\ \A i : i = n + 1 => Called(i)' = frame'
  <2>1. Len(callers') = n + 1 /\ callers'[n + 1] = f
    BY <1>1, <1>2, <1>3, AppendElements
  <2> QED BY <2>1 DEF Called
<1>6. \A c_, name_ : Method(c_, name_)' = Method(c_, name_)
  BY <1>2 DEF Method, Class
<1>7. FrameTypeOK(f)'
  <2>1. /\ f.clazz = frame.clazz /\ f.meth = frame.meth /\ f.pc = frame.pc /\ f.op_stack = stack
        /\ f.locals = frame.locals /\ f.via = frame.via
    BY <1>1, Current DEF IsActivation
  <2>2. FrameTypeOK(frame) /\ prog' = prog
    BY <1>2, Current DEF ActivationsOK
  <2> QED BY <2>1, <2>2 DEF FrameTypeOK, Method, Class
<1>8. Awaiting(f, Called(n + 1))'
  <2>1. Awaiting(f, frame') /\ Called(n + 1)' = frame'
    BY <1>1, <1>2, <1>5
  <2> QED BY <1>6, <2>1 DEF Awaiting, Running, TypesAt
<1>9. ASSUME NEW i \in 1 .. Len(callers')
      PROVE  SuspendedOK(i)'
  <2>1. CASE i \in 1 .. n
    BY <1>1, <1>2, <1>3, <1>4, <2>1, KeptOK, Current DEF ActivationsOK
  <2>2. CASE i = n + 1
    <3>1. callers'[i] = f
      BY <1>5, <2>2
    <3> QED BY <1>7, <1>8, <2>2, <3>1 DEF SuspendedOK
  <2> QED BY <1>3, <1>5, <2>1, <2>2
<1>10. FrameTypeOK(frame)' /\ Running(frame)'
  BY <1>2, EntrySafe
<1>11. BottomOK'
  BY <1>2, <1>3, <1>4, Current, KeptBottom DEF ActivationsOK
<1> QED BY <1>2, <1>9, <1>10, <1>11 DEF SafeInv, ActivationsOK

\* The uninitialised locals of a <clinit>.
LEMMA ClinitEntry ==
  ASSUME SafeInv, NEW c \in DOMAIN prog.classes, find_method(c, "<clinit>"), NEW u \in Uninitialised
  PROVE  EntryOK(c, "<clinit>", Fill(c, "<clinit>", u)) /\ Method(c, "<clinit>").ret = "V"
<1> DEFINE m == Method(c, "<clinit>")
<1>1. "<clinit>" \in DOMAIN Class(c).methods
  BY DEF find_method
<1>2. m.static /\ ~m.native /\ m.params = <<>> /\ m.ret = "V"
  BY <1>1, ProgramVerified DEF Verified, ClassVerified, Class, Method
<1>3. MethodVerified(m, prog.classes)
  BY <1>1, <1>2, MethodsVerified
<1>4. \A i \in 0 .. m.max_locals - 1 : m.code[0].loc[i + 1] = "-"
  <2>1. Slot(m, Len(m.params) + 1) = 0
    <3>1. Len(m.params) = 0
      BY <1>2
    <3> QED BY <1>2, <3>1 DEF Slot
  <2>2. EntryLocals(m) /\ m.max_locals \in Nat
    BY <1>3 DEF MethodVerified
  <2> QED BY <2>1, <2>2 DEF EntryLocals
<1>5. u \in Entry /\ InRange(u) /\ u.type \in LocalTags("-")
  BY WorldAssumption DEF Uninitialised, Entry, EntryTypes, InRange, IntegerTypes, LocalTags
<1>6. LocalsFit(Fill(c, "<clinit>", u), m.code[0].loc)
  BY <1>4, <1>5 DEF Fill, LocalsFit
<1> QED BY <1>1, <1>2, <1>5, <1>6 DEF EntryOK, Fill

-----------------------------------------------------------------------------
\* A class is loaded; its static fields hold anything.
LEMMA AddClassKeeps ==
  ASSUME HeapsOK, NEW c, add_class(c), prog' = prog, IsSequence(class_heap)
  PROVE  HeapsOK'
<1>1. /\ Len(class_heap) \in Nat /\ Len(class_heap') = Len(class_heap) + 1
      /\ \A i \in 1 .. Len(class_heap) : class_heap'[i] = class_heap[i]
      /\ class_heap'[Len(class_heap) + 1] = c
  BY AppendElements DEF add_class
<1>2. PICK junk \in Junk :
        statics' = [d \in DOMAIN statics \cup {c} |->
                      IF d = c THEN [f \in DOMAIN Class(c).fields |-> junk] ELSE statics[d]]
  BY DEF add_class
<1>3. junk \in Int /\ memory' = memory
  BY WorldAssumption DEF add_class
<1>4. ASSUME NEW i \in 1 .. Len(class_heap')
      PROVE  /\ class_heap'[i] \in DOMAIN statics'
             /\ statics'[class_heap'[i]] \in [DOMAIN Class(class_heap'[i]).fields -> Int]
  <2>1. CASE class_heap'[i] = c
    BY <1>2, <1>3, <2>1
  <2>2. CASE class_heap'[i] # c
    <3>1. i \in 1 .. Len(class_heap) /\ class_heap'[i] = class_heap[i]
      BY <1>1, <2>2
    <3> QED BY <1>2, <2>2, <3>1 DEF HeapsOK
  <2> QED BY <2>1, <2>2
<1> QED BY <1>3, <1>4 DEF HeapsOK, BlockTypeOK, TakesString, Methods, Class

\* Loading a class, with or without its <clinit>, keeps the invariant.
LEMMA LoadClassSafe ==
  ASSUME SafeInv, ClassInv', load_class
  PROVE  SafeInv'
<1> DEFINE c == ins.arg.clazz
<1>1. status = "run" /\ ins.op \in Resolving
  BY DEF load_class, Fetch
<1>2. c \in DOMAIN prog.classes
  <2>1. /\ FieldRule(method, frame.pc, ins.op, ins.arg, prog.classes)
        /\ InvokeRule(method, frame.pc, ins.op, ins.arg, prog.classes)
    BY <1>1, Rules
  <2>2. CASE ins.op \in {"getstatic", "putstatic", "new"}
    BY <2>1, <2>2 DEF FieldRule
  <2>3. CASE ins.op \in {"invokestatic", "invokespecial", "invokevirtual"}
    BY <2>1, <2>3 DEF InvokeRule
  <2> QED BY <1>1, <2>2, <2>3 DEF Resolving
<1>3. ASSUME add_class(c), prog' = prog
      PROVE  HeapsOK'
  BY <1>3, AddClassKeeps DEF SafeInv, ClassInv, HeapInv
<1>4. ASSUME add_class(c), find_method(c, "<clinit>"), NEW u \in Uninitialised,
             Call(c, "<clinit>", Fill(c, "<clinit>", u), "clinit", opst)
      PROVE  SafeInv'
  <2>1. EntryOK(c, "<clinit>", Fill(c, "<clinit>", u))
    BY <1>2, <1>4, ClinitEntry
  <2>2. opst \in Seq(Entry) /\ \A i \in 1 .. Len(opst) : InRange(opst[i])
    BY <1>1, Current DEF Stacked
  <2>3. Awaiting([frame EXCEPT !.op_stack = opst], Activation(c, "<clinit>", Fill(c, "<clinit>", u), "clinit"))
    <3>1. [frame EXCEPT !.op_stack = opst] = frame
      BY <1>1, Current DEF IsActivation, opst
    <3>2. Running(frame)
      BY <1>1, Current DEF ActivationsOK
    <3> QED BY <3>1, <3>2 DEF Awaiting, Activation
  <2>4. HeapsOK'
    BY <1>3, <1>4 DEF Call
  <2> QED BY <1>1, <1>4, <2>1, <2>2, <2>3, <2>4, CallStep
<1>5. CASE add_class(c) /\ UNCHANGED <<prog, status, stage, booted, frame, callers>>
  <2>1. HeapsOK'
    BY <1>3, <1>5
  <2>2. ActivationsOK'
    <3>1. \A d, name : Method(d, name)' = Method(d, name)
      BY <1>5 DEF Method, Class
    <3>2. FrameTypeOK(frame)' /\ Running(frame)'
      BY <1>1, <1>5, Current DEF ActivationsOK, FrameTypeOK, Running, TypesAt, Method, Class
    <3>3. IsSequence(callers) /\ Len(callers) \in Nat /\ AllActivations
      BY <1>1 DEF SafeInv, ClassInv, ActivationsInv, IsSequence, InMethods, Known, AllActivations
    <3>4. Kept(Len(callers))
      BY <1>5, <3>3 DEF Kept, Called, AllActivations, Same
    <3>5. \A i \in 1 .. Len(callers) : SuspendedOK(i)'
      BY <1>1, <1>5, <3>3, <3>4, Current, KeptOK DEF ActivationsOK
    <3>6. BottomOK'
      BY <1>1, <1>5, <3>3, <3>4, Current, KeptBottom DEF ActivationsOK
    <3> QED BY <1>5, <3>2, <3>5, <3>6 DEF ActivationsOK
  <2> QED BY <1>5, <2>1, <2>2 DEF SafeInv
<1>6. \/ Crash("segv") \/ Crash("undefined")
      \/ /\ add_class(c)
         /\ IF ins.op # "invokestatic" /\ find_method(c, "<clinit>")
            THEN \E u \in Uninitialised :
                   Call(c, "<clinit>", Fill(c, "<clinit>", u), "clinit", opst)
            ELSE UNCHANGED <<prog, status, stage, booted, frame, callers>>
  BY <1>2 DEF load_class
<1> QED BY <1>4, <1>5, <1>6, CrashSafe DEF Terminal

-----------------------------------------------------------------------------
\* Invocations: the method is found, and its operands are there.
LEMMA Target ==
  ASSUME SafeInv, Resolved({"invokestatic", "invokespecial", "invokevirtual"})
  PROVE  /\ status = "run" /\ ins.op \in {"invokestatic", "invokespecial", "invokevirtual"}
         /\ ins.arg.clazz \in DOMAIN prog.classes /\ find_method(ins.arg.clazz, ins.arg.name)
         /\ ins.op = "invokestatic" => callee.static
         /\ ins.op # "invokestatic" => ~callee.static
         /\ callee.native \in BOOLEAN
         /\ callee.params \in Seq(STRING)
         /\ num_params = Len(callee.params) /\ num_params \in Nat
         /\ Popped = Operands(ins.op, callee) /\ Popped \in Nat /\ Popped <= Len(rule.stk)
         /\ ArgumentsFit(rule.stk, ins.op, callee)
         /\ callee.native => /\ num_params < 20
                             /\ callee.ret \in {"V", "I", "J", "C", "String"}
                             /\ callee.ret # "V" => ins.arg.name \in PtrNatives
                             /\ callee.ret = "String" => ins.op = "invokevirtual"
         /\ IF callee.ret = "V" THEN Pops(method, frame.pc, frame.pc + 3, Popped)
            ELSE Pushes(method, frame.pc, 3, Popped, TypeOf(callee.ret))
<1>1. status = "run" /\ ins.op \in {"invokestatic", "invokespecial", "invokevirtual"}
  BY DEF Resolved, Fetch
<1>2. InvokeRule(method, frame.pc, ins.op, ins.arg, prog.classes)
  BY <1>1, Rules
<1>3. callee = prog.classes[ins.arg.clazz].methods[ins.arg.name]
  BY DEF callee, Method, Class
<1>4. /\ ins.arg.clazz \in DOMAIN prog.classes /\ find_method(ins.arg.clazz, ins.arg.name)
      /\ callee.static = (ins.op = "invokestatic")
      /\ \A j \in 1 .. Len(callee.params) : callee.params[j] # "[L"
      /\ ArgumentsFit(rule.stk, ins.op, callee)
      /\ callee.native => /\ Len(callee.params) < 20
                          /\ callee.ret \in {"V", "I", "J", "C", "String"}
                          /\ callee.ret # "V" => ins.arg.name \in PtrNatives
                          /\ callee.ret = "String" => ins.op = "invokevirtual"
      /\ IF callee.ret = "V" THEN Pops(method, frame.pc, frame.pc + 3, Operands(ins.op, callee))
         ELSE Pushes(method, frame.pc, 3, Operands(ins.op, callee), TypeOf(callee.ret))
  BY <1>1, <1>2, <1>3 DEF InvokeRule, find_method, Class, rule
<1>5. callee.params \in Seq(STRING) /\ callee.native \in BOOLEAN
  BY <1>3, <1>4, ProgramVerified DEF Verified, ClassVerified, find_method, Class
<1>6. num_params = Len(callee.params) /\ num_params \in Nat
  <2>1. {i \in DOMAIN callee.params : callee.params[i] = "[L"} = {}
    BY <1>4, <1>5
  <2>2. Cardinality({}) = 0
    BY FS_EmptySet
  <2>3. Len(callee.params) \in Nat
    BY <1>5
  <2>4. Cardinality({i \in DOMAIN callee.params : callee.params[i] = "[L"}) = 0
    BY <2>1, <2>2
  <2>5. num_params = Len(callee.params)
                     + 17 * Cardinality({i \in DOMAIN callee.params : callee.params[i] = "[L"})
    BY DEF num_params, get_number_of_parameters
  <2> QED BY <2>3, <2>4, <2>5
<1>7. Popped = Operands(ins.op, callee) /\ Popped \in Nat /\ Popped <= Len(rule.stk)
  <2>1. Len(rule.stk) \in Nat /\ Len(rule.stk) >= Operands(ins.op, callee)
    BY <1>1, <1>4, Current DEF ArgumentsFit
  <2>2. Popped = Operands(ins.op, callee) /\ Popped \in Nat
    <3>1. CASE ins.op = "invokestatic"
      BY <1>6, <3>1 DEF Popped, Operands
    <3>2. CASE ins.op # "invokestatic"
      BY <1>6, <3>2 DEF Popped, Operands
    <3> QED BY <3>1, <3>2
  <2> QED BY <2>1, <2>2
<1>8. (ins.op = "invokestatic" => callee.static) /\ (ins.op # "invokestatic" => ~callee.static)
  BY <1>4
<1> QED BY <1>1, <1>4, <1>5, <1>6, <1>7, <1>8

\* The j-th argument, as pop_to_local copies it, and "this".
LEMMA ArgumentTyped ==
  ASSUME SafeInv, Resolved({"invokestatic", "invokespecial", "invokevirtual"})
  PROVE  /\ \A j \in 1 .. num_params :
              /\ Argument(j) \in Entry /\ InRange(Argument(j))
              /\ Argument(j).type \in LocalTags(TypeOf(callee.params[j]))
         /\ ins.op # "invokestatic" => this \in Entry /\ InRange(this) /\ this.type = "REF"
<1>1. /\ status = "run" /\ Len(opst) = Len(rule.stk) /\ Len(rule.stk) \in Nat
      /\ num_params = Len(callee.params) /\ num_params \in Nat
      /\ Popped \in Nat /\ Popped <= Len(rule.stk) /\ num_params <= Popped
      /\ ins.op # "invokestatic" => num_params < Popped
      /\ ArgumentsFit(rule.stk, ins.op, callee)
  BY Target, Current DEF Stacked, StackFits, Popped
<1>2. ASSUME NEW j \in 1 .. num_params
      PROVE  /\ Argument(j) \in Entry /\ InRange(Argument(j))
             /\ Argument(j).type \in LocalTags(TypeOf(callee.params[j]))
  <2> DEFINE k == num_params - j
             e == opst[Len(opst) - num_params + j]
             t == rule.stk[Len(rule.stk) - num_params + j]
  <2>1. k \in Nat /\ k < Len(rule.stk) /\ e = peek(opst, k) /\ t = peek(rule.stk, k)
    BY <1>1 DEF peek
  <2>2. /\ e \in Entry /\ InRange(e) /\ e.type \in OperandTags(t)
    BY <1>1, <2>1, Current, PeekFits
  <2>3. t = TypeOf(callee.params[j]) /\ t \in {"I", "J", "A"}
    BY <1>1 DEF ArgumentsFit, TypeOf
  <2>4. stack_to_int(e) \in Int /\ stack_to_int(e) \in SignedRange(LongHalf) /\ e.value \in Int
    BY <2>2, ReadsInt
  <2> HIDE DEF e, t
  <2>5. pop_to_local(e) \in Entry /\ InRange(pop_to_local(e)) /\ pop_to_local(e).type \in LocalTags(t)
    <3>1. CASE e.type \in IntegerTypes
      <4>1. t \in {"I", "J"}
        BY <2>2, <2>3, <3>1 DEF OperandTags, IntegerTypes
      <4> QED BY <2>4, <3>1, <4>1 DEF pop_to_local, Entry, EntryTypes, InRange, HalfOf, LocalTags
    <3>2. CASE e.type \notin IntegerTypes
      <4>1. t = "A"
        BY <2>2, <2>3, <3>2 DEF OperandTags, IntegerTypes
      <4> QED BY <2>4, <3>2, <4>1 DEF pop_to_local, Entry, EntryTypes, InRange, IntegerTypes, LocalTags
    <3> QED BY <3>1, <3>2
  <2> QED BY <2>3, <2>5 DEF Argument, e
<1>3. ASSUME ins.op # "invokestatic"
      PROVE  this \in Entry /\ InRange(this) /\ this.type = "REF"
  <2>1. peek(opst, num_params) \in Entry
    BY <1>1, <1>3, Current, PeekFits
  <2> QED BY <2>1 DEF this, Entry, EntryTypes, InRange, IntegerTypes
<1> QED BY <1>2, <1>3

\* The locals made of the operands are what the method called expects.
LEMMA LocalsMade ==
  ASSUME SafeInv, Resolved({"invokestatic", "invokespecial", "invokevirtual"}), ~callee.native,
         NEW first, first = (IF ins.op = "invokestatic" THEN 0 ELSE 1),
         NEW fill \in Entry, InRange(fill)
  PROVE  EntryOK(ins.arg.clazz, ins.arg.name, OwnLocals(first, fill))
<1>1. /\ ins.arg.clazz \in DOMAIN prog.classes /\ ins.arg.name \in DOMAIN Class(ins.arg.clazz).methods
      /\ callee = Method(ins.arg.clazz, ins.arg.name)
      /\ ins.op = "invokestatic" => callee.static /\ first = 0
      /\ ins.op # "invokestatic" => ~callee.static /\ first = 1
      /\ num_params = Len(callee.params) /\ num_params \in Nat
  BY Target DEF find_method, callee
<1>2. MethodVerified(callee, prog.classes)
  BY <1>1, MethodsVerified
<1>3. EntryLocals(callee) /\ callee.max_locals \in Nat
  BY <1>2 DEF MethodVerified
<1> DEFINE locals == OwnLocals(first, fill)
           loc == callee.code[0].loc
<1>4. ASSUME NEW i \in 0 .. callee.max_locals - 1
      PROVE  locals[i] \in Entry /\ InRange(locals[i]) /\ locals[i].type \in LocalTags(loc[i + 1])
  <2>1. locals[i] = IF i < first THEN this
                    ELSE IF i - first < num_params THEN Argument(i - first + 1) ELSE fill
    BY DEF OwnLocals
  <2> HIDE DEF locals
  <2>2. CASE i < first
    <3>1. i = 0 /\ ins.op # "invokestatic" /\ loc[i + 1] \in {"A", "-"}
      <4>1. ins.op # "invokestatic" /\ first = 1
        BY <1>1, <1>3, <2>2
      <4>2. i = 0
        BY <1>3, <2>2, <4>1
      <4>3. loc[1] \in {"A", "-"}
        BY <1>1, <1>3, <4>1 DEF EntryLocals
      <4> QED BY <4>1, <4>2, <4>3
    <3>2. locals[i] = this /\ this \in Entry /\ InRange(this) /\ this.type = "REF"
      BY <2>1, <2>2, <3>1, ArgumentTyped
    <3> QED BY <3>1, <3>2 DEF LocalTags, Entry
  <2>3. CASE ~(i < first) /\ i - first < num_params
    <3> DEFINE j == i - first + 1
    <3>1. j \in 1 .. num_params /\ Slot(callee, j) = i
      <4>1. i \in Nat
        BY <1>3
      <4>2. CASE ins.op = "invokestatic"
        BY <1>1, <2>3, <4>1, <4>2 DEF Slot
      <4>3. CASE ins.op # "invokestatic"
        BY <1>1, <2>3, <4>1, <4>3 DEF Slot
      <4> QED BY <4>2, <4>3
    <3>2. loc[i + 1] \in {TypeOf(callee.params[j]), "-"}
      BY <1>1, <1>3, <3>1 DEF EntryLocals
    <3>3. /\ locals[i] = Argument(j) /\ Argument(j) \in Entry /\ InRange(Argument(j))
          /\ Argument(j).type \in LocalTags(TypeOf(callee.params[j]))
      BY <2>1, <2>3, <3>1, ArgumentTyped
    <3> HIDE DEF j
    <3> QED BY <3>2, <3>3 DEF LocalTags, Entry
  <2>4. CASE ~(i < first) /\ ~(i - first < num_params)
    <3>1. i >= Slot(callee, Len(callee.params) + 1)
      BY <1>1, <2>4 DEF Slot
    <3>2. loc[i + 1] = "-"
      BY <1>3, <3>1 DEF EntryLocals
    <3>3. locals[i] = fill
      BY <2>1, <2>4
    <3> QED BY <3>2, <3>3 DEF LocalTags, Entry
  <2> QED BY <2>2, <2>3, <2>4
<1>5. DOMAIN locals = 0 .. callee.max_locals - 1 /\ locals \in [0 .. callee.max_locals - 1 -> Entry]
  <2>1. locals = [i \in 0 .. callee.max_locals - 1 |-> locals[i]]
    BY DEF OwnLocals
  <2> HIDE DEF locals
  <2> QED BY <1>4, <2>1
<1> HIDE DEF locals
<1>6. LocalsFit(locals, loc)
  BY <1>4, <1>5 DEF LocalsFit
<1>7. EntryOK(ins.arg.clazz, ins.arg.name, locals)
  BY <1>1, <1>4, <1>5, <1>6 DEF EntryOK
<1> QED BY <1>7 DEF locals

\* The activation that calls has what it needs when the method returns.
LEMMA CallAwaits ==
  ASSUME SafeInv, Resolved({"invokestatic", "invokespecial", "invokevirtual"}), NEW locals
  PROVE  Awaiting([frame EXCEPT !.op_stack = drop(opst, Popped)],
                  Activation(ins.arg.clazz, ins.arg.name, locals, ins.op))
<1>1. PICK f : f = [frame EXCEPT !.op_stack = drop(opst, Popped)]
  OBVIOUS
<1>2. PICK g : g = Activation(ins.arg.clazz, ins.arg.name, locals, ins.op)
  OBVIOUS
<1>3. /\ status = "run" /\ Popped \in Nat /\ Popped <= Len(rule.stk)
      /\ ins.op # "clinit"
      /\ IF callee.ret = "V" THEN Pops(method, frame.pc, frame.pc + 3, Popped)
         ELSE Pushes(method, frame.pc, 3, Popped, TypeOf(callee.ret))
  BY Target
<1>4. f.clazz = frame.clazz /\ f.meth = frame.meth /\ f.pc = frame.pc /\ f.locals = frame.locals
      /\ f.op_stack = drop(opst, Popped)
  BY <1>1, <1>3, Current DEF IsActivation
<1>5. g.via # "clinit" /\ Method(g.clazz, g.meth) = callee
  BY <1>2, <1>3 DEF Activation, callee
<1>6. Stacked(drop(opst, Popped), drop(rule.stk, Popped)) /\ drop(rule.stk, Popped) \in Seq(VTypes)
  BY <1>3, OperandsRead
<1>7. Method(f.clazz, f.meth) = method /\ TypesAt(f, f.pc + 3) = method.code[frame.pc + 3]
  BY <1>4 DEF method, TypesAt
<1> DEFINE left == drop(rule.stk, Popped)
           stk == IF callee.ret = "V" THEN left ELSE Append(left, TypeOf(callee.ret))
<1>8. Flows(method, frame.pc + 3, stk, rule.loc)
  BY <1>3 DEF Pops, Pushes, rule
<1>9. frame.pc + 3 \in DOMAIN method.code /\ method.code[frame.pc + 3].stk = stk
  BY <1>8 DEF Flows
<1>10. LocalsFit(f.locals, method.code[frame.pc + 3].loc)
  <2> HIDE DEF stk
  <2> QED BY <1>3, <1>4, <1>8, Current, LocalsFlow
<1>11. CASE callee.ret = "V"
  BY <1>1, <1>2, <1>4, <1>5, <1>6, <1>7, <1>9, <1>10, <1>11 DEF Awaiting, Stacked
<1>12. CASE callee.ret # "V"
  <2>1. Len(f.op_stack) = Len(left) /\ Len(left) \in Nat
    BY <1>4, <1>6 DEF Stacked, StackFits
  <2>2. \A i \in 1 .. Len(f.op_stack) : f.op_stack[i].type \in OperandTags(left[i])
    BY <1>4, <1>6 DEF Stacked, StackFits
  <2>3. /\ Len(stk) = Len(f.op_stack) + 1 /\ stk[Len(stk)] = TypeOf(callee.ret)
        /\ \A i \in 1 .. Len(f.op_stack) : stk[i] = left[i]
    <3>1. TypeOf(callee.ret) \in VTypes
      BY DEF TypeOf, VTypes
    <3> HIDE DEF left
    <3> QED BY <1>6, <1>12, <2>1, <3>1 DEF left
  <2> HIDE DEF stk, left
  <2> QED BY <1>1, <1>2, <1>5, <1>7, <1>9, <1>10, <1>12, <2>2, <2>3 DEF Awaiting
<1> QED BY <1>11, <1>12

\* A call of a Java method keeps the invariant,
LEMMA InvokeSafe ==
  ASSUME SafeInv, ClassInv', NEW op \in {"invokestatic", "invokespecial", "invokevirtual"}, Invoke(op, FALSE),
         NEW first, first = (IF op = "invokestatic" THEN 0 ELSE 1), NEW fill \in Entry, InRange(fill),
         Call(ins.arg.clazz, ins.arg.name, OwnLocals(first, fill), ins.op, drop(opst, Popped)),
         UNCHANGED heaps
  PROVE  SafeInv'
<1>1. /\ Resolved({"invokestatic", "invokespecial", "invokevirtual"}) /\ ins.op = op
      /\ callee.native = FALSE
  BY DEF Invoke, Resolved, Fetch
<1>2. EntryOK(ins.arg.clazz, ins.arg.name, OwnLocals(first, fill))
  BY <1>1, LocalsMade
<1>3. HeapsOK'
  BY HeapsKept DEF SafeInv, Call
<1>4. status = "run" /\ Stacked(drop(opst, Popped), drop(rule.stk, Popped))
  BY <1>1, Target, OperandsRead
<1>5. /\ drop(opst, Popped) \in Seq(Entry)
      /\ \A i \in 1 .. Len(drop(opst, Popped)) : InRange(drop(opst, Popped)[i])
  BY <1>4 DEF Stacked
<1> QED BY <1>1, <1>2, <1>3, <1>4, <1>5, CallAwaits, CallStep

\* What fills the locals that no argument is popped into.
LEMMA Fills ==
  /\ Zeroed \in Entry /\ InRange(Zeroed)
  /\ \A u \in Uninitialised : u \in Entry /\ InRange(u)
<1>1. Zeroed \in Entry /\ InRange(Zeroed)
  BY DEF Zeroed, Entry, EntryTypes, InRange, IntegerTypes
<1>2. ASSUME NEW u \in Uninitialised
      PROVE  u \in Entry /\ InRange(u)
  <2>1. PICK v \in Junk : u = [type |-> "UNINIT", value |-> v]
    BY DEF Uninitialised
  <2>2. v \in Int
    BY WorldAssumption
  <2> QED BY <2>1, <2>2 DEF Entry, EntryTypes, InRange, IntegerTypes
<1> QED BY <1>1, <1>2

\* The three invoke instructions keep the invariant when they call Java code.
LEMMA JavaSafe ==
  ASSUME SafeInv, ClassInv', invokestatic \/ invokespecial \/ invokevirtual
  PROVE  SafeInv'
<1>1. CASE invokestatic
  <2>1. PICK u \in Uninitialised :
          Call(ins.arg.clazz, ins.arg.name, OwnLocals(0, u), ins.op, drop(opst, Popped))
    BY <1>1 DEF invokestatic
  <2> QED BY <1>1, <2>1, Fills, InvokeSafe DEF invokestatic
<1>2. CASE invokespecial
  <2>1. PICK u \in Uninitialised :
          Call(ins.arg.clazz, ins.arg.name, OwnLocals(1, u), ins.op, drop(opst, Popped))
    BY <1>2 DEF invokespecial
  <2> QED BY <1>2, <2>1, Fills, InvokeSafe DEF invokespecial
<1>3. CASE invokevirtual
  BY <1>3, Fills, InvokeSafe DEF invokevirtual
<1> QED BY <1>1, <1>2, <1>3

\* A native method: an implementation exists when a result is expected.
LEMMA NativeTarget ==
  ASSUME SafeInv, NativeCall
  PROVE  /\ Resolved({"invokestatic", "invokespecial", "invokevirtual"})
         /\ status = "run" /\ Popped \in 0 .. Len(rule.stk) /\ Popped <= Len(rule.stk)
         /\ Popped \in Nat
         /\ callee.ret \in {"V", "I", "J", "C", "String"}
         /\ callee.ret # "V" => Implementation \in PtrNatives
         /\ callee.ret = "String" => ins.op = "invokevirtual"
         /\ IF callee.ret = "V" THEN Pops(method, frame.pc, frame.pc + 3, Popped)
            ELSE Pushes(method, frame.pc, 3, Popped, TypeOf(callee.ret))
         /\ Stacked(drop(opst, Popped), drop(rule.stk, Popped))
         /\ drop(rule.stk, Popped) \in Seq(VTypes)
<1>1. Resolved({"invokestatic", "invokespecial", "invokevirtual"}) /\ callee.native
  BY DEF NativeCall, Invoke, Resolved, Fetch
<1>2. /\ status = "run" /\ Popped \in Nat /\ Popped <= Len(rule.stk) /\ Len(rule.stk) \in Nat
  BY <1>1, Target, Current
<1>3. /\ callee.ret \in {"V", "I", "J", "C", "String"}
      /\ callee.ret # "V" => ins.arg.name \in PtrNatives
      /\ callee.ret = "String" => ins.op = "invokevirtual"
      /\ IF callee.ret = "V" THEN Pops(method, frame.pc, frame.pc + 3, Popped)
         ELSE Pushes(method, frame.pc, 3, Popped, TypeOf(callee.ret))
  BY <1>1, Target
<1>4. callee.ret # "V" => Implementation \in PtrNatives
  BY <1>3 DEF Implementation
<1>5. /\ Stacked(drop(opst, Popped), drop(rule.stk, Popped))
      /\ drop(rule.stk, Popped) \in Seq(VTypes)
  BY <1>2, OperandsRead
<1>6. Popped \in 0 .. Len(rule.stk)
  BY <1>2
<1> QED BY <1>1, <1>2, <1>3, <1>4, <1>5, <1>6

\* A call of a native method keeps the invariant.
LEMMA NativesSafe ==
  ASSUME SafeInv, ClassInv', native_access_fails \/ native_void \/ native_value \/ native_string
  PROVE  SafeInv'
<1>1. CASE native_access_fails
  BY <1>1, WildSafe DEF native_access_fails
<1>2. CASE native_void
  BY <1>2, NativeTarget, PopStep DEF native_void
<1>3. CASE native_value
  <2>1. NativeCall /\ callee.ret \in {"J", "I", "C"}
    BY <1>3 DEF native_value
  <2>2. PICK r \in NativeResults :
          Advance(CASE callee.ret = "J" -> push_long(drop(opst, Popped), r)
                    [] callee.ret = "C" /\ ins.op = "invokestatic" -> push_byte(drop(opst, Popped), r)
                    [] OTHER -> push_int(drop(opst, Popped), r),
                  3)
    BY <1>3, <2>1, NativeTarget DEF native_value
  <2>3. PICK stack : /\ Advance(stack, 3)
                     /\ stack = CASE callee.ret = "J" -> push_long(drop(opst, Popped), r)
                                  [] callee.ret = "C" /\ ins.op = "invokestatic" -> push_byte(drop(opst, Popped), r)
                                  [] OTHER -> push_int(drop(opst, Popped), r)
    BY <2>2
  <2>4. r \in Int
    BY WorldAssumption
  <2>5. Stacked(stack, Append(drop(rule.stk, Popped), TypeOf(callee.ret)))
    <3>1. /\ Stacked(push_byte(drop(opst, Popped), r), Append(drop(rule.stk, Popped), "I"))
          /\ Stacked(push_int(drop(opst, Popped), r), Append(drop(rule.stk, Popped), "I"))
          /\ Stacked(push_long(drop(opst, Popped), r), Append(drop(rule.stk, Popped), "J"))
      BY <2>1, <2>4, NativeTarget, PushFits
    <3> QED BY <2>1, <2>3, <3>1 DEF TypeOf
  <2>6. status = "run" /\ Pushes(method, frame.pc, 3, Popped, TypeOf(callee.ret))
    BY <2>1, NativeTarget
  <2> QED BY <2>3, <2>5, <2>6, PushStep
<1>4. CASE native_string
  <2>1. NativeCall /\ callee.ret = "String" /\ ins.op = "invokevirtual"
    BY <1>4, NativeTarget DEF native_string
  <2>2. CASE Crash("segv") \/ Crash("input_error") \/ Crash("undefined")
    BY <2>2, CrashSafe DEF Terminal
  <2>3. CASE /\ Allocate(<<new_string(frame.clazz)>>)
             /\ Goto(push_ref(drop(opst, Popped), Len(memory) + 1), frame.pc + 3)
             /\ UNCHANGED <<class_heap, class_names, statics>>
    <3>1. HeapsOK' /\ Len(memory) \in Nat
      BY <2>1, <2>3, NativeTarget, StringMade DEF Goto
    <3>2. Len(memory) + 1 \in Int
      BY <3>1
    <3>3. status = "run" /\ Pushes(method, frame.pc, 3, Popped, "A")
      BY <2>1, NativeTarget DEF TypeOf
    <3> QED BY <2>1, <2>3, <3>1, <3>2, <3>3, NativeTarget, ReferenceStep
  <2> QED BY <1>4, <2>1, <2>2, <2>3 DEF native_string
<1> QED BY <1>1, <1>2, <1>3, <1>4

\* A set of positions is finite.
LEMMA NumbersCounted ==
  ASSUME NEW n \in Nat, NEW S, S \subseteq 1 .. n
  PROVE  Cardinality(S) \in Nat
<1>1. IsFiniteSet(1 .. n)
  BY FS_Interval
<1> QED BY <1>1, FS_Subset, FS_CardinalityType

\* invokedynamic keeps the invariant.
LEMMA ConcatenationSafe ==
  ASSUME SafeInv, ClassInv', invokedynamic
  PROVE  SafeInv'
<1>1. /\ status = "run" /\ ins.op = "invokedynamic"
      /\ FieldRule(method, frame.pc, ins.op, ins.arg, prog.classes)
  BY Rules DEF invokedynamic, Fetch
<1>2. /\ ins.arg.params \in 0 .. Len(rule.stk) /\ ins.arg.constants = 1
      /\ Pushes(method, frame.pc, 5, ins.arg.params, "A")
  BY <1>1 DEF FieldRule, rule
<1> DEFINE n == ins.arg.params
           operands == SubSeq(opst, Len(opst) - n + 1, Len(opst))
           numbers == {i \in 1 .. n : operands[i].type # "REF"}
<1>3. PICK made : made = Cardinality(numbers) + 1
  OBVIOUS
<1>4. Len(rule.stk) \in Nat /\ n \in Nat /\ n <= Len(rule.stk)
  BY <1>1, <1>2, Current
<1>5. made \in Nat
  <2>1. Cardinality(numbers) \in Nat
    BY <1>4, NumbersCounted
  <2> HIDE DEF numbers
  <2> QED BY <1>3, <2>1
<1>6. CASE Crash("undefined") \/ \E p : WildAccess(p)
  BY <1>6, CrashSafe, WildSafe DEF Terminal
<1>7. CASE /\ memory' = memory \o [i \in 1 .. made |-> new_string(frame.clazz)]
           /\ Goto(push_ref(drop(opst, n), Len(memory) + made), frame.pc + 5)
           /\ UNCHANGED <<class_heap, class_names, statics>>
  <2>1. PICK blocks : blocks = [i \in 1 .. made |-> new_string(frame.clazz)]
    OBVIOUS
  <2>2. IsSequence(blocks) /\ Len(blocks) = made /\ \A i \in 1 .. made : blocks[i] = new_string(frame.clazz)
    <3>1. blocks \in Seq({new_string(frame.clazz)}) /\ Len(blocks) = made
      BY <1>5, <2>1
    <3>2. IsSequence(blocks)
      BY <3>1, SequenceOfSet
    <3> QED BY <2>1, <3>1, <3>2
  <2>3. BlockTypeOK(new_string(frame.clazz))
    BY <1>1, Current DEF BlockTypeOK, new_string, Block
  <2>4. HeapsOK'
    BY <1>7, <2>1, <2>2, <2>3, BlocksMade DEF SafeInv, Goto
  <2>5. Len(memory) + made \in Int
    <3>1. Len(memory) \in Nat
      BY DEF SafeInv, HeapsOK, IsSequence
    <3> QED BY <1>5, <3>1
  <2> HIDE DEF n
  <2>6. UNCHANGED <<class_heap, class_names>>
    BY <1>7
  <2> QED BY <1>1, <1>2, <1>4, <1>7, <2>4, <2>5, <2>6, ReferenceStep DEF n
<1> HIDE DEF numbers, operands
<1>8. \/ Crash("undefined") \/ \E p : WildAccess(p)
      \/ /\ memory' = memory \o [i \in 1 .. made |-> new_string(frame.clazz)]
         /\ Goto(push_ref(drop(opst, n), Len(memory) + made), frame.pc + 5)
         /\ UNCHANGED <<class_heap, class_names, statics>>
  BY <1>2, <1>3 DEF invokedynamic, numbers, operands
<1> QED BY <1>6, <1>7, <1>8

\* No argument is written past own_locals.
LEMMA ArgumentsHaveRoom ==
  ASSUME SafeInv, Resolved({"invokestatic", "invokespecial", "invokevirtual"})
  PROVE  Room
<1>1. /\ ins.arg.clazz \in DOMAIN prog.classes /\ ins.arg.name \in DOMAIN Class(ins.arg.clazz).methods
      /\ ins.op = "invokestatic" => callee.static
      /\ ins.op # "invokestatic" => ~callee.static
      /\ num_params = Len(callee.params) /\ num_params \in Nat
      /\ callee.native => num_params < 20
  BY Target DEF find_method
<1>2. ASSUME ~callee.native
      PROVE  Popped <= callee.max_locals
  <2>1. EntryLocals(callee) /\ callee.max_locals \in Nat
    BY <1>1, <1>2, MethodsVerified DEF callee, MethodVerified
  <2>2. CASE num_params = 0
    BY <1>1, <2>1, <2>2 DEF EntryLocals, Popped
  <2>3. CASE num_params > 0
    <3>1. Slot(callee, num_params) < callee.max_locals
      BY <1>1, <2>1, <2>3 DEF EntryLocals
    <3> QED BY <1>1, <2>1, <2>3, <3>1 DEF Slot, Popped
  <2> QED BY <1>1, <2>2, <2>3
<1> QED BY <1>1, <1>2 DEF Room

\* All the invocations keep the invariant.
LEMMA InvokesSafe ==
  ASSUME SafeInv, ClassInv', invokes
  PROVE  SafeInv'
<1>1. CASE invoke_fails
  BY <1>1, CrashSafe DEF invoke_fails, Terminal
<1> QED BY <1>1, JavaSafe, NativesSafe, ConcatenationSafe DEF invokes

-----------------------------------------------------------------------------
\* The suspended activation on top, and what it waits for.
LEMMA CallerTyped ==
  ASSUME SafeInv, status = "run", callers # <<>>
  PROVE  /\ IsSequence(callers) /\ AllActivations /\ IsActivation(caller)
         /\ Len(callers) \in Nat /\ Len(callers) >= 1
         /\ FrameTypeOK(caller) /\ Awaiting(caller, frame)
<1>1. IsSequence(callers) /\ Len(callers) \in Nat /\ AllActivations
  BY DEF SafeInv, ClassInv, ActivationsInv, IsSequence, InMethods, Known, AllActivations
<1>2. Len(callers) >= 1
  BY <1>1 DEF IsSequence
<1>3. Called(Len(callers)) = frame
  BY DEF Called
<1>4. IsActivation(caller)
  <2>1. Len(callers) - 1 \in 0 .. Len(callers) /\ Called(Len(callers) - 1) = callers[Len(callers)]
    BY <1>1, <1>2 DEF Called
  <2> QED BY <1>1, <2>1 DEF AllActivations, caller
<1>5. SuspendedOK(Len(callers))
  BY <1>1, <1>2, Current DEF ActivationsOK
<1> QED BY <1>1, <1>2, <1>3, <1>4, <1>5 DEF SuspendedOK, caller

\* The caller is resumed with an operand stack that fits where it goes on.
LEMMA ReturnStep ==
  ASSUME SafeInv, ClassInv', status = "run", callers # <<>>,
         NEW stack \in Seq(Entry), \A i \in 1 .. Len(stack) : InRange(stack[i]),
         NEW len, Resume(stack, len),
         caller.pc + len \in DOMAIN Method(caller.clazz, caller.meth).code,
         StackFits(stack, TypesAt(caller, caller.pc + len).stk),
         LocalsFit(caller.locals, TypesAt(caller, caller.pc + len).loc)
  PROVE  SafeInv'
<1>1. PICK f, n, pc : f = caller /\ n = Len(callers') /\ pc = caller.pc + len
  OBVIOUS
<1>2. /\ frame'.clazz = f.clazz /\ frame'.meth = f.meth /\ frame'.via = f.via
      /\ frame'.locals = f.locals /\ frame'.op_stack = stack /\ frame'.pc = pc
      /\ UNCHANGED <<prog, status, stage, booted, heaps>>
  BY <1>1, CallerTyped DEF Resume, IsActivation
<1>3. IsSequence(callers) /\ AllActivations /\ Resumes
  BY CallerTyped, ResumeResumes
<1>4. n \in Nat /\ n <= Len(callers) /\ Kept(n) /\ Len(callers) \in Nat
  BY <1>1, <1>3, CallerTyped, ResumeKeeps
<1>5. HeapsOK'
  BY <1>2, HeapsKept DEF SafeInv
<1>6. \A c, name : Method(c, name)' = Method(c, name)
  BY <1>2 DEF Method, Class
<1>7. FrameTypeOK(f) /\ FrameTypeOK(frame)'
  <2>1. FrameTypeOK(f)
    BY <1>1, CallerTyped
  <2>2. pc \in DOMAIN Method(f.clazz, f.meth).code
    BY <1>1
  <2>3. FrameTypeOK(frame)'
    BY <1>2, <2>1, <2>2 DEF FrameTypeOK, Method, Class
  <2> QED BY <2>1, <2>3
<1>8. Running(frame)'
  <2>1. TypesAt(frame, frame.pc)' = TypesAt(f, pc)
    BY <1>2 DEF TypesAt, Method, Class
  <2>2. StackFits(stack, TypesAt(f, pc).stk) /\ LocalsFit(f.locals, TypesAt(f, pc).loc)
    BY <1>1
  <2> QED BY <1>2, <2>1, <2>2 DEF Running
<1>9. \A i \in 1 .. n : SuspendedOK(i)'
  BY <1>2, <1>4, Current, KeptOK DEF ActivationsOK
<1>10. BottomOK'
  BY <1>2, <1>4, Current, KeptBottom DEF ActivationsOK
<1>11. ActivationsOK'
  BY <1>1, <1>7, <1>8, <1>9, <1>10 DEF ActivationsOK
<1> QED BY <1>2, <1>5, <1>11 DEF SafeInv

\* What a return instruction hands over.
LEMMA ResultTyped ==
  ASSUME SafeInv, Fetch(Returns)
  PROVE  /\ status = "run"
         /\ (result.type = "NONE") = (method.ret = "V")
         /\ method.ret # "V" => /\ [type |-> result.type, value |-> result.value] \in Entry
                                /\ InRange([type |-> result.type, value |-> result.value])
                                /\ result.type \in OperandTags(TypeOf(method.ret))
<1>1. status = "run" /\ ins.op \in {"ireturn", "return", "lreturn", "areturn"}
  BY DEF Fetch, Returns
<1>2. ReturnRule(method, frame.pc, ins.op)
  BY <1>1, Rules
<1>3. CASE ins.op = "return"
  BY <1>1, <1>2, <1>3 DEF ReturnRule, result
<1>4. CASE ins.op # "return"
  <2>1. /\ method.ret # "V" /\ Top(rule.stk, TypeOf(method.ret))
        /\ ins.op = "ireturn" => TypeOf(method.ret) = "I"
        /\ ins.op = "lreturn" => TypeOf(method.ret) = "J"
        /\ ins.op = "areturn" => TypeOf(method.ret) = "A"
    BY <1>1, <1>2, <1>4 DEF ReturnRule, rule
  <2>2. /\ int32(top(opst)) \in Int /\ int32(top(opst)) \in SignedRange(IntHalf)
        /\ stack_to_int(top(opst)) \in Int /\ stack_to_int(top(opst)) \in SignedRange(LongHalf)
        /\ top(opst).value \in Int
    BY <1>1, <2>1, TopRead
  <2>3. CASE ins.op = "ireturn"
    <3>1. result = [type |-> "INT", value |-> int32(top(opst))]
      BY <2>3 DEF result
    <3> QED BY <1>1, <2>1, <2>2, <2>3, <3>1 DEF Entry, EntryTypes, InRange, IntegerTypes, HalfOf, OperandTags
  <2>4. CASE ins.op = "lreturn"
    <3>1. result = [type |-> "LONG", value |-> stack_to_int(top(opst))]
      BY <2>4 DEF result
    <3> QED BY <1>1, <2>1, <2>2, <2>4, <3>1 DEF Entry, EntryTypes, InRange, IntegerTypes, HalfOf, OperandTags
  <2>5. CASE ins.op = "areturn"
    <3>1. result = [type |-> "REF", value |-> top(opst).value]
      BY <2>5 DEF result
    <3> QED BY <1>1, <2>1, <2>2, <2>5, <3>1 DEF Entry, EntryTypes, InRange, IntegerTypes, HalfOf, OperandTags
  <2> QED BY <1>1, <1>4, <2>3, <2>4, <2>5
<1> QED BY <1>3, <1>4

\* A method from which no value may come returns none.
LEMMA VoidMethods ==
  ASSUME SafeInv, status = "run", callers = <<>> \/ frame.via \in {"clinit", "invokespecial"}
  PROVE  method.ret = "V"
<1>1. Verified(prog) /\ FrameTypeOK(frame)
  BY ProgramVerified, Current DEF ActivationsOK
<1>2. ASSUME frame.meth = "<clinit>"
      PROVE  method.ret = "V"
  BY <1>1, <1>2 DEF Verified, ClassVerified, FrameTypeOK, method, Method, Class
<1>3. CASE callers = <<>>
  <2>1. Called(0) = frame
    <3>1. Len(callers) = 0
      BY <1>3
    <3> QED BY <3>1 DEF Called
  <2>2. CASE frame.meth = MainMethod /\ frame.clazz = prog.main
    BY <1>1, <2>2 DEF Verified, method, Method, Class
  <2> QED BY <1>2, <2>1, <2>2, Current DEF ActivationsOK, BottomOK
<1>4. CASE callers # <<>>
  <2>1. Len(callers) \in Nat /\ Len(callers) >= 1 /\ FrameTypeOK(caller)
    BY <1>4, CallerTyped
  <2>2. Called(Len(callers)) = frame
    BY DEF Called
  <2>3. Calls(caller, frame)
    BY <2>1, <2>2 DEF SafeInv, ClassInv, CallersWait, caller
  <2> DEFINE m == Method(caller.clazz, caller.meth)
             i == m.code[caller.pc]
  <2>4. CASE frame.via = "clinit"
    BY <1>2, <2>3, <2>4 DEF Calls
  <2>5. CASE frame.via = "invokespecial"
    <3>1. i.op = "invokespecial" /\ i.arg.clazz = frame.clazz /\ i.arg.name = frame.meth
      BY <2>3, <2>5 DEF Calls
    <3>2. MethodVerified(m, prog.classes) /\ caller.pc \in DOMAIN m.code
      BY <2>1, MethodsVerified DEF FrameTypeOK
    <3>3. InvokeRule(m, caller.pc, i.op, i.arg, prog.classes)
      BY <3>2 DEF MethodVerified, InstructionRule
    <3> HIDE DEF i, m
    <3> QED BY <3>1, <3>3 DEF InvokeRule, method, Method, Class
  <2> QED BY <1>4, <2>4, <2>5
<1> QED BY <1>3, <1>4

\* The returns keep the invariant.
LEMMA ReturnsSafe ==
  ASSUME SafeInv, ClassInv', returns
  PROVE  SafeInv'
<1>1. Fetch(Returns) /\ status = "run"
  BY ResultTyped DEF returns, wrong_return, return_to_main, return_from_clinit,
                     return_from_special, return_value
<1>2. CASE wrong_return
  BY <1>1, <1>2, ResultTyped, VoidMethods DEF wrong_return
<1>3. CASE return_to_main
  <2>1. HeapsOK'
    BY <1>3, HeapsKept DEF SafeInv, return_to_main
  <2> QED BY <1>3, <2>1 DEF SafeInv, return_to_main
<1>4. ASSUME callers # <<>>
      PROVE  /\ FrameTypeOK(caller) /\ Awaiting(caller, frame)
             /\ caller.op_stack \in Seq(Entry)
             /\ \A i \in 1 .. Len(caller.op_stack) : InRange(caller.op_stack[i])
             /\ Method(frame.clazz, frame.meth) = method
  BY <1>1, <1>4, CallerTyped DEF FrameTypeOK, method
<1>5. CASE return_from_clinit
  <2>1. callers # <<>> /\ frame.via = "clinit" /\ Resume(caller.op_stack, 0)
    BY <1>5 DEF return_from_clinit
  <2>2. Running(caller) /\ caller.pc + 0 = caller.pc
    <3>1. Method(caller.clazz, caller.meth).code = Method(caller.clazz, caller.meth).code
          /\ MethodVerified(Method(caller.clazz, caller.meth), prog.classes)
      BY <1>4, <2>1, MethodsVerified DEF FrameTypeOK
    <3>2. caller.pc \in Nat
      BY <1>4, <2>1, <3>1 DEF FrameTypeOK, MethodVerified
    <3> QED BY <1>4, <2>1, <3>2 DEF Awaiting
  <2> QED BY <1>1, <1>4, <2>1, <2>2, ReturnStep DEF Running, FrameTypeOK
<1>6. CASE return_from_special
  <2>1. callers # <<>> /\ frame.via = "invokespecial" /\ Resume(caller.op_stack, 3)
    BY <1>6 DEF return_from_special
  <2>2. method.ret = "V"
    BY <1>1, <2>1, VoidMethods
  <2> QED BY <1>1, <1>4, <2>1, <2>2, ReturnStep DEF Awaiting
<1>7. CASE return_value
  <2>1. /\ callers # <<>> /\ frame.via # "clinit"
        /\ Resume(IF result.type = "NONE" THEN caller.op_stack
                  ELSE Push(caller.op_stack, result.type, result.value), 3)
    BY <1>7 DEF return_value
  <2>2. CASE method.ret = "V"
    BY <1>1, <1>4, <2>1, <2>2, ResultTyped, ReturnStep DEF Awaiting
  <2>3. CASE method.ret # "V"
    <3>1. PICK e, old, stack :
            /\ e = [type |-> result.type, value |-> result.value] /\ old = caller.op_stack
            /\ stack = Append(old, e)
      OBVIOUS
    <3>2. e \in Entry /\ InRange(e) /\ e.type \in OperandTags(TypeOf(method.ret))
      BY <1>1, <2>3, <3>1, ResultTyped
    <3>3. Resume(stack, 3)
      BY <1>1, <2>1, <2>3, <3>1, ResultTyped DEF Push
    <3>4. /\ old \in Seq(Entry) /\ \A i \in 1 .. Len(old) : InRange(old[i])
      BY <1>4, <2>1, <3>1
    <3>5. /\ stack \in Seq(Entry) /\ Len(stack) = Len(old) + 1 /\ Len(old) \in Nat
          /\ stack[Len(old) + 1] = e /\ \A i \in 1 .. Len(old) : stack[i] = old[i]
      BY <3>1, <3>2, <3>4
    <3>6. \A i \in 1 .. Len(stack) : InRange(stack[i])
      BY <3>2, <3>4, <3>5
    <3>7. PICK stk : stk = TypesAt(caller, caller.pc + 3).stk
      OBVIOUS
    <3>8. /\ caller.pc + 3 \in DOMAIN Method(caller.clazz, caller.meth).code
          /\ LocalsFit(caller.locals, TypesAt(caller, caller.pc + 3).loc)
          /\ Len(stk) = Len(old) + 1 /\ stk[Len(stk)] = TypeOf(method.ret)
          /\ \A i \in 1 .. Len(old) : old[i].type \in OperandTags(stk[i])
      BY <1>4, <2>1, <2>3, <3>1, <3>7 DEF Awaiting
    <3>9. StackFits(stack, stk)
      <4> SUFFICES ASSUME NEW i \in 1 .. Len(stk)
                   PROVE  stack[i].type \in OperandTags(stk[i])
        BY <3>5, <3>8 DEF StackFits
      <4>1. CASE i = Len(old) + 1
        BY <3>2, <3>5, <3>8, <4>1
      <4>2. CASE i \in 1 .. Len(old)
        BY <3>5, <3>8, <4>2
      <4> QED BY <3>5, <3>8, <4>1, <4>2
    <3> QED BY <1>1, <2>1, <3>3, <3>5, <3>6, <3>7, <3>8, <3>9, ReturnStep
  <2> QED BY <2>2, <2>3
<1> QED BY <1>2, <1>3, <1>5, <1>6, <1>7 DEF returns

-----------------------------------------------------------------------------
\* main() enters execute().
LEMMA EnterStep ==
  ASSUME SafeInv, ClassInv', HeapsOK', stage' \in {"natives", "main_clinit", "main"}, callers = <<>>,
         NEW c, NEW name, NEW locals, EntryOK(c, name, locals), Enter(c, name, locals),
         name = "<clinit>" \/ (name = MainMethod /\ c = prog.main)
  PROVE  SafeInv'
<1>1. /\ frame' = Activation(c, name, locals, "main") /\ status' = "run"
      /\ callers' = <<>> /\ prog' = prog
  BY DEF Enter
<1>2. FrameTypeOK(frame)' /\ Running(frame)'
  BY <1>1, EntrySafe
<1>3. Len(callers') = 0
  BY <1>1
<1>4. BottomOK'
  <2>1. Called(0)' = frame'
    BY <1>3 DEF Called
  <2> QED BY <1>1, <2>1 DEF BottomOK, Activation
<1>5. ActivationsOK'
  BY <1>2, <1>3, <1>4 DEF ActivationsOK
<1> QED BY <1>1, <1>5 DEF SafeInv

\* main() runs the initialiser of a class, if it has one.
LEMMA RunClinitStep ==
  ASSUME SafeInv, ClassInv', HeapsOK', stage' \in {"natives", "main_clinit", "main"}, callers = <<>>,
         status = "boot", NEW c \in DOMAIN prog.classes, RunClinit(c)
  PROVE  SafeInv'
<1>1. CASE find_method(c, "<clinit>")
  <2>1. PICK u \in Uninitialised : Enter(c, "<clinit>", Fill(c, "<clinit>", u))
    BY <1>1 DEF RunClinit
  <2> QED BY <1>1, <2>1, ClinitEntry, EnterStep
<1>2. CASE UNCHANGED <<prog, status, frame, callers>>
  BY <1>2 DEF SafeInv
<1> QED BY <1>1, <1>2 DEF RunClinit

\* main(String[]) gets zeroed locals, which do for a null reference.
LEMMA MainEntry ==
  ASSUME SafeInv
  PROVE  /\ find_method(prog.main, MainMethod)
         /\ EntryOK(prog.main, MainMethod, Fill(prog.main, MainMethod, Zeroed))
<1> DEFINE m == Method(prog.main, MainMethod)
<1>1. /\ prog.main \in DOMAIN prog.classes /\ MainMethod \in DOMAIN Class(prog.main).methods
      /\ ~m.native /\ m.static
      /\ \A j \in 1 .. Len(m.params) : m.params[j] = "[L"
      /\ m.params \in Seq(STRING)
  BY ProgramVerified DEF Verified, ClassVerified, Class, Method
<1>2. MethodVerified(m, prog.classes)
  BY <1>1, MethodsVerified
<1>3. EntryLocals(m) /\ m.max_locals \in Nat
  BY <1>2 DEF MethodVerified
<1> HIDE DEF m
<1>4. ASSUME NEW i \in 0 .. m.max_locals - 1
      PROVE  m.code[0].loc[i + 1] \in {"A", "-"}
  <2>1. Len(m.params) \in Nat /\ i \in Nat
    BY <1>1, <1>3
  <2>2. CASE i < Len(m.params)
    <3>1. i + 1 \in 1 .. Len(m.params) /\ Slot(m, i + 1) = i
      BY <1>1, <2>1, <2>2 DEF Slot
    <3>2. m.code[0].loc[i + 1] \in {TypeOf(m.params[i + 1]), "-"}
      BY <1>3, <3>1 DEF EntryLocals
    <3>3. TypeOf(m.params[i + 1]) = "A"
      BY <1>1, <3>1 DEF TypeOf
    <3> QED BY <3>2, <3>3
  <2>3. CASE ~(i < Len(m.params))
    <3>1. i >= Slot(m, Len(m.params) + 1)
      BY <1>1, <2>1, <2>3 DEF Slot
    <3> QED BY <1>3, <3>1 DEF EntryLocals
  <2> QED BY <2>2, <2>3
<1> USE DEF m
<1>5. LocalsFit(Fill(prog.main, MainMethod, Zeroed), m.code[0].loc)
  BY <1>4 DEF LocalsFit, Fill, Zeroed, LocalTags, EntryTypes
<1> QED BY <1>1, <1>5, Fills DEF EntryOK, Fill, find_method

\* The steps of main() keep the invariant.
LEMMA MainSafe ==
  ASSUME SafeInv, ClassInv', main
  PROVE  SafeInv'
<1>1. status = "boot" /\ callers = <<>> /\ IsSequence(class_heap)
  BY DEF main, native_clinit, add_main_class, call_main, shutdown,
         SafeInv, ClassInv, HeapInv, ActivationsInv, InMain
<1>2. CASE native_clinit
  <2>1. class_heap[booted + 1] \in DOMAIN prog.classes
    <3>1. booted \in Nat /\ booted < Len(class_heap) /\ Len(class_heap) \in Nat
      BY <1>1, <1>2 DEF native_clinit, SafeInv, ClassInv, HeapInv, IsSequence
    <3>2. booted + 1 \in 1 .. Len(class_heap)
      BY <3>1
    <3> QED BY <3>2 DEF SafeInv, ClassInv, HeapInv
  <2>2. prog' = prog
    BY <1>2 DEF native_clinit, RunClinit, Enter
  <2>3. HeapsOK'
    BY <1>2, <2>2, HeapsKept DEF native_clinit, SafeInv
  <2> QED BY <1>1, <1>2, <2>1, <2>3, RunClinitStep DEF native_clinit, SafeInv
<1>3. CASE add_main_class
  <2>1. CASE Crash("undefined")
    BY <2>1, CrashSafe DEF Terminal
  <2>2. CASE stage' = "main_clinit" /\ add_class(prog.main) /\ RunClinit(prog.main)
    <3>1. prog' = prog
      BY <2>2 DEF RunClinit, Enter
    <3>2. HeapsOK'
      BY <1>1, <2>2, <3>1, AddClassKeeps DEF SafeInv
    <3>3. prog.main \in DOMAIN prog.classes
      BY ProgramVerified DEF Verified
    <3> QED BY <1>1, <2>2, <3>2, <3>3, RunClinitStep
  <2> QED BY <1>3, <2>1, <2>2 DEF add_main_class
<1>4. CASE call_main
  <2>1. /\ stage' = "main" /\ UNCHANGED heaps
        /\ Enter(prog.main, MainMethod, Fill(prog.main, MainMethod, Zeroed))
    BY <1>4, MainEntry DEF call_main
  <2>2. HeapsOK'
    BY <2>1, HeapsKept DEF Enter, SafeInv
  <2> QED BY <1>1, <2>1, <2>2, MainEntry, EnterStep
<1>5. CASE shutdown
  BY <1>5, CrashSafe DEF shutdown, Terminal
<1> QED BY <1>2, <1>3, <1>4, <1>5 DEF main

\* Every turn of the loop of execute() keeps the invariant.
LEMMA ExecuteSafe ==
  ASSUME SafeInv, ClassInv', execute
  PROVE  SafeInv'
<1>1. CASE pushes
  BY <1>1, ConstantsSafe, LoadsSafe, DupSafe DEF pushes
<1>2. CASE stores
  BY <1>2, StoresSafe, IincSafe DEF stores
<1>3. CASE operators
  BY <1>3, OperatorsSafe
<1>4. CASE branches
  BY <1>4, BranchesSafe
<1>5. CASE arrays
  BY <1>5, NewarraySafe, MultianewarraySafe, IaloadSafe, IastoreSafe, AaloadSafe DEF arrays
<1>6. CASE fields
  BY <1>6, FieldsSafe
<1>7. CASE load_class
  BY <1>7, LoadClassSafe
<1>8. CASE new
  BY <1>8, NewSafe
<1>9. CASE invokes
  BY <1>9, InvokesSafe
<1>10. CASE returns
  BY <1>10, ReturnsSafe
<1>11. CASE no_case
  BY <1>11, StutterSafe DEF no_case
<1>12. CASE no_return
  BY <1>12, CrashSafe DEF no_return, Terminal
<1> QED BY <1>1, <1>2, <1>3, <1>4, <1>5, <1>6, <1>7, <1>8, <1>9, <1>10, <1>11, <1>12 DEF execute

\* Every step keeps the invariant.
LEMMA NextSafe ==
  ASSUME SafeInv, [Next]_vars
  PROVE  SafeInv'
<1>1. ClassInv'
  BY NextInv DEF SafeInv
<1>2. CASE main
  BY <1>1, <1>2, MainSafe
<1>3. CASE execute
  BY <1>1, <1>3, ExecuteSafe
<1>4. CASE UNCHANGED vars
  BY <1>1, <1>4, StutterSafe
<1> QED BY <1>2, <1>3, <1>4 DEF Next, ended

\* The invariant holds when main() has loaded the native classes.
LEMMA InitSafe ==
  ASSUME Init
  PROVE  SafeInv
<1>1. ClassInv
  BY InitInv
<1>2. PICK junk \in Junk : statics = [c \in prog.natives |-> [f \in DOMAIN Class(c).fields |-> junk]]
  BY DEF Init
<1>3. junk \in Int
  BY WorldAssumption
<1>4. \A i \in 1 .. Len(class_heap) : class_heap[i] \in prog.natives
  BY <1>1 DEF ClassInv, HeapInv, Init
<1>5. memory = <<>> /\ Len(memory) = 0 /\ IsSequence(memory)
  <2>1. memory = <<>>
    BY DEF Init
  <2> QED BY <2>1 DEF IsSequence, Elements
<1>6. HeapsOK
  BY <1>2, <1>3, <1>4, <1>5 DEF HeapsOK
<1>7. status = "boot" /\ stage = "natives"
  BY DEF Init
<1> QED BY <1>1, <1>6, <1>7 DEF SafeInv

\* The whole argument: SafeInv is inductive.
THEOREM SafeInvariant == Spec => []SafeInv
<1>1. Init => SafeInv
  BY InitSafe
<1>2. SafeInv /\ [Next]_vars => SafeInv'
  BY NextSafe
<1> QED BY <1>1, <1>2, PTL DEF Spec

\* TypeOK of TypeSafety: every variable keeps to what the C declarations allow.
THEOREM TypeOKHolds == Spec => []TypeOK
<1>1. SafeInv => TypeOK
  BY SafeInvImplies
<1> QED BY <1>1, SafeInvariant, PTL

\* OperandsTyped of TypeSafety: no handler finds an operand of another type than
\* the one its instruction is compiled for.
THEOREM OperandsTypedHolds == Spec => []OperandsTyped
<1>1. SafeInv => OperandsTyped
  BY SafeInvImplies
<1> QED BY <1>1, SafeInvariant, PTL

\* NoAssertionFails of TypeSafety: the assertions about return values are never
\* false, and no unsupported constant is met.
THEOREM NoAssertionFailsHolds == Spec => []NoAssertionFails
<1>1. SafeInv => NoAssertionFails
  BY SafeInvImplies
<1> QED BY <1>1, SafeInvariant, PTL

\* The verifier keeps its stacks to max_stack.
LEMMA FitsInBounds ==
  ASSUME SafeInv, NEW f, FrameTypeOK(f), NEW pc \in DOMAIN Method(f.clazz, f.meth).code
  PROVE  /\ Len(TypesAt(f, pc).stk) \in Nat
         /\ Method(f.clazz, f.meth).max_stack \in Nat
         /\ Len(TypesAt(f, pc).stk) <= Method(f.clazz, f.meth).max_stack
<1>1. MethodVerified(Method(f.clazz, f.meth), prog.classes)
  BY MethodsVerified DEF FrameTypeOK
<1>2. TypesAt(f, pc).stk \in Seq(VTypes)
  BY <1>1 DEF MethodVerified, TypesAt
<1> QED BY <1>1, <1>2 DEF MethodVerified, TypesAt

\* What fits the verifier's stacks keeps to max_stack.
LEMMA BoundsFollow ==
  ASSUME SafeInv
  PROVE  StackInBounds
<1> SUFFICES ASSUME status = "run"
             PROVE  StackInBounds
  BY DEF StackInBounds
<1>1. ActivationsOK
  BY DEF SafeInv
<1>2. Len(frame.op_stack) <= Method(frame.clazz, frame.meth).max_stack
  <2>1. Len(frame.op_stack) = Len(TypesAt(frame, frame.pc).stk) /\ frame.pc \in DOMAIN Method(frame.clazz, frame.meth).code
    BY <1>1 DEF ActivationsOK, FrameTypeOK, Running, StackFits
  <2> QED BY <1>1, <2>1, FitsInBounds DEF ActivationsOK
<1>3. ASSUME NEW i \in 1 .. Len(callers), NEW g, g = Called(i)
      PROVE  Len(callers[i].op_stack)
               + (IF g.via # "clinit" /\ Method(g.clazz, g.meth).ret # "V" THEN 1 ELSE 0)
             <= Method(callers[i].clazz, callers[i].meth).max_stack
  <2>1. PICK f : f = callers[i]
    OBVIOUS
  <2>2. FrameTypeOK(f) /\ Awaiting(f, g)
    BY <1>1, <1>3, <2>1 DEF ActivationsOK, SuspendedOK
  <2>3. Len(f.op_stack) \in Nat
    BY <2>2 DEF FrameTypeOK
  <2>4. CASE g.via = "clinit"
    <3>1. Len(f.op_stack) = Len(TypesAt(f, f.pc).stk) /\ f.pc \in DOMAIN Method(f.clazz, f.meth).code
      BY <2>2, <2>4 DEF Awaiting, FrameTypeOK, Running, StackFits
    <3>2. Len(f.op_stack) <= Method(f.clazz, f.meth).max_stack
      BY <2>2, <3>1, FitsInBounds
    <3> QED BY <2>1, <2>3, <2>4, <3>2
  <2>5. CASE g.via # "clinit"
    <3>1. f.pc + 3 \in DOMAIN Method(f.clazz, f.meth).code
      BY <2>2, <2>5 DEF Awaiting
    <3>2. /\ Len(TypesAt(f, f.pc + 3).stk) \in Nat
          /\ Len(TypesAt(f, f.pc + 3).stk) <= Method(f.clazz, f.meth).max_stack
      BY <2>2, <3>1, FitsInBounds
    <3>3. Len(TypesAt(f, f.pc + 3).stk)
            = Len(f.op_stack) + (IF Method(g.clazz, g.meth).ret # "V" THEN 1 ELSE 0)
      <4>1. CASE Method(g.clazz, g.meth).ret = "V"
        BY <2>2, <2>3, <2>5, <4>1 DEF Awaiting, StackFits
      <4>2. CASE Method(g.clazz, g.meth).ret # "V"
        BY <2>2, <2>5, <4>2 DEF Awaiting
      <4> QED BY <4>1, <4>2
    <3> QED BY <2>1, <2>5, <3>2, <3>3
  <2> QED BY <2>4, <2>5
<1> QED BY <1>2, <1>3 DEF StackInBounds

\* StackInBounds of TypeSafety: no push leaves the max_stack entries allocated.
THEOREM StackInBoundsHolds == Spec => []StackInBounds
<1>1. SafeInv => StackInBounds
  BY BoundsFollow
<1> QED BY <1>1, SafeInvariant, PTL
=============================================================================

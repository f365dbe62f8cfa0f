----------------------------- MODULE JavaProofs -----------------------------
(***************************************************************************)
(* The interpreter implements JavaMachine as long as it stays on the common*)
(* ground of JavaRefinement.                                               *)
(***************************************************************************)
EXTENDS JavaRefinement, HeapSafetyProofs

USE DEF heaps, control

-----------------------------------------------------------------------------
\* Numbers.  The conversion of a number that fits keeps it.
LEMMA SignedSame ==
  ASSUME NEW half \in Nat \ {0}, NEW v \in SignedRange(half)
  PROVE  Signed(v, half) = v /\ v \in Int
<1>1. v \in Int /\ v + half \in 0 .. 2 * half - 1
  BY DEF SignedRange
<1>2. (v + half) % (2 * half) = v + half
  BY <1>1
<1> QED BY <1>1, <1>2 DEF Signed

\* A conversion to a narrower type and then to a wider one is the narrower one.
LEMMA SignedWider ==
  ASSUME NEW half \in Nat \ {0}, NEW more \in Nat \ {0}, half <= more, NEW v \in Int
  PROVE  Signed(Signed(v, half), more) = Signed(v, half)
<1>1. PICK w : w = Signed(v, half)
  OBVIOUS
<1>2. w \in SignedRange(half)
  BY <1>1, SignedInRange
<1>3. w \in SignedRange(more)
  BY <1>2 DEF SignedRange
<1> QED BY <1>1, <1>3, SignedSame

\* Quotient and remainder are unique.
LEMMA RemainderIs ==
  ASSUME NEW n \in Nat \ {0}, NEW q \in Int, NEW r \in 0 .. n - 1, NEW x \in Int, x = q * n + r
  PROVE  x % n = r
<1>1. PICK t \in Int, s \in 0 .. n - 1 : t = x \div n /\ s = x % n
  OBVIOUS
<1>2. x = t * n + s
  BY <1>1
<1>3. PICK d \in Int : d = q - t
  OBVIOUS
<1>4. q * n = d * n + t * n
  BY <1>3
<1>5. d * n = s - r
  <2>1. PICK u \in Int, v \in Int, w \in Int : u = q * n /\ v = t * n /\ w = d * n
    OBVIOUS
  <2> QED BY <2>1, <1>2, <1>4
<1>6. ~(d >= 1)
  <2> SUFFICES ASSUME d >= 1 PROVE FALSE
    OBVIOUS
  <2>1. (d - 1) * n >= 0
    OBVIOUS
  <2>2. (d - 1) * n = d * n - n
    OBVIOUS
  <2>3. PICK w \in Int : w = d * n
    OBVIOUS
  <2> QED BY <2>1, <2>2, <2>3, <1>5
<1>7. ~(d <= -1)
  <2> SUFFICES ASSUME d <= -1 PROVE FALSE
    OBVIOUS
  <2>1. (-1 - d) * n >= 0
    OBVIOUS
  <2>2. (-1 - d) * n = -n - d * n
    OBVIOUS
  <2>3. PICK w \in Int : w = d * n
    OBVIOUS
  <2> QED BY <2>1, <2>2, <2>3, <1>5
<1>8. d = 0
  BY <1>6, <1>7
<1> QED BY <1>1, <1>5, <1>8

\* Division with a remainder.
LEMMA Divided ==
  ASSUME NEW n \in Nat \ {0}, NEW x \in Int
  PROVE  /\ x \div n \in Int /\ x % n \in Int
         /\ x = (x \div n) * n + (x % n)
OBVIOUS

\* A conversion moves a number by multiples of the range.
LEMMA SignedMoves ==
  ASSUME NEW half \in Nat \ {0}, NEW v \in Int
  PROVE  /\ Signed(v, half) \in Int
         /\ \E k \in Int : Signed(v, half) = v + k * (2 * half)
<1>1. PICK n \in Nat \ {0} : n = 2 * half
  OBVIOUS
<1>2. PICK a \in Int : a = v + half
  OBVIOUS
<1>3. PICK q \in Int, r \in Int : q = a \div n /\ r = a % n /\ a = q * n + r
  BY Divided
<1>4. Signed(v, half) = r - half
  BY <1>1, <1>2, <1>3 DEF Signed
<1>5. PICK k \in Int : k = -q
  OBVIOUS
<1>6. k * n = -(q * n)
  BY <1>5
<1>7. PICK b \in Int, c \in Int : b = q * n /\ c = k * n
  OBVIOUS
<1>8. r - half = v + c
  BY <1>2, <1>3, <1>6, <1>7
<1> QED BY <1>1, <1>4, <1>7, <1>8

\* Multiples of the word do not count.
LEMMA SignedShifted ==
  ASSUME NEW half \in Nat \ {0}, NEW v \in Int, NEW k \in Int
  PROVE  Signed(v + k * (2 * half), half) = Signed(v, half)
<1>1. PICK n \in Nat \ {0} : n = 2 * half
  OBVIOUS
<1>2. ASSUME NEW a \in Int
      PROVE  (a + k * n) % n = a % n
  <2>1. PICK q \in Int : q = a \div n
    OBVIOUS
  <2>2. a = q * n + (a % n) /\ a % n \in 0 .. n - 1
    BY <2>1
  <2>3. PICK r \in 0 .. n - 1 : r = a % n
    BY <2>2
  <2>4. a + k * n = (q + k) * n + r
    BY <2>2, <2>3
  <2>5. PICK x \in Int, t \in Int : x = a + k * n /\ t = q + k
    OBVIOUS
  <2>6. x = t * n + r
    BY <2>4, <2>5
  <2>7. x % n = r
    BY <2>6, RemainderIs
  <2> QED BY <2>3, <2>5, <2>7
<1>3. (v + half + k * n) % n = (v + half) % n
  <2>1. PICK a \in Int : a = v + half
    OBVIOUS
  <2>2. (a + k * n) % n = a % n
    BY <1>2
  <2> QED BY <2>1, <2>2
<1>4. v + k * n + half = v + half + k * n
  OBVIOUS
<1> QED BY <1>1, <1>3, <1>4 DEF Signed

-----------------------------------------------------------------------------
\* Entries.  What an operand's type can see of it is the number its tag keeps.
LEMMA SeenOperand ==
  ASSUME NEW e \in Entry, InRange(e), NEW t \in VTypes, e.type \in OperandTags(t)
  PROVE  /\ Seen(e, t) = e.value /\ e.value \in Int
         /\ t = "I" => int32(e) = e.value /\ stack_to_int(e) = e.value
                       /\ e.value \in SignedRange(IntHalf)
         /\ t = "J" => stack_to_int(e) = e.value /\ e.value \in SignedRange(LongHalf)
<1>1. PICK v \in Int : v = e.value
  BY DEF Entry
<1>2. CASE t = "A"
  BY <1>1, <1>2 DEF Seen
<1>3. CASE t = "J"
  <2>1. e.type = "LONG" /\ v \in SignedRange(LongHalf)
    BY <1>1, <1>3 DEF OperandTags, InRange, IntegerTypes, HalfOf
  <2>2. Signed(v, LongHalf) = v
    BY <2>1, Widths, SignedSame
  <2> QED BY <1>1, <1>3, <2>1, <2>2 DEF Seen, stack_to_int, HalfOf
<1>4. CASE t = "I"
  <2>1. PICK half \in Nat \ {0} : half = HalfOf(e.type) /\ half <= IntHalf /\ v \in SignedRange(half)
    BY <1>1, <1>4, WidthsAssumption DEF OperandTags, InRange, IntegerTypes, HalfOf
  <2>2. v \in SignedRange(IntHalf)
    BY <2>1, Widths DEF SignedRange
  <2>3. Signed(v, half) = v /\ Signed(v, IntHalf) = v
    BY <2>1, <2>2, Widths, SignedSame
  <2> QED BY <1>1, <1>4, <2>1, <2>2, <2>3 DEF Seen, stack_to_int, int32
<1> QED BY <1>2, <1>3, <1>4 DEF VTypes

\* Operand stacks.
Values(stack) == [i \in 1 .. Len(stack) |-> stack[i].value]

LEMMA SeenStackIs ==
  ASSUME NEW stack \in Seq(Entry), NEW stk \in Seq(VTypes), Len(stack) <= Len(stk),
         \A i \in 1 .. Len(stack) : InRange(stack[i]) /\ stack[i].type \in OperandTags(stk[i])
  PROVE  SeenStack(stack, stk) = Values(stack)
<1>1. Len(stack) \in Nat /\ Len(stk) \in Nat
  OBVIOUS
<1>2. ASSUME NEW i \in 1 .. Len(stack)
      PROVE  Seen(stack[i], stk[i]) = stack[i].value
  <2>1. i \in 1 .. Len(stk)
    BY <1>1
  <2>2. stack[i] \in Entry /\ stk[i] \in VTypes
    BY <2>1
  <2> QED BY <2>2, SeenOperand
<1> QED BY <1>2 DEF SeenStack, Values

LEMMA ValuesOf ==
  ASSUME NEW stack \in Seq(Entry)
  PROVE  /\ Values(stack) \in Seq(Int) /\ Len(Values(stack)) = Len(stack) /\ Len(stack) \in Nat
         /\ \A e \in Entry : Values(Append(stack, e)) = Append(Values(stack), e.value)
         /\ \A n \in 0 .. Len(stack) :
              Values(drop(stack, n)) = SubSeq(Values(stack), 1, Len(stack) - n)
         /\ \A n \in 0 .. Len(stack) - 1 : Values(stack)[Len(stack) - n] = peek(stack, n).value
<1>1. PICK n \in Nat : n = Len(stack)
  OBVIOUS
<1>2. \A i \in 1 .. n : stack[i] \in Entry /\ stack[i].value \in Int
  <2>1. \A i \in 1 .. n : stack[i] \in Entry
    BY <1>1
  <2> QED BY <2>1 DEF Entry
<1>3. Values(stack) \in Seq(Int) /\ Len(Values(stack)) = n
  BY <1>1, <1>2 DEF Values
<1>4. ASSUME NEW e \in Entry
      PROVE  Values(Append(stack, e)) = Append(Values(stack), e.value)
  <2>1. /\ Append(stack, e) \in Seq(Entry) /\ Len(Append(stack, e)) = n + 1
        /\ \A i \in 1 .. n : Append(stack, e)[i] = stack[i]
        /\ Append(stack, e)[n + 1] = e
    BY <1>1
  <2>2. e.value \in Int
    BY DEF Entry
  <2>3. PICK w : w = Values(stack)
    OBVIOUS
  <2>4. /\ w \in Seq(Int) /\ Len(w) = n /\ \A i \in 1 .. n : w[i] = stack[i].value
    BY <1>1, <1>3, <2>3 DEF Values
  <2>5. Append(w, e.value) = [i \in 1 .. n + 1 |-> IF i = n + 1 THEN e.value ELSE w[i]]
    BY <2>2, <2>4
  <2>6. Values(Append(stack, e)) = [i \in 1 .. n + 1 |-> IF i = n + 1 THEN e.value ELSE stack[i].value]
    BY <2>1 DEF Values
  <2> QED BY <2>3, <2>4, <2>5, <2>6
<1>5. ASSUME NEW k \in 0 .. n
      PROVE  Values(drop(stack, k)) = SubSeq(Values(stack), 1, n - k)
  <2>1. /\ Len(drop(stack, k)) = n - k
        /\ \A i \in 1 .. n - k : drop(stack, k)[i] = stack[i]
    BY <1>1 DEF drop
  <2>2. PICK w : w = Values(stack)
    OBVIOUS
  <2>3. /\ w \in Seq(Int) /\ Len(w) = n /\ \A i \in 1 .. n : w[i] = stack[i].value
    BY <1>1, <1>3, <2>2 DEF Values
  <2>4. SubSeq(w, 1, n - k) = [i \in 1 .. n - k |-> w[i]]
    BY <2>3
  <2>5. Values(drop(stack, k)) = [i \in 1 .. n - k |-> stack[i].value]
    BY <2>1 DEF Values
  <2> QED BY <2>2, <2>3, <2>4, <2>5
<1>6. \A k \in 0 .. n - 1 : Values(stack)[n - k] = peek(stack, k).value
  BY <1>1 DEF Values, peek
<1> QED BY <1>1, <1>3, <1>4, <1>5, <1>6

-----------------------------------------------------------------------------
\* The activations Java sees.
Suspends == [i \in 1 .. Len(callers) |-> JavaFrame(callers[i])]

\* While execute() runs there is an activation.
LEMMA Active ==
  ASSUME SafeInv, status = "run"
  PROVE  frame # Idle /\ IsSequence(callers) /\ Len(callers) \in Nat
<1>1. Known(frame)
  BY Current
<1>2. ASSUME frame = Idle
      PROVE  FALSE
  <2>1. frame.meth = "none" /\ frame.via = "main"
    BY <1>2 DEF Idle, Activation
  <2>2. "none" # "<clinit>" /\ "none" # MainMethod
    BY DEF MainMethod
  <2> QED BY <1>1, <2>1, <2>2 DEF Known
<1>3. IsSequence(callers)
  BY DEF SafeInv, ClassInv, ActivationsInv
<1>4. Len(callers) \in Nat
  BY <1>3 DEF IsSequence
<1> QED BY <1>2, <1>3, <1>4

LEMMA FramesAre ==
  ASSUME SafeInv, status = "run"
  PROVE  /\ JavaFrames = Append(Suspends, JavaFrame(frame))
         /\ JavaFrames # <<>> /\ Len(JavaFrames) = Len(callers) + 1
         /\ Java!running = JavaFrame(frame) /\ Java!Suspended = Suspends
<1>1. PICK n \in Nat : n = Len(callers)
  BY Active
<1>2. \A i \in 1 .. n : Called(i - 1) = callers[i]
  BY <1>1 DEF Called
<1>3. Called(n) = frame
  BY <1>1 DEF Called
<1>4. PICK f : f = JavaFrame(frame)
  OBVIOUS
<1>5. JavaFrames = [i \in 1 .. n + 1 |-> JavaFrame(Called(i - 1))]
  BY <1>1, Active DEF JavaFrames
<1>6. \A i \in 1 .. n + 1 : JavaFrames[i] = IF i = n + 1 THEN f ELSE Suspends[i]
  BY <1>1, <1>2, <1>3, <1>4, <1>5 DEF Suspends
<1>7. PICK s : s = Suspends
  OBVIOUS
<1>8. PICK t : t = JavaFrames
  OBVIOUS
<1>9. t = [i \in 1 .. n + 1 |-> IF i = n + 1 THEN f ELSE s[i]]
  BY <1>5, <1>6, <1>7, <1>8
<1>10. s = [i \in 1 .. n |-> s[i]]
  BY <1>1, <1>7 DEF Suspends
<1>11. /\ t = Append(s, f) /\ t # <<>> /\ Len(t) = n + 1 /\ t[Len(t)] = f
       /\ SubSeq(t, 1, Len(t) - 1) = s
  BY <1>9, <1>10
<1> QED BY <1>1, <1>4, <1>7, <1>8, <1>11 DEF Java!running, Java!Suspended

LEMMA FramesAlways ==
  [](SafeInv /\ status = "run" => JavaFrames = Append(Suspends, JavaFrame(frame)))
<1> SafeInv /\ status = "run" => JavaFrames = Append(Suspends, JavaFrame(frame))
  BY FramesAre
<1> QED BY PTL

LEMMA FramesNext ==
  ASSUME SafeInv', (status = "run")'
  PROVE  JavaFrames' = Append(Suspends', JavaFrame(frame)')
<1>1. [](SafeInv /\ status = "run" => JavaFrames = Append(Suspends, JavaFrame(frame)))
  BY FramesAlways
<1>2. (JavaFrames = Append(Suspends, JavaFrame(frame)))'
  BY <1>1, PTL
<1> QED BY <1>2

\* The instruction that runs, and what it can use, as Java has them.
LEMMA JavaHere ==
  ASSUME SafeInv, status = "run"
  PROVE  /\ Java!running = JavaFrame(frame)
         /\ Java!running.clazz = frame.clazz /\ Java!running.meth = frame.meth
         /\ Java!running.pc = frame.pc
         /\ Java!method = method /\ Java!ins = ins /\ ins = rule
         /\ Java!stack = Values(opst)
         /\ Java!running.vars = SeenVars(frame.locals, rule.loc)
         /\ \A ops : Java!Is(ops) <=> ins.op \in ops
<1>1. Java!running = JavaFrame(frame) /\ JavaFrames # <<>>
  BY FramesAre
<1>2. /\ ins = rule /\ Stacked(opst, rule.stk) /\ rule.stk \in Seq(VTypes)
      /\ TypesAt(frame, frame.pc) = rule
  BY Current DEF TypesAt, rule, method
<1>3. SeenStack(opst, rule.stk) = Values(opst)
  <2>1. /\ opst \in Seq(Entry) /\ Len(opst) = Len(rule.stk) /\ Len(opst) \in Nat
        /\ \A i \in 1 .. Len(opst) : InRange(opst[i]) /\ opst[i].type \in OperandTags(rule.stk[i])
    BY <1>2 DEF Stacked, StackFits
  <2> QED BY <1>2, <2>1, SeenStackIs
<1>4. /\ Java!running.clazz = frame.clazz /\ Java!running.meth = frame.meth
      /\ Java!running.pc = frame.pc /\ Java!running.stack = Values(opst)
      /\ Java!running.vars = SeenVars(frame.locals, rule.loc)
  BY <1>1, <1>2, <1>3 DEF JavaFrame, opst
<1>5. Java!method = method /\ Java!ins = ins
  BY <1>2, <1>4 DEF Java!method, Java!MethodsOf, Java!ins, method, rule, Method, Class
<1>6. JavaOutcome \in {"starting", "running"}
  BY DEF JavaOutcome, Terminal
<1> QED BY <1>1, <1>2, <1>4, <1>5, <1>6 DEF Java!stack, Java!Is

\* The operands as Java has them, and what is below them.
LEMMA JavaOperands ==
  ASSUME SafeInv, status = "run"
  PROVE  /\ Len(Java!stack) = Len(opst) /\ Len(opst) = Len(rule.stk) /\ Len(opst) \in Nat
         /\ opst \in Seq(Entry)
         /\ \A n \in 0 .. Len(opst) : /\ Java!Below(n) = Values(drop(opst, n))
                                      /\ drop(opst, n) \in Seq(Entry)
         /\ \A n \in 0 .. Len(opst) - 1 : Java!operand(n) = peek(opst, n).value
<1>1. opst \in Seq(Entry) /\ Len(opst) = Len(rule.stk) /\ Java!stack = Values(opst)
  BY Current, JavaHere DEF Stacked, StackFits
<1>2. /\ Values(opst) \in Seq(Int) /\ Len(Values(opst)) = Len(opst) /\ Len(opst) \in Nat
      /\ \A n \in 0 .. Len(opst) : Values(drop(opst, n)) = SubSeq(Values(opst), 1, Len(opst) - n)
      /\ \A n \in 0 .. Len(opst) - 1 : Values(opst)[Len(opst) - n] = peek(opst, n).value
  BY <1>1, ValuesOf
<1>3. \A n \in 0 .. Len(opst) : drop(opst, n) \in Seq(Entry)
  BY <1>1, <1>2 DEF drop
<1> QED BY <1>1, <1>2, <1>3 DEF Java!Below, Java!operand

\* Integers and longs, read as the handlers read them.
LEMMA JavaNumbers ==
  ASSUME SafeInv, status = "run", NEW n \in Nat, n < Len(rule.stk)
  PROVE  /\ Java!operand(n) = peek(opst, n).value /\ Java!operand(n) \in Int
         /\ peek(rule.stk, n) = "I" => /\ Java!operand(n) = int32(peek(opst, n))
                                       /\ Java!operand(n) = stack_to_int(peek(opst, n))
                                       /\ Java!operand(n) \in SignedRange(IntHalf)
         /\ peek(rule.stk, n) = "J" => /\ Java!operand(n) = stack_to_int(peek(opst, n))
                                       /\ Java!operand(n) \in SignedRange(LongHalf)
<1>1. Stacked(opst, rule.stk) /\ rule.stk \in Seq(VTypes) /\ Len(rule.stk) \in Nat
  BY Current
<1>2. PICK e, t : e = peek(opst, n) /\ t = peek(rule.stk, n)
  OBVIOUS
<1>3. e \in Entry /\ InRange(e) /\ t \in VTypes /\ e.type \in OperandTags(t)
  BY <1>1, <1>2, PeekFits
<1>4. Java!operand(n) = e.value
  BY <1>1, <1>2, JavaOperands
<1> QED BY <1>2, <1>3, <1>4, SeenOperand

-----------------------------------------------------------------------------
\* Steps inside an activation.
LEMMA BegunKept ==
  ASSUME UNCHANGED <<prog, stage, booted, class_heap>>, DOMAIN statics' = DOMAIN statics
  PROVE  Begun' = Begun
BY DEF Begun, Waiting, find_method, Class

LEMMA SuspendsKept ==
  ASSUME UNCHANGED <<prog, callers>>
  PROVE  Suspends' = Suspends
BY DEF Suspends, JavaFrame, TypesAt, Method, Class

\* The activation goes on with the operands and the variables its next
\* instruction can use.
LEMMA ContinueIs ==
  ASSUME SafeInv, SafeInv', status = "run", UNCHANGED <<prog, status, stage, booted, callers, class_heap>>,
         DOMAIN statics' = DOMAIN statics, frame'.clazz = frame.clazz, frame'.meth = frame.meth,
         NEW variables,
         \A i \in 0 .. method.max_locals - 1 : method.code[frame'.pc].loc[i + 1] # "-" =>
           variables[i] = Seen(frame'.locals[i], method.code[frame'.pc].loc[i + 1])
  PROVE  Java!Continue(Values(frame'.op_stack), variables, frame'.pc)
<1>1. PICK f : f = frame'
  OBVIOUS
<1>2. PICK t : t = method.code[f.pc]
  OBVIOUS
<1>3. /\ f.clazz = frame.clazz /\ f.meth = frame.meth /\ TypesAt(f, f.pc) = t
      /\ Java!MethodsOf(frame.clazz)[frame.meth] = method
  BY <1>1, <1>2 DEF TypesAt, method, Method, Class, Java!MethodsOf
<1>4. /\ method.code[f.pc].stk \in Seq(VTypes) /\ Stacked(f.op_stack, t.stk)
      /\ f.locals \in [0 .. method.max_locals - 1 -> Entry]
  <2>1. (FrameTypeOK(frame) /\ Running(frame))'
    BY DEF SafeInv, ActivationsOK
  <2>2. FrameTypeOK(f) /\ Running(f)
    BY <1>1, <2>1 DEF FrameTypeOK, Running, TypesAt, Method, Class
  <2>3. MethodVerified(method, prog.classes)
    BY Current
  <2>4. f.pc \in DOMAIN method.code
    BY <1>3, <2>2 DEF FrameTypeOK, method
  <2> QED BY <1>2, <1>3, <2>2, <2>3, <2>4 DEF FrameTypeOK, Running, Stacked, method, MethodVerified
<1>5. SeenStack(f.op_stack, t.stk) = Values(f.op_stack)
  <2>1. /\ f.op_stack \in Seq(Entry) /\ Len(f.op_stack) = Len(t.stk) /\ Len(f.op_stack) \in Nat
        /\ \A i \in 1 .. Len(f.op_stack) :
             InRange(f.op_stack[i]) /\ f.op_stack[i].type \in OperandTags(t.stk[i])
    BY <1>4 DEF Stacked, StackFits
  <2>2. PICK stack, stk : stack = f.op_stack /\ stk = t.stk
    OBVIOUS
  <2>3. stk \in Seq(VTypes) /\ stack \in Seq(Entry) /\ Len(stack) <= Len(stk)
    BY <1>2, <1>4, <2>1, <2>2
  <2>4. \A i \in 1 .. Len(stack) : InRange(stack[i]) /\ stack[i].type \in OperandTags(stk[i])
    BY <2>1, <2>2
  <2>5. SeenStack(stack, stk) = Values(stack)
    BY <2>3, <2>4, SeenStackIs
  <2> QED BY <2>2, <2>5
<1>6. /\ DOMAIN f.locals = 0 .. method.max_locals - 1
      /\ {i \in DOMAIN f.locals : t.loc[i + 1] # "-"} = Java!Usable(method, f.pc)
  BY <1>2, <1>4 DEF Java!Usable
<1>7. SeenVars(f.locals, t.loc) = [i \in Java!Usable(method, f.pc) |-> variables[i]]
  BY <1>1, <1>2, <1>6 DEF SeenVars, Java!Usable
<1>8. JavaFrame(f) = Java!Frame(frame.clazz, frame.meth, f.pc, Values(f.op_stack), variables)
  BY <1>3, <1>5, <1>7 DEF JavaFrame, Java!Frame
<1>9. JavaFrames' = Append(Java!Suspended, JavaFrame(f))
  <2>1. JavaFrame(frame)' = JavaFrame(f)
    BY <1>1 DEF JavaFrame, TypesAt, Method, Class
  <2>2. JavaFrames' = Append(Suspends', JavaFrame(frame)')
    BY FramesNext
  <2> QED BY <2>1, <2>2, FramesAre, SuspendsKept
<1>10. Java!running.clazz = frame.clazz /\ Java!running.meth = frame.meth
  BY JavaHere
<1>11. UNCHANGED <<prog, JavaOutcome, Begun>>
  BY BegunKept DEF JavaOutcome
<1> QED BY <1>1, <1>8, <1>9, <1>10, <1>11 DEF Java!Continue

\* A handler that leaves a stack and a pc, and no variable.
LEMMA GotoIs ==
  ASSUME SafeInv, SafeInv', status = "run", NEW stack, NEW pc, Goto(stack, pc),
         UNCHANGED <<class_heap, class_names>>, DOMAIN statics' = DOMAIN statics,
         NEW stk, Flows(method, pc, stk, rule.loc)
  PROVE  Java!Continue(Values(stack), Java!running.vars, pc)
<1>1. IsActivation(frame) /\ frame.locals \in [0 .. method.max_locals - 1 -> Entry]
  BY Current
<1>2. /\ frame'.op_stack = stack /\ frame'.pc = pc /\ frame'.locals = frame.locals
      /\ frame'.clazz = frame.clazz /\ frame'.meth = frame.meth
  BY <1>1 DEF Goto, IsActivation
<1>3. Java!running.vars = SeenVars(frame.locals, rule.loc)
  BY JavaHere
<1>4. ASSUME NEW i \in 0 .. method.max_locals - 1, method.code[pc].loc[i + 1] # "-"
      PROVE  Java!running.vars[i] = Seen(frame.locals[i], method.code[pc].loc[i + 1])
  <2>1. method.code[pc].loc[i + 1] = rule.loc[i + 1]
    BY <1>4 DEF Flows
  <2>2. i \in DOMAIN frame.locals
    BY <1>1
  <2> QED BY <1>3, <1>4, <2>1, <2>2 DEF SeenVars
<1>5. Java!Continue(Values(frame'.op_stack), Java!running.vars, frame'.pc)
  <2>1. PICK vs : vs = Java!running.vars
    OBVIOUS
  <2>2. \A i \in 0 .. method.max_locals - 1 : method.code[frame'.pc].loc[i + 1] # "-" =>
           vs[i] = Seen(frame'.locals[i], method.code[frame'.pc].loc[i + 1])
    BY <1>2, <1>4, <2>1
  <2>3. Java!Continue(Values(frame'.op_stack), vs, frame'.pc)
    BY <1>2, <2>2, ContinueIs DEF Goto
  <2> QED BY <2>1, <2>3
<1> QED BY <1>2, <1>5

\* The handlers that push or pop.
LEMMA YieldIs ==
  ASSUME SafeInv, SafeInv', status = "run", NEW stack, NEW len, Goto(stack, frame.pc + len),
         UNCHANGED <<class_heap, class_names>>, DOMAIN statics' = DOMAIN statics, len = Java!Size,
         \/ \E n, t : Pushes(method, frame.pc, len, n, t)
         \/ \E n : Pops(method, frame.pc, frame.pc + len, n)
         \/ \E stk : Flows(method, frame.pc + len, stk, rule.loc)
  PROVE  Java!Yield(Values(stack))
<1>1. \E stk : Flows(method, frame.pc + len, stk, rule.loc)
  BY DEF Pushes, Pops, rule
<1>2. Java!Continue(Values(stack), Java!running.vars, frame.pc + len)
  BY <1>1, GotoIs
<1> QED BY <1>2, JavaHere DEF Java!Yield, Java!Following

LEMMA AdvanceIs ==
  ASSUME SafeInv, SafeInv', status = "run", NEW stack, NEW len, Advance(stack, len), len = Java!Size,
         \/ \E n, t : Pushes(method, frame.pc, len, n, t)
         \/ \E n : Pops(method, frame.pc, frame.pc + len, n)
         \/ \E stk : Flows(method, frame.pc + len, stk, rule.loc)
  PROVE  Java!Yield(Values(stack)) /\ UNCHANGED <<statics, JavaHeap>>
<1>1. /\ Goto(stack, frame.pc + len) /\ UNCHANGED <<class_heap, class_names>> /\ DOMAIN statics' = DOMAIN statics
      /\ UNCHANGED <<statics, memory>>
  BY DEF Advance
<1>2. Java!Yield(Values(stack))
  BY <1>1, YieldIs
<1> QED BY <1>1, <1>2 DEF JavaHeap

\* What the push operations push.
LEMMA PushedValues ==
  ASSUME NEW stack \in Seq(Entry), NEW v \in Int
  PROVE  /\ Values(push_byte(stack, v)) = Append(Values(stack), Signed(v, ByteHalf))
         /\ Values(push_short(stack, v)) = Append(Values(stack), Signed(v, ShortHalf))
         /\ Values(push_int(stack, v)) = Append(Values(stack), Signed(v, IntHalf))
         /\ Values(push_long(stack, v)) = Append(Values(stack), Signed(v, LongHalf))
         /\ Values(push_ref(stack, v)) = Append(Values(stack), v)
<1>1. \A t \in EntryTypes : \A w \in Int : [type |-> t, value |-> w] \in Entry
  BY DEF Entry
<1>2. \A t \in EntryTypes : \A w \in Int :
        Values(Append(stack, [type |-> t, value |-> w])) = Append(Values(stack), w)
  BY <1>1, ValuesOf
<1>3. {"BYTE", "SHORT", "INT", "LONG", "REF"} \subseteq EntryTypes
  BY DEF EntryTypes
<1>4. /\ Signed(v, ByteHalf) \in Int /\ Signed(v, ShortHalf) \in Int
      /\ Signed(v, IntHalf) \in Int /\ Signed(v, LongHalf) \in Int
  BY MadeEntries
<1> QED BY <1>2, <1>3, <1>4 DEF push_byte, push_short, push_int, push_long, push_ref, Push

-----------------------------------------------------------------------------
\* Constants.
LEMMA ConstantsRefine ==
  ASSUME SafeInv, SafeInv', iconst \/ bipush \/ sipush \/ ldc2_w
  PROVE  Java!Constants
<1>1. status = "run" /\ ins.op \in {"iconst", "bipush", "sipush", "ldc2_w"}
  BY DEF iconst, bipush, sipush, ldc2_w, Fetch
<1>2. opst \in Seq(Entry) /\ Java!stack = Values(opst) /\ Java!ins = ins /\ ins = rule
  BY <1>1, JavaHere, JavaOperands
<1>3. ASSUME NEW len, NEW stack, Advance(stack, len), len = Java!Size,
             Values(stack) = Append(Values(opst), ins.arg), \E n, t : Pushes(method, frame.pc, len, n, t)
      PROVE  Java!Constants
  <2>1. Java!Yield(Values(stack)) /\ UNCHANGED <<statics, JavaHeap>>
    BY <1>1, <1>3, AdvanceIs
  <2> QED BY <1>1, <1>2, <1>3, <2>1, JavaHere DEF Java!Constants
<1>4. CASE iconst
  <2>1. /\ Advance(push_int(opst, ins.arg), 1) /\ ins.op = "iconst" /\ Pushes(method, frame.pc, 1, 0, "I")
        /\ ins.arg \in SignedRange(IntHalf) /\ ins.arg \in Int
    BY <1>1, <1>4, ConstantTyped DEF iconst, Fetch
  <2>2. Java!Size = 1
    BY <1>2, <2>1 DEF Java!Size
  <2>3. Values(push_int(opst, ins.arg)) = Append(Values(opst), ins.arg)
    BY <1>2, <2>1, PushedValues, SignedSame, Widths
  <2> QED BY <1>3, <2>1, <2>2, <2>3
<1>5. CASE bipush
  <2>1. /\ Advance(push_byte(opst, ins.arg), 2) /\ ins.op = "bipush" /\ Pushes(method, frame.pc, 2, 0, "I")
        /\ ins.arg \in SignedRange(ByteHalf) /\ ins.arg \in Int
    BY <1>1, <1>5, ConstantTyped DEF bipush, Fetch
  <2>2. Java!Size = 2
    BY <1>2, <2>1 DEF Java!Size
  <2>3. Values(push_byte(opst, ins.arg)) = Append(Values(opst), ins.arg)
    BY <1>2, <2>1, PushedValues, SignedSame, Widths
  <2> QED BY <1>3, <2>1, <2>2, <2>3
<1>6. CASE sipush
  <2>1. /\ Advance(push_short(opst, ins.arg), 3) /\ ins.op = "sipush" /\ Pushes(method, frame.pc, 3, 0, "I")
        /\ ins.arg \in SignedRange(ShortHalf) /\ ins.arg \in Int
    BY <1>1, <1>6, ConstantTyped DEF sipush, Fetch
  <2>2. Java!Size = 3
    BY <1>2, <2>1 DEF Java!Size
  <2>3. Values(push_short(opst, ins.arg)) = Append(Values(opst), ins.arg)
    BY <1>2, <2>1, PushedValues, SignedSame, Widths
  <2> QED BY <1>3, <2>1, <2>2, <2>3
<1>7. CASE ldc2_w
  <2>1. /\ Advance(push_long(opst, ins.arg), 3) /\ ins.op = "ldc2_w" /\ Pushes(method, frame.pc, 3, 0, "J")
        /\ ins.arg \in SignedRange(LongHalf) /\ ins.arg \in Int
    BY <1>1, <1>7, ConstantTyped DEF ldc2_w, Fetch
  <2>2. Java!Size = 3
    BY <1>2, <2>1 DEF Java!Size
  <2>3. Values(push_long(opst, ins.arg)) = Append(Values(opst), ins.arg)
    BY <1>2, <2>1, PushedValues, SignedSame, Widths
  <2> QED BY <1>3, <2>1, <2>2, <2>3
<1> QED BY <1>4, <1>5, <1>6, <1>7

-----------------------------------------------------------------------------
\* Local variables.
LEMMA LoadsRefine ==
  ASSUME SafeInv, SafeInv', iload \/ lload \/ aload
  PROVE  Java!Loads
<1>1. /\ status = "run"
      /\ ins.op \in {"iload", "iload_n", "lload", "lload_n", "aload", "aload_n"}
  BY DEF iload, lload, aload, Fetch
<1>2. /\ opst \in Seq(Entry) /\ Java!stack = Values(opst) /\ Java!ins = ins /\ ins = rule
      /\ Java!running.vars = SeenVars(frame.locals, rule.loc)
      /\ frame.locals \in [0 .. method.max_locals - 1 -> Entry]
  BY <1>1, JavaHere, JavaOperands, Current
<1>3. LocalRule(method, frame.pc, ins.op, ins.arg)
  BY <1>1, Rules
<1>4. PICK i : i = ins.arg
  OBVIOUS
<1>5. Java!Size = LocalLength
  BY <1>1, <1>2 DEF Java!Size, LocalLength, Short
<1>6. ASSUME NEW t \in VTypes, Loads(method, frame.pc, LocalLength, i, t), NEW stack,
             Advance(stack, LocalLength), Values(stack) = Append(Values(opst), Seen(frame.locals[i], t))
      PROVE  Java!Loads
  <2>1. /\ i \in 0 .. method.max_locals - 1 /\ rule.loc[i + 1] = t /\ t # "-"
        /\ Pushes(method, frame.pc, LocalLength, 0, t)
    BY <1>6 DEF Loads, rule, VTypes
  <2>2. Java!running.vars[i] = Seen(frame.locals[i], t)
    BY <1>2, <2>1 DEF SeenVars
  <2>3. Java!Yield(Values(stack)) /\ UNCHANGED <<statics, JavaHeap>>
    BY <1>1, <1>5, <1>6, <2>1, AdvanceIs
  <2> QED BY <1>1, <1>2, <1>4, <1>6, <2>2, <2>3, JavaHere DEF Java!Loads
<1>7. ASSUME NEW t \in VTypes, Loads(method, frame.pc, LocalLength, i, t)
      PROVE  frame.locals[i] \in Entry /\ frame.locals[i].value \in Int
  <2>1. frame.locals[i] \in Entry
    BY <1>2, <1>7 DEF Loads
  <2> QED BY <2>1 DEF Entry
<1>8. CASE iload
  <2>1. Loads(method, frame.pc, LocalLength, i, "I") /\ "I" \in VTypes
    BY <1>3, <1>4, <1>8 DEF iload, Fetch, LocalRule, LocalLength, Short, VTypes
  <2>2. PICK w \in Int : w = Signed(frame.locals[i].value, IntHalf) /\ Signed(w, IntHalf) = w
    BY <1>7, <2>1, Widths, SignedInRange, SignedSame
  <2>3. Values(push_int(opst, w)) = Append(Values(opst), w)
    BY <1>2, <2>2, PushedValues
  <2> QED BY <1>4, <1>6, <1>8, <2>1, <2>2, <2>3 DEF iload, int_value, Seen
<1>9. CASE lload
  <2>1. Loads(method, frame.pc, LocalLength, i, "J") /\ "J" \in VTypes
    BY <1>3, <1>4, <1>9 DEF lload, Fetch, LocalRule, LocalLength, Short, VTypes
  <2>2. PICK w \in Int : w = Signed(frame.locals[i].value, LongHalf) /\ Signed(w, LongHalf) = w
    BY <1>7, <2>1, Widths, SignedInRange, SignedSame
  <2>3. Values(push_long(opst, w)) = Append(Values(opst), w)
    BY <1>2, <2>2, PushedValues
  <2> QED BY <1>4, <1>6, <1>9, <2>1, <2>2, <2>3 DEF lload, long_value, Seen
<1>10. CASE aload
  <2>1. Loads(method, frame.pc, LocalLength, i, "A") /\ "A" \in VTypes
    BY <1>3, <1>4, <1>10 DEF aload, Fetch, LocalRule, LocalLength, Short, VTypes
  <2>2. PICK w \in Int : w = frame.locals[i].value
    BY <1>7, <2>1
  <2>3. Values(push_ref(opst, w)) = Append(Values(opst), w)
    BY <1>2, <2>2, PushedValues
  <2> QED BY <1>4, <1>6, <1>10, <2>1, <2>2, <2>3 DEF aload, ptr_value, Seen
<1> QED BY <1>8, <1>9, <1>10

\* A variable is assigned what its new type can see.
LEMMA StoreIs ==
  ASSUME SafeInv, SafeInv', status = "run", NEW i \in 0 .. method.max_locals - 1, NEW local, NEW stack,
         NEW len, Store(i, local, stack, len), len = Java!Size, NEW t,
         \A j \in 0 .. method.max_locals - 1 :
           method.code[frame.pc + len].loc[j + 1] \in {IF j = i THEN t ELSE rule.loc[j + 1], "-"}
  PROVE  /\ Java!Continue(Values(stack), Java!Assigned(i, Seen(local, t)), Java!Following)
         /\ UNCHANGED <<statics, JavaHeap>>
<1>1. IsActivation(frame) /\ frame.locals \in [0 .. method.max_locals - 1 -> Entry]
  BY Current
<1>2. /\ frame'.op_stack = stack /\ frame'.pc = frame.pc + len
      /\ frame'.locals = [frame.locals EXCEPT ![i] = local]
      /\ frame'.clazz = frame.clazz /\ frame'.meth = frame.meth
  BY <1>1 DEF Store, IsActivation
<1>3. PICK pc : pc = frame.pc + len
  OBVIOUS
<1>4. PICK vs : vs = Java!Assigned(i, Seen(local, t))
  OBVIOUS
<1>5. PICK vars0 : vars0 = Java!running.vars /\ vars0 = SeenVars(frame.locals, rule.loc)
  BY JavaHere
<1>6. vs = [j \in DOMAIN vars0 \cup {i} |-> IF j = i THEN Seen(local, t) ELSE vars0[j]]
  BY <1>4, <1>5 DEF Java!Assigned
<1>7. ASSUME NEW j \in 0 .. method.max_locals - 1, method.code[pc].loc[j + 1] # "-"
      PROVE  vs[j] = Seen(frame'.locals[j], method.code[pc].loc[j + 1])
  <2>1. CASE j = i
    BY <1>1, <1>2, <1>3, <1>6, <1>7, <2>1
  <2>2. CASE j # i
    <3>1. method.code[pc].loc[j + 1] = rule.loc[j + 1] /\ frame'.locals[j] = frame.locals[j]
      BY <1>1, <1>2, <1>3, <1>7, <2>2
    <3>2. j \in DOMAIN vars0 /\ vars0[j] = Seen(frame.locals[j], rule.loc[j + 1])
      BY <1>1, <1>5, <1>7, <3>1 DEF SeenVars
    <3> QED BY <1>6, <2>2, <3>1, <3>2
  <2> QED BY <2>1, <2>2
<1>8. /\ UNCHANGED <<prog, status, stage, booted, callers, class_heap, statics, memory>>
      /\ DOMAIN statics' = DOMAIN statics
  BY DEF Store
<1>9. Java!Continue(Values(frame'.op_stack), vs, frame'.pc)
  BY <1>2, <1>3, <1>7, <1>8, ContinueIs
<1>10. pc = Java!Following
  BY <1>3, JavaHere DEF Java!Following
<1> QED BY <1>2, <1>3, <1>4, <1>8, <1>9, <1>10 DEF JavaHeap

LEMMA StoresRefine ==
  ASSUME SafeInv, SafeInv', istore \/ lstore \/ astore
  PROVE  Java!Stores
<1>1. /\ status = "run"
      /\ ins.op \in {"istore", "istore_n", "lstore", "lstore_n", "astore", "astore_n"}
  BY DEF istore, lstore, astore, Fetch
<1>2. /\ opst \in Seq(Entry) /\ Java!ins = ins /\ ins = rule /\ Len(opst) = Len(rule.stk)
      /\ Len(opst) \in Nat /\ \A n \in 0 .. Len(opst) : Java!Below(n) = Values(drop(opst, n))
  BY <1>1, JavaHere, JavaOperands
<1>3. LocalRule(method, frame.pc, ins.op, ins.arg)
  BY <1>1, Rules
<1>4. PICK i : i = ins.arg
  OBVIOUS
<1>5. Java!Size = LocalLength
  BY <1>1, <1>2 DEF Java!Size, LocalLength, Short
<1>6. ASSUME NEW t \in VTypes, Stores(method, frame.pc, LocalLength, i, t), NEW local,
             Store(i, local, drop(opst, 1), LocalLength), Seen(local, t) = Java!operand(0)
      PROVE  Java!Stores
  <2>1. /\ i \in 0 .. method.max_locals - 1 /\ Len(rule.stk) >= 1
        /\ Flows(method, frame.pc + LocalLength, drop(rule.stk, 1), [rule.loc EXCEPT ![i + 1] = t])
    BY <1>6 DEF Stores, rule, Top
  <2>2. method.max_locals \in Nat /\ rule.loc \in Seq(VTypes \cup {"-"}) /\ Len(rule.loc) = method.max_locals
    BY <1>1, Current DEF MethodVerified, rule
  <2>3. ASSUME NEW j \in 0 .. method.max_locals - 1
        PROVE  method.code[frame.pc + LocalLength].loc[j + 1] \in {IF j = i THEN t ELSE rule.loc[j + 1], "-"}
    <3>1. [rule.loc EXCEPT ![i + 1] = t][j + 1] = IF j = i THEN t ELSE rule.loc[j + 1]
      BY <2>1, <2>2
    <3> QED BY <2>1, <3>1 DEF Flows
  <2>4. /\ Java!Continue(Values(drop(opst, 1)), Java!Assigned(i, Seen(local, t)), Java!Following)
        /\ UNCHANGED <<statics, JavaHeap>>
    BY <1>1, <1>5, <1>6, <2>1, <2>3, StoreIs
  <2>5. Java!Below(1) = Values(drop(opst, 1))
    BY <1>2, <2>1
  <2> QED BY <1>1, <1>2, <1>4, <1>6, <2>4, <2>5, JavaHere DEF Java!Stores
<1>7. ASSUME NEW t \in VTypes, Stores(method, frame.pc, LocalLength, i, t)
      PROVE  /\ top(opst) = peek(opst, 0) /\ Java!operand(0) = top(opst).value
             /\ t = "I" => Java!operand(0) = int32(top(opst)) /\ Java!operand(0) \in SignedRange(IntHalf)
             /\ t = "J" => Java!operand(0) = stack_to_int(top(opst)) /\ Java!operand(0) \in SignedRange(LongHalf)
  <2>1. 0 \in Nat /\ 0 < Len(rule.stk) /\ peek(rule.stk, 0) = t
    BY <1>2, <1>7 DEF Stores, rule, Top, top
  <2> QED BY <1>1, <2>1, JavaNumbers DEF top
<1>8. CASE istore
  <2>1. Stores(method, frame.pc, LocalLength, i, "I") /\ "I" \in VTypes
    BY <1>3, <1>4, <1>8 DEF istore, Fetch, LocalRule, LocalLength, Short, VTypes
  <2>2. PICK local : local = [type |-> "INT", value |-> int32(top(opst))]
    OBVIOUS
  <2>3. Seen(local, "I") = Java!operand(0)
    BY <1>7, <2>1, <2>2, SignedSame, Widths DEF Seen
  <2> QED BY <1>4, <1>6, <1>8, <2>1, <2>2, <2>3 DEF istore
<1>9. CASE lstore
  <2>1. Stores(method, frame.pc, LocalLength, i, "J") /\ "J" \in VTypes
    BY <1>3, <1>4, <1>9 DEF lstore, Fetch, LocalRule, LocalLength, Short, VTypes
  <2>2. PICK local : local = [type |-> "LONG", value |-> stack_to_int(top(opst))]
    OBVIOUS
  <2>3. Seen(local, "J") = Java!operand(0)
    BY <1>7, <2>1, <2>2, SignedSame, Widths DEF Seen
  <2> QED BY <1>4, <1>6, <1>9, <2>1, <2>2, <2>3 DEF lstore
<1>10. CASE astore
  <2>1. Stores(method, frame.pc, LocalLength, i, "A") /\ "A" \in VTypes
    BY <1>3, <1>4, <1>10 DEF astore, Fetch, LocalRule, LocalLength, Short, VTypes
  <2>2. PICK local : local = [type |-> "REF", value |-> top(opst).value]
    OBVIOUS
  <2>3. Seen(local, "A") = Java!operand(0)
    BY <1>7, <2>1, <2>2 DEF Seen
  <2> QED BY <1>4, <1>6, <1>10, <2>1, <2>2, <2>3 DEF astore
<1> QED BY <1>8, <1>9, <1>10

\* "entry.int_value += b" is an addition of ints, also in the low word of a long.
LEMMA AddedSeen ==
  ASSUME NEW local \in Entry, local.type \in {"INT", "LONG"}, NEW b \in Int
  PROVE  Seen(add_int_value(local, b), "I") = Signed(Signed(local.value, IntHalf) + b, IntHalf)
<1>1. PICK x \in Int : x = local.value
  BY DEF Entry
<1>2. PICK low \in Int : low = Signed(x, IntHalf) + b
  <2>1. Signed(x, IntHalf) \in Int
    BY <1>1, Widths, SignedMoves
  <2> QED BY <2>1
<1>3. PICK word \in Nat \ {0} : word = 2 * IntHalf
  BY Widths
<1>4. add_int_value(local, b).value = IF local.type = "LONG"
                                      THEN Signed(x - (x % word) + (low % word), LongHalf)
                                      ELSE Signed(low, IntHalf)
  BY <1>1, <1>2, <1>3 DEF add_int_value, int_value, Entry
<1>5. CASE local.type = "INT"
  <2>1. Signed(Signed(low, IntHalf), IntHalf) = Signed(low, IntHalf)
    BY Widths, SignedWider
  <2> QED BY <1>1, <1>2, <1>4, <1>5, <2>1 DEF Seen
<1>6. CASE local.type = "LONG"
  <2>1. PICK q \in Int, r \in Int : q = x \div word /\ r = x % word /\ x = q * word + r
    <3>1. x \div word \in Int /\ x % word \in Int /\ x = (x \div word) * word + (x % word)
      BY ONLY x \in Int, word \in Nat \ {0}, Divided
    <3> QED BY <3>1
  <2>2. PICK s \in Int, t \in Int : s = low \div word /\ t = low % word /\ low = s * word + t
    <3>1. low \div word \in Int /\ low % word \in Int /\ low = (low \div word) * word + (low % word)
      BY ONLY low \in Int, word \in Nat \ {0}, Divided
    <3> QED BY <3>1
  <2>3. PICK y \in Int : y = x - r + t
    OBVIOUS
  <2>4. PICK z \in Int, u \in Int : z = Signed(y, LongHalf) /\ z = y + u * (2 * LongHalf)
    BY <2>3, Widths, SignedMoves
  <2>5. PICK m \in Int : LongHalf = m * IntHalf
    <3>1. IntHalf \in Nat \ {0} /\ LongHalf \in Int
      BY Widths
    <3>2. /\ LongHalf \div IntHalf \in Int
          /\ LongHalf = (LongHalf \div IntHalf) * IntHalf + (LongHalf % IntHalf)
      BY ONLY <3>1, Divided
    <3>3. PICK n \in Int : n = LongHalf \div IntHalf
      BY <3>2
    <3>4. PICK v \in Int : v = n * IntHalf
      BY <3>1
    <3>5. LongHalf = v + (LongHalf % IntHalf)
      BY <3>2, <3>3, <3>4
    <3> QED BY <3>1, <3>4, <3>5, WordsAssumption
  <2>6. 2 * LongHalf = m * word
    BY <2>5, <1>3, Widths
  <2>7. y = low + (q - s) * word
    <3>1. PICK a \in Int, c \in Int, d \in Int : a = q * word /\ c = s * word /\ d = (q - s) * word
      OBVIOUS
    <3>2. d = a - c
      BY <3>1
    <3>3. x = a + r /\ low = c + t
      BY <2>1, <2>2, <3>1
    <3>4. y = low + d
      BY <2>3, <3>2, <3>3
    <3> QED BY <3>1, <3>4
  <2>8. u * (2 * LongHalf) = (u * m) * word
    BY <2>6
  <2>9. PICK k \in Int : k = (q - s) + u * m
    OBVIOUS
  <2>10. k * word = (q - s) * word + (u * m) * word
    BY <2>9
  <2>13. z = low + k * word
    <3>1. PICK a \in Int, c \in Int, d \in Int :
            a = (q - s) * word /\ c = (u * m) * word /\ d = k * word
      OBVIOUS
    <3>2. z = y + c /\ y = low + a /\ d = a + c
      BY <2>4, <2>7, <2>8, <2>10, <3>1
    <3> QED BY <3>1, <3>2
  <2>14. Signed(z, IntHalf) = Signed(low, IntHalf)
    BY <1>3, <2>13, SignedShifted, Widths
  <2> QED BY <1>1, <1>2, <1>4, <1>6, <2>1, <2>2, <2>3, <2>4, <2>14 DEF Seen
<1> QED BY <1>5, <1>6

LEMMA IincRefines ==
  ASSUME SafeInv, SafeInv', iinc
  PROVE  Java!Increments
<1>1. /\ status = "run" /\ ins.op = "iinc"
      /\ Store(ins.arg.i, add_int_value(frame.locals[ins.arg.i], ins.arg.b), opst, 3)
  BY DEF iinc, Fetch
<1>2. /\ Java!stack = Values(opst) /\ Java!ins = ins /\ ins = rule
      /\ Java!running.vars = SeenVars(frame.locals, rule.loc)
      /\ frame.locals \in [0 .. method.max_locals - 1 -> Entry] /\ LocalsFit(frame.locals, rule.loc)
  BY <1>1, JavaHere, Current
<1>3. PICK i, b : i = ins.arg.i /\ b = ins.arg.b
  OBVIOUS
<1>4. /\ i \in 0 .. method.max_locals - 1 /\ b \in Int /\ rule.loc[i + 1] = "I"
      /\ Flows(method, frame.pc + 3, drop(rule.stk, 0), rule.loc)
  BY <1>1, <1>3, Rules DEF LocalRule, rule, Pops
<1>5. PICK e : e = frame.locals[i]
  OBVIOUS
<1>6. e \in Entry /\ e.type \in {"INT", "LONG"}
  BY <1>2, <1>4, <1>5 DEF LocalsFit, LocalTags
<1>7. Java!running.vars[i] = Signed(e.value, IntHalf)
  BY <1>2, <1>4, <1>5 DEF SeenVars, Seen
<1>8. Seen(add_int_value(e, b), "I") = Java!Wrapped(Java!running.vars[i] + b, IntHalf)
  BY <1>4, <1>6, <1>7, AddedSeen DEF Java!Wrapped, Signed
<1>9. Java!Size = 3
  BY <1>1, <1>2 DEF Java!Size
<1>10. /\ Java!Continue(Values(opst), Java!Assigned(i, Seen(add_int_value(e, b), "I")), Java!Following)
       /\ UNCHANGED <<statics, JavaHeap>>
  <2>1. \A j \in 0 .. method.max_locals - 1 :
          method.code[frame.pc + 3].loc[j + 1] \in {IF j = i THEN "I" ELSE rule.loc[j + 1], "-"}
    BY <1>4 DEF Flows
  <2>2. Store(i, add_int_value(e, b), opst, 3)
    BY <1>1, <1>3, <1>5
  <2> QED BY <1>1, <1>4, <1>9, <2>1, <2>2, StoreIs
<1> QED BY <1>1, <1>2, <1>3, <1>8, <1>10, JavaHere DEF Java!Increments

-----------------------------------------------------------------------------
\* The process ends, where Java throws.
LEMMA CrashIs ==
  ASSUME SafeInv, status = "run", NEW how \in Terminal \ {"exit"}, Crash(how), Java!Throws
  PROVE  Java!Uncaught
<1>1. JavaOutcome' = "uncaught"
  BY DEF Crash, JavaOutcome
<1>2. UNCHANGED <<prog, stage, booted, frame, callers, class_heap, statics, memory>>
  BY DEF Crash
<1>3. Begun' = Begun
  BY <1>2, BegunKept
<1>4. JavaFrames' = JavaFrames
  BY <1>2 DEF JavaFrames, JavaFrame, Called, TypesAt, Method, Class
<1> QED BY <1>1, <1>2, <1>3, <1>4 DEF Java!Uncaught, JavaHeap

-----------------------------------------------------------------------------
\* Arithmetic.
LEMMA QuotientIs ==
  ASSUME NEW a \in Int, NEW b \in Int \ {0}
  PROVE  Quotient(a, b) = Java!Truncated(a, b)
BY DEF Quotient, Java!Truncated, Magnitude

\* A remainder is smaller than the divisor: it needs no conversion.
LEMMA RemainderInRange ==
  ASSUME NEW half \in Nat \ {0}, NEW a \in SignedRange(half), NEW b \in SignedRange(half), b # 0
  PROVE  Remainder(a, b) \in SignedRange(half)
<1>1. a \in Int /\ b \in Int
  BY DEF SignedRange
<1>2. PICK m \in Nat, n \in Nat \ {0} : m = Magnitude(a) /\ n = Magnitude(b)
  BY <1>1 DEF Magnitude
<1>3. PICK q \in Int, r \in 0 .. n - 1 : q = m \div n /\ r = m % n /\ m = q * n + r
  BY Divided
<1>4. PICK w \in Int : w = q * n
  OBVIOUS
<1>5. b * q = (IF b < 0 THEN -w ELSE w) /\ b * (-q) = (IF b < 0 THEN w ELSE -w)
  <2>1. b = (IF b < 0 THEN -n ELSE n)
    BY <1>1, <1>2 DEF Magnitude
  <2>2. n * q = w /\ (-n) * q = -w /\ n * (-q) = -w /\ (-n) * (-q) = w
    BY <1>4
  <2> QED BY <2>1, <2>2
<1>6. Remainder(a, b) = IF a < 0 THEN -r ELSE r
  <2>1. Quotient(a, b) = IF (a < 0) = (b < 0) THEN q ELSE -q
    BY <1>2, <1>3 DEF Quotient
  <2>2. b * Quotient(a, b) = IF a < 0 THEN -w ELSE w
    BY <1>5, <2>1
  <2>3. a = IF a < 0 THEN -m ELSE m
    BY <1>1, <1>2 DEF Magnitude
  <2>4. m = w + r
    BY <1>3, <1>4
  <2> QED BY <2>2, <2>3, <2>4 DEF Remainder
<1>7. n <= half
  BY <1>1, <1>2 DEF Magnitude, SignedRange
<1> QED BY <1>6, <1>7 DEF SignedRange

\* The results of the handlers are what Java calculates.
LEMMA CalculatedIs ==
  ASSUME NEW op \in IntOps \cup LongOps, NEW half, half = (IF op \in IntOps THEN IntHalf ELSE LongHalf),
         NEW a \in SignedRange(half), NEW b \in SignedRange(half), op \in {"idiv", "irem", "ldiv"} => b # 0
  PROVE  Signed(Arithmetic(op, a, b), half) = Java!Calculated(op, a, b)
<1>1. half \in Nat \ {0} /\ a \in Int /\ b \in Int
  BY Widths DEF SignedRange
<1>2. CASE op \in {"iadd", "isub", "imul"}
  BY <1>2 DEF Arithmetic, Signed, Java!Calculated, Java!Wrapped, IntOps
<1>3. CASE op \in {"ladd", "lsub", "lmul"}
  BY <1>3 DEF Arithmetic, Signed, Java!Calculated, Java!Wrapped, IntOps
<1>4. CASE op \in {"idiv", "ldiv"}
  BY <1>1, <1>4, QuotientIs DEF Arithmetic, Signed, Java!Calculated, Java!Wrapped, IntOps
<1>5. CASE op = "irem"
  <2>1. Remainder(a, b) \in SignedRange(half)
    BY <1>1, <1>5, RemainderInRange
  <2>2. Signed(Remainder(a, b), half) = Remainder(a, b)
    BY <1>1, <2>1, SignedSame
  <2> QED BY <1>1, <1>5, <2>2, QuotientIs DEF Arithmetic, Remainder, Java!Calculated
<1> QED BY <1>2, <1>3, <1>4, <1>5 DEF IntOps, LongOps

\* A result in place of n operands.
LEMMA ResultIs ==
  ASSUME SafeInv, SafeInv', status = "run", NEW n \in 0 .. Len(rule.stk), NEW stack, NEW len, NEW v, NEW t,
         Advance(stack, len), Values(stack) = Append(Values(drop(opst, n)), v), len = Java!Size,
         Pushes(method, frame.pc, len, n, t)
  PROVE  Java!Yield(Append(Java!Below(n), v)) /\ UNCHANGED <<statics, JavaHeap>>
<1>1. Java!Below(n) = Values(drop(opst, n))
  BY JavaOperands
<1>2. Java!Yield(Values(stack)) /\ UNCHANGED <<statics, JavaHeap>>
  BY AdvanceIs
<1> QED BY <1>1, <1>2

LEMMA IntArithmeticRefines ==
  ASSUME SafeInv, SafeInv', CommonGround, int_arithmetic
  PROVE  Java!Calculates \/ Java!Uncaught
<1>1. status = "run" /\ ins.op \in IntOps
  BY DEF int_arithmetic, Fetch
<1>2. Top2(rule.stk, "I", "I") /\ Pushes(method, frame.pc, 1, 2, "I")
  BY <1>1, Rules DEF OperatorRule, rule
<1>3. /\ Java!ins = ins /\ ins = rule /\ Len(rule.stk) \in Nat
      /\ \A ops : Java!Is(ops) <=> ins.op \in ops
  BY <1>1, JavaHere, Current
<1>4. PICK a, b : a = int32(peek(opst, 1)) /\ b = int32(top(opst))
  OBVIOUS
<1>5. /\ Java!operand(1) = a /\ Java!operand(0) = b /\ a \in SignedRange(IntHalf)
      /\ b \in SignedRange(IntHalf) /\ a \in Int /\ b \in Int
  <2>1. 1 < Len(rule.stk) /\ 0 < Len(rule.stk) /\ peek(rule.stk, 1) = "I" /\ peek(rule.stk, 0) = "I"
    BY <1>2, <1>3 DEF Top2, top
  <2>2. Java!operand(1) = a /\ a \in SignedRange(IntHalf) /\ Java!operand(1) \in Int
    BY <1>1, <1>4, <2>1, JavaNumbers
  <2>3. Java!operand(0) = b /\ b \in SignedRange(IntHalf) /\ Java!operand(0) \in Int
    BY <1>1, <1>4, <2>1, JavaNumbers DEF top
  <2> QED BY <2>2, <2>3
<1>6. CASE Traps(ins.op, a, b, IntHalf)
  <2>1. Crash("fpe") /\ "fpe" \in Terminal \ {"exit"}
    BY <1>4, <1>6 DEF int_arithmetic, Terminal
  <2>2. b = 0 /\ ins.op \in {"idiv", "irem"}
    BY <1>1, <1>4, <1>6 DEF Traps, CommonGround, NumbersAgree, IntOps
  <2>3. Java!Throws
    BY <1>3, <1>5, <2>2 DEF Java!Throws, Java!Divisions
  <2> QED BY <1>1, <2>1, <2>3, CrashIs
<1>7. CASE ~Traps(ins.op, a, b, IntHalf)
  <2>1. Advance(push_int(drop(opst, 2), Arithmetic(ins.op, a, b)), 1)
    BY <1>4, <1>7 DEF int_arithmetic
  <2>2. ins.op \in {"idiv", "irem", "ldiv"} => b # 0
    BY <1>7 DEF Traps
  <2>3. Arithmetic(ins.op, a, b) \in Int
    BY <1>1, <1>5, <2>2, ArithmeticInt
  <2>4. Signed(Arithmetic(ins.op, a, b), IntHalf) = Java!Calculated(ins.op, a, b)
    BY <1>1, <1>5, <2>2, CalculatedIs
  <2>5. 2 \in 0 .. Len(rule.stk) /\ drop(opst, 2) \in Seq(Entry)
    BY <1>1, <1>2, <1>3, JavaOperands DEF Top2
  <2>6. Values(push_int(drop(opst, 2), Arithmetic(ins.op, a, b)))
          = Append(Values(drop(opst, 2)), Java!Calculated(ins.op, a, b))
    BY <2>3, <2>4, <2>5, PushedValues
  <2>7. Java!Size = 1
    BY <1>1, <1>3 DEF Java!Size, IntOps
  <2>8. /\ Java!Yield(Append(Java!Below(2), Java!Calculated(ins.op, a, b)))
        /\ UNCHANGED <<statics, JavaHeap>>
    BY <1>1, <1>2, <2>1, <2>5, <2>6, <2>7, ResultIs
  <2> QED BY <1>1, <1>3, <1>5, <2>2, <2>8 DEF Java!Calculates, Java!Binary, Java!Divisions, IntOps
<1> QED BY <1>6, <1>7

LEMMA LongArithmeticRefines ==
  ASSUME SafeInv, SafeInv', CommonGround, long_arithmetic
  PROVE  Java!Calculates \/ Java!Uncaught
<1>1. status = "run" /\ ins.op \in LongOps
  BY DEF long_arithmetic, Fetch
<1>2. Top2(rule.stk, "J", "J") /\ Pushes(method, frame.pc, 1, 2, "J")
  BY <1>1, Rules DEF OperatorRule, rule
<1>3. /\ Java!ins = ins /\ ins = rule /\ Len(rule.stk) \in Nat
      /\ \A ops : Java!Is(ops) <=> ins.op \in ops
  BY <1>1, JavaHere, Current
<1>4. PICK a, b : a = stack_to_int(peek(opst, 1)) /\ b = stack_to_int(top(opst))
  OBVIOUS
<1>5. /\ Java!operand(1) = a /\ Java!operand(0) = b /\ a \in SignedRange(LongHalf)
      /\ b \in SignedRange(LongHalf) /\ a \in Int /\ b \in Int
  <2>1. 1 < Len(rule.stk) /\ 0 < Len(rule.stk) /\ peek(rule.stk, 1) = "J" /\ peek(rule.stk, 0) = "J"
    BY <1>2, <1>3 DEF Top2, top
  <2>2. Java!operand(1) = a /\ a \in SignedRange(LongHalf) /\ Java!operand(1) \in Int
    BY <1>1, <1>4, <2>1, JavaNumbers
  <2>3. Java!operand(0) = b /\ b \in SignedRange(LongHalf) /\ Java!operand(0) \in Int
    BY <1>1, <1>4, <2>1, JavaNumbers DEF top
  <2> QED BY <2>2, <2>3
<1>6. CASE Traps(ins.op, a, b, LongHalf)
  <2>1. Crash("fpe") /\ "fpe" \in Terminal \ {"exit"}
    BY <1>4, <1>6 DEF long_arithmetic, Terminal
  <2>2. b = 0 /\ ins.op = "ldiv"
    BY <1>1, <1>4, <1>6 DEF Traps, CommonGround, NumbersAgree, LongOps
  <2>3. Java!Throws
    BY <1>3, <1>5, <2>2 DEF Java!Throws, Java!Divisions
  <2> QED BY <1>1, <2>1, <2>3, CrashIs
<1>7. CASE ~Traps(ins.op, a, b, LongHalf)
  <2>1. Advance(push_long(drop(opst, 2), Arithmetic(ins.op, a, b)), 1)
    BY <1>4, <1>7 DEF long_arithmetic
  <2>2. ins.op \in {"idiv", "irem", "ldiv"} => b # 0
    BY <1>7 DEF Traps
  <2>3. Arithmetic(ins.op, a, b) \in Int
    BY <1>1, <1>5, <2>2, ArithmeticInt
  <2>4. Signed(Arithmetic(ins.op, a, b), LongHalf) = Java!Calculated(ins.op, a, b)
    BY <1>1, <1>5, <2>2, CalculatedIs DEF IntOps, LongOps
  <2>5. 2 \in 0 .. Len(rule.stk) /\ drop(opst, 2) \in Seq(Entry)
    BY <1>1, <1>2, <1>3, JavaOperands DEF Top2
  <2>6. Values(push_long(drop(opst, 2), Arithmetic(ins.op, a, b)))
          = Append(Values(drop(opst, 2)), Java!Calculated(ins.op, a, b))
    BY <2>3, <2>4, <2>5, PushedValues
  <2>7. Java!Size = 1
    BY <1>1, <1>3 DEF Java!Size, LongOps
  <2>8. /\ Java!Yield(Append(Java!Below(2), Java!Calculated(ins.op, a, b)))
        /\ UNCHANGED <<statics, JavaHeap>>
    BY <1>1, <1>2, <2>1, <2>5, <2>6, <2>7, ResultIs
  <2> QED BY <1>1, <1>3, <1>5, <2>2, <2>8 DEF Java!Calculates, Java!Binary, Java!Divisions, LongOps
<1> QED BY <1>6, <1>7

\* The topmost operands.
LEMMA JavaTop ==
  ASSUME SafeInv, status = "run", NEW t, Top(rule.stk, t)
  PROVE  /\ 1 \in 0 .. Len(rule.stk) /\ drop(opst, 1) \in Seq(Entry)
         /\ Java!operand(0) = top(opst).value /\ Java!operand(0) \in Int
         /\ t = "I" => /\ Java!operand(0) = int32(top(opst)) /\ Java!operand(0) \in SignedRange(IntHalf)
                       /\ Java!operand(0) = stack_to_int(top(opst))
         /\ t = "J" => /\ Java!operand(0) = stack_to_int(top(opst))
                       /\ Java!operand(0) \in SignedRange(LongHalf)
<1>1. Len(rule.stk) \in Nat /\ 0 < Len(rule.stk) /\ peek(rule.stk, 0) = t
  BY Current DEF Top, top
<1>2. drop(opst, 1) \in Seq(Entry)
  BY <1>1, JavaOperands
<1> QED BY <1>1, <1>2, JavaNumbers DEF top

LEMMA JavaTop2 ==
  ASSUME SafeInv, status = "run", NEW u, NEW t, Top2(rule.stk, u, t)
  PROVE  /\ 2 \in 0 .. Len(rule.stk) /\ drop(opst, 2) \in Seq(Entry) /\ Top(rule.stk, t)
         /\ Java!operand(1) = peek(opst, 1).value /\ Java!operand(1) \in Int
         /\ u = "I" => /\ Java!operand(1) = int32(peek(opst, 1)) /\ Java!operand(1) \in SignedRange(IntHalf)
         /\ u = "J" => /\ Java!operand(1) = stack_to_int(peek(opst, 1))
                       /\ Java!operand(1) \in SignedRange(LongHalf)
<1>1. Len(rule.stk) \in Nat /\ 1 < Len(rule.stk) /\ peek(rule.stk, 1) = u /\ Top(rule.stk, t)
  BY Current DEF Top, Top2, top
<1>2. drop(opst, 2) \in Seq(Entry)
  BY <1>1, JavaOperands
<1> QED BY <1>1, <1>2, JavaNumbers

LEMMA LcmpRefines ==
  ASSUME SafeInv, SafeInv', lcmp
  PROVE  Java!Calculates
<1>1. status = "run" /\ ins.op = "lcmp"
  BY DEF lcmp, Fetch
<1>2. Top2(rule.stk, "J", "J") /\ Pushes(method, frame.pc, 1, 2, "I")
  BY <1>1, Rules DEF OperatorRule, rule
<1>3. /\ Java!ins = ins /\ ins = rule
      /\ \A ops : Java!Is(ops) <=> ins.op \in ops
  BY <1>1, JavaHere
<1>4. PICK a \in Int, b \in Int : /\ a = stack_to_int(peek(opst, 1)) /\ b = stack_to_int(top(opst))
                                  /\ Java!operand(1) = a /\ Java!operand(0) = b
  BY <1>1, <1>2, JavaTop2, JavaTop
<1>5. PICK v : v = IF b < a THEN 1 ELSE IF b = a THEN 0 ELSE -1
  OBVIOUS
<1>6. v \in SignedRange(IntHalf) /\ v \in Int
  BY <1>5, WordsAssumption, Widths DEF SignedRange
<1>7. Advance(push_int(drop(opst, 2), IF b < a THEN 1 ELSE IF b = a THEN 0 ELSE -1), 1)
  BY <1>4 DEF lcmp
<1>8. drop(opst, 2) \in Seq(Entry) /\ 2 \in 0 .. Len(rule.stk)
  BY <1>1, <1>2, JavaTop2
<1>9. Values(push_int(drop(opst, 2), v)) = Append(Values(drop(opst, 2)), v)
  BY <1>6, <1>8, PushedValues, SignedSame, Widths
<1>10. v = Java!Calculated("lcmp", a, b)
  BY <1>5 DEF Java!Calculated
<1>11. Java!Size = 1
  BY <1>1, <1>3 DEF Java!Size
<1>12. Java!Yield(Append(Java!Below(2), v)) /\ UNCHANGED <<statics, JavaHeap>>
  BY <1>1, <1>2, <1>5, <1>7, <1>8, <1>9, <1>11, ResultIs
<1> QED BY <1>1, <1>3, <1>4, <1>10, <1>12 DEF Java!Calculates, Java!Binary, Java!Divisions

LEMMA ConversionsRefine ==
  ASSUME SafeInv, SafeInv', CommonGround, i2l \/ i2c \/ ineg
  PROVE  Java!Converts
<1>1. status = "run" /\ ins.op \in {"i2l", "i2c", "ineg"}
  BY DEF i2l, i2c, ineg, Fetch
<1>2. /\ Top(rule.stk, "I")
      /\ Pushes(method, frame.pc, 1, 1, IF ins.op = "i2l" THEN "J" ELSE "I")
  BY <1>1, Rules DEF OperatorRule, rule
<1>3. /\ Java!ins = ins /\ ins = rule
      /\ \A ops : Java!Is(ops) <=> ins.op \in ops
  BY <1>1, JavaHere
<1>4. PICK v \in Int : v = int32(top(opst)) /\ Java!operand(0) = v /\ v \in SignedRange(IntHalf)
  BY <1>1, <1>2, JavaTop
<1>5. drop(opst, 1) \in Seq(Entry) /\ 1 \in 0 .. Len(rule.stk)
  BY <1>1, <1>2, JavaTop
<1>6. Java!Size = 1
  BY <1>1, <1>3 DEF Java!Size
<1>7. ASSUME NEW stack, Advance(stack, 1), NEW w, Values(stack) = Append(Values(drop(opst, 1)), w),
             w = CASE ins.op = "i2l" -> v [] ins.op = "i2c" -> v % (2 * ShortHalf)
                   [] ins.op = "ineg" -> Java!Wrapped(-v, IntHalf)
      PROVE  Java!Converts
  <2>1. Java!Yield(Append(Java!Below(1), w)) /\ UNCHANGED <<statics, JavaHeap>>
    BY <1>1, <1>2, <1>5, <1>6, <1>7, ResultIs
  <2> QED BY <1>1, <1>3, <1>4, <1>7, <2>1 DEF Java!Converts
<1>8. CASE i2l
  <2>1. ins.op = "i2l" /\ Advance(push_long(drop(opst, 1), v), 1)
    BY <1>4, <1>8 DEF i2l, Fetch
  <2>2. v \in SignedRange(LongHalf)
    BY <1>4, Widths DEF SignedRange
  <2>3. Values(push_long(drop(opst, 1), v)) = Append(Values(drop(opst, 1)), v)
    BY <1>4, <1>5, <2>2, PushedValues, SignedSame, Widths
  <2> QED BY <1>7, <2>1, <2>3
<1>9. CASE i2c
  <2>1. ins.op = "i2c" /\ Advance(push_byte(drop(opst, 1), v), 1)
    BY <1>4, <1>9 DEF i2c, Fetch
  <2>2. v \in 0 .. ByteHalf - 1
    BY <1>1, <1>4, <2>1 DEF CommonGround, NumbersAgree
  <2>3. v \in SignedRange(ByteHalf)
    BY <2>2, Widths DEF SignedRange
  <2>4. v \in 0 .. 2 * ShortHalf - 1
    BY <2>2, WidthsAssumption
  <2>5. v % (2 * ShortHalf) = v
    BY <2>4, Widths
  <2>6. Values(push_byte(drop(opst, 1), v)) = Append(Values(drop(opst, 1)), v)
    BY <1>4, <1>5, <2>3, PushedValues, SignedSame, Widths
  <2> QED BY <1>7, <2>1, <2>5, <2>6
<1>10. CASE ineg
  <2>1. ins.op = "ineg" /\ Advance(push_int(drop(opst, 1), -v), 1) /\ -v \in Int
    BY <1>4, <1>10 DEF ineg, Fetch
  <2>2. Values(push_int(drop(opst, 1), -v)) = Append(Values(drop(opst, 1)), Signed(-v, IntHalf))
    BY <1>5, <2>1, PushedValues
  <2>3. Signed(-v, IntHalf) = Java!Wrapped(-v, IntHalf)
    BY DEF Signed, Java!Wrapped
  <2> QED BY <1>7, <2>1, <2>2, <2>3
<1> QED BY <1>8, <1>9, <1>10

-----------------------------------------------------------------------------
\* Duplication.
LEMMA SameSequence ==
  ASSUME NEW s, IsSequence(s), NEW t, IsSequence(t), Len(s) = Len(t),
         \A i \in 1 .. Len(s) : s[i] = t[i]
  PROVE  s = t
<1> DEFINE S == Elements(s) \cup Elements(t)
<1>1. s \in Seq(S) /\ t \in Seq(S)
  BY DEF IsSequence
<1> HIDE DEF S
<1> QED BY <1>1

LEMMA LastAgain ==
  ASSUME NEW s \in Seq(Int), NEW n, n = Len(s), n >= 1
  PROVE  /\ s \o SubSeq(s, n - 1 + 1, n) = Append(s, s[n])
         /\ n >= 2 => s \o SubSeq(s, n - 2 + 1, n) = Append(Append(s, s[n - 1]), s[n])
<1>1. n \in Nat /\ IsSequence(s)
  BY SequenceOfSet
<1>2. ASSUME NEW k \in {1, 2}, k <= n, NEW u, u = SubSeq(s, n - k + 1, n)
      PROVE  /\ IsSequence(u) /\ Len(u) = k /\ \A i \in 1 .. k : u[i] = s[n - k + i]
             /\ IsSequence(s \o u) /\ Len(s \o u) = n + k
             /\ \A i \in 1 .. n : (s \o u)[i] = s[i]
             /\ \A i \in 1 .. k : (s \o u)[n + i] = s[n - k + i]
  <2>0. PICK m \in 1 .. n : m = n - k + 1
    <3>1. n - k + 1 \in 1 .. n
      BY <1>1, <1>2
    <3> QED BY <3>1
  <2>1. u \in Seq(Int) /\ Len(u) = k /\ \A i \in 1 .. k : u[i] = s[n - k + i]
    <3>1. s \in [1 .. n -> Int]
      OBVIOUS
    <3>2. u = [i \in 1 .. k |-> s[m + i - 1]]
      BY <1>1, <1>2, <2>0
    <3>3. \A i \in 1 .. k : m + i - 1 = n - k + i /\ m + i - 1 \in 1 .. n
      BY <1>1, <1>2, <2>0
    <3>4. \A i \in 1 .. k : u[i] = s[n - k + i] /\ u[i] \in Int
      BY <3>1, <3>2, <3>3
    <3>5. u \in [1 .. k -> Int]
      BY <3>2, <3>4
    <3>6. u \in Seq(Int) /\ Len(u) = k
      BY <3>5
    <3> QED BY <3>4, <3>6
  <2>2. IsSequence(u)
    BY <2>1, SequenceOfSet
  <2>3. /\ IsSequence(s \o u) /\ Len(s \o u) = Len(s) + Len(u)
        /\ \A i \in 1 .. Len(s) : (s \o u)[i] = s[i]
        /\ \A i \in 1 .. Len(u) : (s \o u)[Len(s) + i] = u[i]
    BY ONLY <1>1, <2>2, ConcatElements
  <2> QED BY <2>1, <2>2, <2>3
<1>3. PICK u, t : u = SubSeq(s, n - 1 + 1, n) /\ t = s \o u
  OBVIOUS
<1>4. IsSequence(t) /\ Len(t) = n + 1 /\ (\A i \in 1 .. n : t[i] = s[i]) /\ t[n + 1] = s[n]
  <2>1. /\ IsSequence(t) /\ Len(t) = n + 1 /\ (\A i \in 1 .. n : t[i] = s[i])
        /\ (\A i \in 1 .. 1 : t[n + i] = s[n - 1 + i])
    BY <1>2, <1>3
  <2>2. n - 1 + 1 = n
    BY <1>1
  <2> QED BY <2>1, <2>2
<1>5. PICK f : f = Append(s, s[n])
  OBVIOUS
<1>6. IsSequence(f) /\ Len(f) = n + 1 /\ (\A i \in 1 .. n : f[i] = s[i]) /\ f[n + 1] = s[n]
  BY <1>1, <1>5, AppendElements
<1>7. t = f
  <2>1. \A i \in 1 .. n + 1 : t[i] = f[i]
    BY <1>1, <1>4, <1>6
  <2> QED BY <1>4, <1>6, <2>1, SameSequence
<1>8. ASSUME n >= 2
      PROVE  s \o SubSeq(s, n - 2 + 1, n) = Append(Append(s, s[n - 1]), s[n])
  <2>1. PICK w, v : w = SubSeq(s, n - 2 + 1, n) /\ v = s \o w
    OBVIOUS
  <2>2. /\ IsSequence(v) /\ Len(v) = n + 2 /\ (\A i \in 1 .. n : v[i] = s[i])
        /\ v[n + 1] = s[n - 1] /\ v[n + 2] = s[n]
    <3>1. /\ IsSequence(v) /\ Len(v) = n + 2 /\ (\A i \in 1 .. n : v[i] = s[i])
          /\ (\A i \in 1 .. 2 : v[n + i] = s[n - 2 + i])
      BY <1>2, <1>8, <2>1
    <3>2. n - 2 + 1 = n - 1 /\ n - 2 + 2 = n
      BY <1>1
    <3> QED BY <3>1, <3>2
  <2>3. PICK g : g = Append(s, s[n - 1])
    OBVIOUS
  <2>4. IsSequence(g) /\ Len(g) = n + 1 /\ (\A i \in 1 .. n : g[i] = s[i]) /\ g[n + 1] = s[n - 1]
    BY <1>1, <2>3, AppendElements
  <2>5. PICK h : h = Append(g, s[n])
    OBVIOUS
  <2>6. IsSequence(h) /\ Len(h) = n + 2 /\ (\A i \in 1 .. n + 1 : h[i] = g[i]) /\ h[n + 2] = s[n]
    BY <1>1, <2>4, <2>5, AppendElements
  <2>7. \A i \in 1 .. n + 2 : v[i] = h[i]
    BY <1>1, <2>2, <2>4, <2>6
  <2>8. v = h
    BY <2>2, <2>6, <2>7, SameSequence
  <2> QED BY <2>1, <2>3, <2>5, <2>8
<1> QED BY <1>3, <1>5, <1>7, <1>8

LEMMA DuplicatesRefine ==
  ASSUME SafeInv, SafeInv', dup \/ dup2
  PROVE  Java!Duplicates
<1>1. status = "run" /\ ins.op \in {"dup", "dup2"}
  BY DEF dup, dup2, Fetch
<1>2. Len(rule.stk) >= 1 /\ OperatorRule(method, frame.pc, ins.op)
  BY <1>1, Rules DEF OperatorRule, rule
<1>3. /\ Java!ins = ins /\ ins = rule /\ Java!stack = Values(opst)
      /\ \A ops : Java!Is(ops) <=> ins.op \in ops
  BY <1>1, JavaHere
<1>4. /\ opst \in Seq(Entry) /\ Len(opst) = Len(rule.stk) /\ Len(opst) \in Nat
  BY <1>1, JavaOperands
<1>5. Top(rule.stk, top(rule.stk)) /\ top(rule.stk) = rule.stk[Len(rule.stk)]
  BY <1>2, <1>4 DEF Top, top, peek
<1>6. top(opst) \in Entry /\ top(opst).type \in OperandTags(top(rule.stk)) /\ top(rule.stk) \in VTypes
  <2>1. top(opst) \in Entry /\ top(opst).type \in OperandTags(top(rule.stk))
    BY <1>1, <1>5, TopRead
  <2>2. top(rule.stk) \in VTypes
    BY <1>1, <1>2, <1>4, <1>5, Current
  <2> QED BY <2>1, <2>2
<1>7. (top(opst).type = "LONG") <=> (top(rule.stk) = "J")
  BY <1>6 DEF OperandTags, VTypes
<1>8. Java!Size = 1
  BY <1>1, <1>3 DEF Java!Size
<1>9. PICK s : s = Values(opst)
  OBVIOUS
<1>10. /\ s \in Seq(Int) /\ Len(s) = Len(opst)
       /\ \A e \in Entry : Values(Append(opst, e)) = Append(s, e.value)
       /\ \A n \in 0 .. Len(opst) - 1 : s[Len(opst) - n] = peek(opst, n).value
  BY <1>4, <1>9, ValuesOf
<1>11. s[Len(s)] = top(opst).value
  <2>1. PICK n \in Nat : n = Len(opst)
    BY <1>4
  <2>2. 0 \in 0 .. n - 1 /\ n - 0 = n
    BY <1>2, <1>4, <2>1
  <2>3. s[n] = peek(opst, 0).value
    BY <1>10, <2>1, <2>2
  <2> QED BY <1>10, <2>1, <2>3 DEF top
<1>12. CASE Advance(Append(opst, top(opst)), 1) /\ (ins.op = "dup" \/ top(rule.stk) = "J")
  <2>1. \E t : Pushes(method, frame.pc, 1, 0, t)
    BY <1>1, <1>2, <1>12 DEF OperatorRule, rule
  <2>2. Java!Yield(Values(Append(opst, top(opst)))) /\ UNCHANGED <<statics, JavaHeap>>
    BY <1>1, <1>8, <1>12, <2>1, AdvanceIs
  <2>3. Values(Append(opst, top(opst))) = s \o SubSeq(s, Len(s) - 1 + 1, Len(s))
    <3>1. PICK n \in Nat : n = Len(s) /\ n >= 1
      BY <1>2, <1>4, <1>10
    <3>2. s \o SubSeq(s, n - 1 + 1, n) = Append(s, s[n])
      BY <1>10, <3>1, LastAgain
    <3> QED BY <1>6, <1>10, <1>11, <3>1, <3>2
  <2> QED BY <1>1, <1>3, <1>5, <1>9, <1>12, <2>2, <2>3 DEF Java!Duplicates
<1>13. CASE /\ Advance(Append(Append(opst, peek(opst, 1)), top(opst)), 1)
            /\ ins.op = "dup2" /\ top(rule.stk) # "J"
  <2>1. Len(rule.stk) >= 2 /\ \E stk : Flows(method, frame.pc + 1, stk, rule.loc)
    BY <1>2, <1>13 DEF OperatorRule, rule
  <2>2. PICK stack : stack = Append(Append(opst, peek(opst, 1)), top(opst))
    OBVIOUS
  <2>3. Java!Yield(Values(stack)) /\ UNCHANGED <<statics, JavaHeap>>
    BY <1>1, <1>8, <1>13, <2>1, <2>2, AdvanceIs
  <2>4. PICK e : e = peek(opst, 1)
    OBVIOUS
  <2>5. e \in Entry
    BY <1>4, <2>1, <2>4 DEF peek
  <2>6. PICK more : more = Append(opst, e)
    OBVIOUS
  <2>7. more \in Seq(Entry) /\ Values(more) = Append(s, e.value)
    BY <1>4, <1>10, <2>5, <2>6
  <2>8. Values(stack) = Append(Append(s, e.value), top(opst).value)
    BY <1>6, <2>2, <2>4, <2>6, <2>7, ValuesOf
  <2>9. s[Len(s) - 1] = e.value
    BY <1>4, <1>10, <2>1, <2>4
  <2>10. Values(stack) = s \o SubSeq(s, Len(s) - 2 + 1, Len(s))
    <3>1. PICK n \in Nat : n = Len(s) /\ n >= 2
      BY <1>4, <1>10, <2>1
    <3>2. s \o SubSeq(s, n - 2 + 1, n) = Append(Append(s, s[n - 1]), s[n])
      BY <1>10, <3>1, LastAgain
    <3> QED BY <1>11, <2>8, <2>9, <3>1, <3>2
  <2> QED BY <1>1, <1>3, <1>5, <1>9, <1>13, <2>3, <2>10 DEF Java!Duplicates
<1> QED BY <1>7, <1>12, <1>13 DEF dup, dup2, Fetch

-----------------------------------------------------------------------------
\* Branches.
LEMMA HoldsIs ==
  ASSUME NEW rel \in {"eq", "ne", "lt", "ge", "gt", "le"}, NEW a \in Int, NEW b \in Int
  PROVE  Compare(rel, a, b) <=> Java!Holds(rel, a, b)
BY DEF Compare, Java!Holds

LEMMA JumpIs ==
  ASSUME SafeInv, SafeInv', status = "run", NEW n \in 0 .. Len(rule.stk), NEW len,
         Advance(drop(opst, n), len), Pops(method, frame.pc, frame.pc + len, n),
         ins.op \in {"goto", "ifnull", "if", "if_icmp", "tableswitch"},
         n = Java!Taken, len = Java!Offset
  PROVE  Java!Jumps
<1>1. /\ Goto(drop(opst, n), frame.pc + len) /\ UNCHANGED <<class_heap, class_names>> /\ DOMAIN statics' = DOMAIN statics
      /\ UNCHANGED <<statics, memory>>
  BY DEF Advance
<1>2. Flows(method, frame.pc + len, drop(rule.stk, n), rule.loc)
  BY DEF Pops, rule
<1>3. Java!Continue(Values(drop(opst, n)), Java!running.vars, frame.pc + len)
  BY <1>1, <1>2, GotoIs
<1>4. Java!Below(n) = Values(drop(opst, n))
  BY JavaOperands
<1>5. Java!running.pc = frame.pc /\ Java!Is({"goto", "ifnull", "if", "if_icmp", "tableswitch"})
  BY JavaHere
<1> QED BY <1>1, <1>3, <1>4, <1>5 DEF Java!Jumps, JavaHeap

LEMMA BranchesRefine ==
  ASSUME SafeInv, SafeInv', if_cond \/ if_icmp \/ ifnull \/ goto
  PROVE  Java!Jumps
<1>1. status = "run" /\ ins.op \in {"if", "if_icmp", "ifnull", "goto"}
  BY DEF if_cond, if_icmp, ifnull, goto, Fetch
<1>2. BranchRule(method, frame.pc, ins.op, ins.arg)
  BY <1>1, Rules
<1>3. Java!ins = ins /\ ins = rule
  BY <1>1, JavaHere
<1>4. Java!Size = 3
  BY <1>1, <1>3 DEF Java!Size
<1>5. CASE if_cond
  <2>1. /\ ins.op = "if" /\ Top(rule.stk, "I") /\ ins.arg.rel \in {"eq", "ne", "lt", "ge", "gt", "le"}
        /\ Pops(method, frame.pc, frame.pc + 3, 1) /\ Pops(method, frame.pc, frame.pc + ins.arg.to, 1)
    BY <1>2, <1>5 DEF if_cond, Fetch, BranchRule, rule
  <2>2. PICK v \in Int : v = int32(top(opst)) /\ Java!operand(0) = v /\ 1 \in 0 .. Len(rule.stk)
    BY <1>1, <2>1, JavaTop
  <2>3. PICK len : len = IF Compare(ins.arg.rel, v, 0) THEN ins.arg.to ELSE 3
    OBVIOUS
  <2>4. Advance(drop(opst, 1), len)
    BY <1>5, <2>2, <2>3 DEF if_cond, Branch
  <2>5. len = Java!Offset /\ 1 = Java!Taken
    BY <1>3, <1>4, <2>1, <2>2, <2>3, HoldsIs DEF Java!Offset, Java!Taken
  <2>6. Pops(method, frame.pc, frame.pc + len, 1)
    BY <2>1, <2>3
  <2> QED BY <1>1, <2>2, <2>4, <2>5, <2>6, JumpIs
<1>6. CASE if_icmp
  <2>1. /\ ins.op = "if_icmp" /\ Top2(rule.stk, "I", "I") /\ ins.arg.rel \in {"eq", "ne", "lt", "ge", "gt", "le"}
        /\ Pops(method, frame.pc, frame.pc + 3, 2) /\ Pops(method, frame.pc, frame.pc + ins.arg.to, 2)
    BY <1>2, <1>6 DEF if_icmp, Fetch, BranchRule, rule
  <2>2. PICK a \in Int, b \in Int : /\ a = int32(peek(opst, 1)) /\ b = int32(top(opst))
                                    /\ Java!operand(1) = a /\ Java!operand(0) = b
    BY <1>1, <2>1, JavaTop2, JavaTop
  <2>3. PICK len : len = IF Compare(ins.arg.rel, a, b) THEN ins.arg.to ELSE 3
    OBVIOUS
  <2>4. Advance(drop(opst, 2), len) /\ 2 \in 0 .. Len(rule.stk)
    BY <1>1, <1>6, <2>1, <2>2, <2>3, JavaTop2 DEF if_icmp, Branch
  <2>5. len = Java!Offset /\ 2 = Java!Taken
    BY <1>3, <1>4, <2>1, <2>2, <2>3, HoldsIs DEF Java!Offset, Java!Taken
  <2>6. Pops(method, frame.pc, frame.pc + len, 2)
    BY <2>1, <2>3
  <2> QED BY <1>1, <2>4, <2>5, <2>6, JumpIs
<1>7. CASE ifnull
  <2>1. /\ ins.op = "ifnull" /\ Top(rule.stk, "A")
        /\ Pops(method, frame.pc, frame.pc + 3, 1) /\ Pops(method, frame.pc, frame.pc + ins.arg.to, 1)
    BY <1>2, <1>7 DEF ifnull, Fetch, BranchRule, rule
  <2>2. Java!operand(0) = top(opst).value /\ 1 \in 0 .. Len(rule.stk)
    BY <1>1, <2>1, JavaTop
  <2>3. PICK len : len = IF top(opst).value = 0 THEN ins.arg.to ELSE 3
    OBVIOUS
  <2>4. Advance(drop(opst, 1), len)
    BY <1>7, <2>3 DEF ifnull, Branch, NULL
  <2>5. len = Java!Offset /\ 1 = Java!Taken
    BY <1>3, <1>4, <2>1, <2>2, <2>3 DEF Java!Offset, Java!Taken
  <2>6. Pops(method, frame.pc, frame.pc + len, 1)
    BY <2>1, <2>3
  <2> QED BY <1>1, <2>2, <2>4, <2>5, <2>6, JumpIs
<1>8. CASE goto
  <2>1. ins.op = "goto" /\ Pops(method, frame.pc, frame.pc + ins.arg.to, 0)
    BY <1>2, <1>8 DEF goto, Fetch, BranchRule
  <2>2. drop(opst, 0) = opst /\ 0 \in 0 .. Len(rule.stk)
    BY <1>1, NoDrop, Current
  <2>3. Advance(drop(opst, 0), ins.arg.to)
    BY <1>8, <2>2 DEF goto, Branch
  <2>4. ins.arg.to = Java!Offset /\ 0 = Java!Taken
    BY <1>3, <2>1 DEF Java!Offset, Java!Taken
  <2> QED BY <1>1, <2>1, <2>2, <2>3, <2>4, JumpIs
<1> QED BY <1>5, <1>6, <1>7, <1>8

LEMMA TableswitchRefines ==
  ASSUME SafeInv, SafeInv', CommonGround, tableswitch
  PROVE  Java!Jumps
<1>1. status = "run" /\ ins.op = "tableswitch"
  BY DEF tableswitch, Fetch
<1>2. PICK low, high, key, targets, pc : /\ low = ins.arg.low /\ high = ins.arg.high /\ key = int32(top(opst))
                                         /\ targets = ins.arg.targets /\ pc = frame.pc
  OBVIOUS
<1>3. /\ Top(rule.stk, "I") /\ pc % 4 # 0 /\ low \in Int /\ high \in Int
      /\ DOMAIN targets = low .. high /\ Pops(method, pc, pc + ins.arg.default, 1)
      /\ \A k \in low .. high : Pops(method, pc, pc + targets[k], 1)
  BY <1>1, <1>2, Rules DEF BranchRule, rule
<1>4. Java!ins = ins /\ ins = rule
  BY <1>1, JavaHere
<1>5. key \in Int /\ Java!operand(0) = key /\ 1 \in 0 .. Len(rule.stk)
  BY <1>1, <1>2, <1>3, JavaTop
<1>6. read_high(high) = high
  BY <1>1, <1>2 DEF CommonGround, NumbersAgree
<1>7. CASE low <= key /\ key <= high
  <2>1. key \in low .. high /\ pc + targets[key] \in DOMAIN code
    <3>1. key \in low .. high
      BY <1>3, <1>5, <1>7
    <3>2. Pops(method, pc, pc + targets[key], 1) /\ code = method.code
      BY <1>1, <1>3, <3>1, Current
    <3> QED BY <3>1, <3>2 DEF Pops, Flows
  <2>2. Advance(drop(opst, 1), targets[key])
    BY <1>2, <1>3, <1>6, <1>7, <2>1 DEF tableswitch
  <2>3. targets[key] = Java!Offset /\ 1 = Java!Taken
    BY <1>1, <1>2, <1>4, <1>5, <2>1 DEF Java!Offset, Java!Taken
  <2>4. Pops(method, frame.pc, frame.pc + targets[key], 1)
    BY <1>2, <1>3, <2>1
  <2> QED BY <1>1, <1>5, <2>2, <2>3, <2>4, JumpIs
<1>8. CASE ~(low <= key /\ key <= high)
  <2>1. Advance(drop(opst, 1), ins.arg.default)
    BY <1>2, <1>3, <1>6, <1>8 DEF tableswitch
  <2>2. key \notin low .. high
    BY <1>8
  <2>3. ins.arg.default = Java!Offset /\ 1 = Java!Taken
    BY <1>1, <1>2, <1>4, <1>5, <2>2 DEF Java!Offset, Java!Taken
  <2> QED BY <1>1, <1>2, <1>3, <1>5, <2>1, <2>3, JumpIs
<1> QED BY <1>7, <1>8

-----------------------------------------------------------------------------
\* Objects are created.
LEMMA TupleOf ==
  ASSUME NEW n \in Nat, NEW f, f = [i \in 1 .. n |-> f[i]]
  PROVE  IsSequence(f) /\ Len(f) = n
<1> DEFINE S == {f[i] : i \in 1 .. n}
<1>1. f \in [1 .. n -> S]
  OBVIOUS
<1>2. f \in Seq(S) /\ Len(f) = n
  <2> HIDE DEF S
  <2> QED BY <1>1
<1> QED BY <1>2, SequenceOfSet

LEMMA SingleIs ==
  ASSUME NEW x
  PROVE  IsSequence(<<x>>) /\ Len(<<x>>) = 1 /\ <<x>>[1] = x
BY DEF IsSequence, Elements

LEMMA HeapIs ==
  ASSUME SafeInv
  PROVE  /\ IsSequence(memory) /\ Len(memory) \in Nat
         /\ IsSequence(JavaHeap) /\ Len(JavaHeap) = Len(memory)
         /\ \A p \in 1 .. Len(memory) : JavaHeap[p] = JavaObject(memory[p])
<1>1. IsSequence(memory) /\ Len(memory) \in Nat
  BY DEF SafeInv, HeapsOK, IsSequence
<1>2. PICK f : f = JavaHeap
  OBVIOUS
<1>3. f = [p \in 1 .. Len(memory) |-> JavaObject(memory[p])]
  BY <1>2 DEF JavaHeap
<1>4. f = [p \in 1 .. Len(memory) |-> f[p]]
  BY <1>3
<1> QED BY <1>1, <1>2, <1>3, <1>4, TupleOf

LEMMA MoreObjects ==
  ASSUME SafeInv, NEW blocks, IsSequence(blocks), memory' = memory \o blocks
  PROVE  JavaHeap' = JavaHeap \o [i \in 1 .. Len(blocks) |-> JavaObject(blocks[i])]
<1>1. PICK n \in Nat, k \in Nat : n = Len(memory) /\ k = Len(blocks)
  BY HeapIs, SequenceOfSet DEF IsSequence
<1>2. /\ Len(memory') = n + k /\ (\A i \in 1 .. n : memory'[i] = memory[i])
      /\ \A i \in 1 .. k : memory'[n + i] = blocks[i]
  BY <1>1, HeapIs, ConcatElements
<1>3. PICK f, g, h : /\ f = JavaHeap' /\ g = JavaHeap
                     /\ h = [i \in 1 .. k |-> JavaObject(blocks[i])]
  OBVIOUS
<1>4. PICK w : w = g \o h
  OBVIOUS
<1>5. PICK m : m = memory'
  OBVIOUS
<1>6. f = [p \in 1 .. n + k |-> JavaObject(m[p])]
  BY <1>2, <1>3, <1>5 DEF JavaHeap
<1>7. IsSequence(f) /\ Len(f) = n + k
  <2>1. PICK t \in Nat : t = n + k
    OBVIOUS
  <2>2. f = [p \in 1 .. t |-> f[p]]
    BY <1>6, <2>1
  <2> QED BY <2>1, <2>2, TupleOf
<1>8. IsSequence(h) /\ Len(h) = k
  <2>1. h = [p \in 1 .. k |-> h[p]]
    BY <1>3
  <2> QED BY <2>1, TupleOf
<1>9. IsSequence(g) /\ Len(g) = n /\ \A p \in 1 .. n : g[p] = JavaObject(memory[p])
  BY <1>1, <1>3, HeapIs
<1>10. /\ IsSequence(w) /\ Len(w) = n + k /\ (\A i \in 1 .. n : w[i] = g[i])
      /\ \A i \in 1 .. k : w[n + i] = h[i]
  <2>1. Joined(g, h, w)
    BY <1>4, <1>8, <1>9, Join
  <2> QED BY <1>8, <1>9, <2>1 DEF Joined
<1>11. ASSUME NEW p \in 1 .. n + k
      PROVE  f[p] = w[p]
  <2>1. CASE p \in 1 .. n
    BY <1>2, <1>5, <1>6, <1>9, <1>10, <2>1
  <2>2. CASE p \notin 1 .. n
    <3>1. PICK i \in 1 .. k : p = n + i
      <4>1. p - n \in 1 .. k /\ p = n + (p - n)
        BY <2>2
      <4> QED BY <4>1
    <3>2. f[p] = JavaObject(blocks[i])
      BY <1>2, <1>5, <1>6, <3>1
    <3>3. w[p] = h[i] /\ h[i] = JavaObject(blocks[i])
      BY <1>3, <1>10, <3>1
    <3> QED BY <3>2, <3>3
  <2> QED BY <2>1, <2>2
<1>12. f = w
  BY <1>7, <1>10, <1>11, SameSequence
<1> QED BY <1>1, <1>4, <1>3, <1>12

\* The reference to the last block made takes the place of n operands.
LEMMA CreatesIs ==
  ASSUME SafeInv, SafeInv', status = "run", NEW blocks, IsSequence(blocks), memory' = memory \o blocks,
         UNCHANGED <<class_heap, class_names, statics>>, NEW n \in 0 .. Len(rule.stk), NEW p,
         p = Len(memory) + Len(blocks), NEW len, Goto(push_ref(drop(opst, n), p), frame.pc + len),
         Pushes(method, frame.pc, len, n, "A"), len = Java!Size,
         NEW objects, objects = [i \in 1 .. Len(blocks) |-> JavaObject(blocks[i])]
  PROVE  Java!Creates(Java!Below(n), objects)
<1>1. Len(memory) \in Nat /\ Len(JavaHeap) = Len(memory) /\ Len(blocks) \in Nat
  BY HeapIs DEF IsSequence
<1>2. p \in Int /\ p = Len(JavaHeap) + Len(objects)
  <2>1. PICK k \in Nat : k = Len(blocks)
    BY <1>1
  <2>2. objects = [i \in 1 .. k |-> objects[i]]
    BY <2>1
  <2>3. Len(objects) = k
    BY <2>2, TupleOf
  <2> QED BY <1>1, <2>1, <2>3
<1>3. JavaHeap' = JavaHeap \o objects
  BY MoreObjects
<1>4. Java!Below(n) = Values(drop(opst, n)) /\ drop(opst, n) \in Seq(Entry)
  BY JavaOperands
<1>5. Values(push_ref(drop(opst, n), p)) = Append(Java!Below(n), p)
  BY <1>2, <1>4, PushedValues
<1>6. Java!Yield(Values(push_ref(drop(opst, n), p)))
  <2>1. DOMAIN statics' = DOMAIN statics
    OBVIOUS
  <2>2. PICK stack : stack = push_ref(drop(opst, n), p)
    OBVIOUS
  <2>3. Java!Yield(Values(stack))
    BY <2>1, <2>2, YieldIs
  <2> QED BY <2>2, <2>3
<1> QED BY <1>2, <1>3, <1>5, <1>6 DEF Java!Creates

\* One object.
LEMMA CreatesOne ==
  ASSUME SafeInv, SafeInv', status = "run", NEW block, Allocate(<<block>>),
         UNCHANGED <<class_heap, class_names, statics>>, NEW n \in 0 .. Len(rule.stk), NEW len,
         Goto(push_ref(drop(opst, n), Len(memory) + 1), frame.pc + len),
         Pushes(method, frame.pc, len, n, "A"), len = Java!Size
  PROVE  Java!Creates(Java!Below(n), <<JavaObject(block)>>)
<1>1. PICK blocks : blocks = <<block>>
  OBVIOUS
<1>2. IsSequence(blocks) /\ Len(blocks) = 1 /\ blocks[1] = block /\ memory' = memory \o blocks
  BY <1>1 DEF Allocate, IsSequence, Elements
<1>3. PICK objects : objects = [i \in 1 .. Len(blocks) |-> JavaObject(blocks[i])]
  OBVIOUS
<1>4. objects = <<JavaObject(block)>>
  BY <1>2, <1>3
<1>5. Java!Creates(Java!Below(n), objects)
  BY <1>2, <1>3, CreatesIs
<1> QED BY <1>4, <1>5

LEMMA StringIs ==
  ASSUME NEW c
  PROVE  JavaObject(new_string(c)) = Java!String
BY DEF JavaObject, new_string, Block, Java!String, Java!Object

LEMMA LdcRefines ==
  ASSUME SafeInv, SafeInv', CommonGround, ldc
  PROVE  Java!IntConstant \/ Java!Literal
<1>1. status = "run" /\ ins.op = "ldc"
  BY DEF ldc, Fetch
<1>2. /\ Java!ins = ins /\ ins = rule /\ Java!stack = Values(opst)
      /\ \A ops : Java!Is(ops) <=> ins.op \in ops
  BY <1>1, JavaHere
<1>3. ~HeapFull /\ ins.arg.tag \in {"Integer", "String"}
  BY <1>1, Rules DEF CommonGround, ObjectsAgree, ConstantRule
<1>4. Java!Size = 2
  BY <1>1, <1>2 DEF Java!Size
<1>5. opst \in Seq(Entry) /\ Java!Below(0) = Values(opst) /\ drop(opst, 0) = opst /\ 0 \in 0 .. Len(rule.stk)
  <2>1. 0 \in 0 .. Len(rule.stk) /\ Len(opst) = Len(rule.stk)
    BY <1>1, Current, JavaOperands
  <2> QED BY <1>1, <2>1, JavaOperands, NoDrop
<1>6. CASE ins.arg.tag = "Integer"
  <2>1. Advance(push_int(opst, ins.arg.value), 2)
    BY <1>3, <1>6 DEF ldc
  <2>2. /\ ins.arg.value \in SignedRange(IntHalf) /\ ins.arg.value \in Int
        /\ Pushes(method, frame.pc, 2, 0, "I")
    BY <1>1, <1>6, ConstantTyped
  <2>3. Values(push_int(opst, ins.arg.value)) = Append(Values(opst), ins.arg.value)
    BY <1>5, <2>2, PushedValues, SignedSame, Widths
  <2>4. PICK stack : stack = push_int(opst, ins.arg.value)
    OBVIOUS
  <2>5. Java!Yield(Values(stack)) /\ UNCHANGED <<statics, JavaHeap>>
    BY <1>1, <1>4, <2>1, <2>2, <2>4, AdvanceIs
  <2> QED BY <1>1, <1>2, <1>6, <2>3, <2>4, <2>5 DEF Java!IntConstant
<1>7. CASE ins.arg.tag = "String"
  <2>1. /\ Allocate(<<new_string(frame.clazz)>>) /\ Goto(push_ref(opst, Len(memory) + 1), frame.pc + 2)
        /\ UNCHANGED <<class_heap, class_names, statics>>
    BY <1>3, <1>7 DEF ldc
  <2>2. Pushes(method, frame.pc, 2, 0, "A")
    BY <1>1, <1>7, ConstantTyped
  <2>3. Java!Creates(Java!Below(0), <<JavaObject(new_string(frame.clazz))>>)
    BY <1>1, <1>4, <1>5, <2>1, <2>2, CreatesOne
  <2> QED BY <1>1, <1>2, <1>5, <1>7, <2>3, StringIs DEF Java!Literal
<1> QED BY <1>3, <1>6, <1>7

-----------------------------------------------------------------------------
\* Arrays.
LEMMA ArrayIs ==
  ASSUME NEW c, NEW n \in Int, NEW u \in Int
  PROVE  JavaObject(new_array(c, n, u)) = Java!NewArray(n, u)
BY DEF JavaObject, new_array, Block, Java!NewArray, Java!Object, Java!Wrapped, Signed

LEMMA NewarrayRefines ==
  ASSUME SafeInv, SafeInv', CommonGround, newarray
  PROVE  Java!ArrayCreated
<1>1. status = "run" /\ ins.op = "newarray"
  BY DEF newarray, Fetch
<1>2. /\ Java!ins = ins /\ ins = rule
      /\ \A ops : Java!Is(ops) <=> ins.op \in ops
  BY <1>1, JavaHere
<1>3. ins.arg = "T_INT" /\ Top(rule.stk, "I") /\ Pushes(method, frame.pc, 2, 1, "A")
  BY <1>1, Rules DEF ArrayRule, rule
<1>4. PICK count \in Int : /\ count = int32(top(opst)) /\ Java!operand(0) = count
                           /\ 1 \in 0 .. Len(rule.stk)
  BY <1>1, <1>3, JavaTop
<1>5. count >= 0 /\ ~HeapFull
  BY <1>1, <1>4 DEF CommonGround, ObjectsAgree
<1>6. /\ \E junk \in Junk : Allocate(<<new_array(frame.clazz, count, junk)>>)
      /\ Goto(push_ref(drop(opst, 1), Len(memory) + 1), frame.pc + 2)
      /\ UNCHANGED <<class_heap, class_names, statics>>
  BY <1>3, <1>4, <1>5 DEF newarray
<1>7. PICK junk \in Junk : Allocate(<<new_array(frame.clazz, count, junk)>>)
  BY <1>6
<1>8. Java!Size = 2
  BY <1>1, <1>2 DEF Java!Size
<1>9. PICK block : block = new_array(frame.clazz, count, junk)
  OBVIOUS
<1>10. Java!Creates(Java!Below(1), <<JavaObject(block)>>)
  BY <1>1, <1>3, <1>4, <1>6, <1>7, <1>8, <1>9, CreatesOne
<1>11. JavaObject(block) = Java!NewArray(count, junk)
  BY <1>9, ArrayIs, WorldAssumption
<1> QED BY <1>1, <1>2, <1>4, <1>5, <1>10, <1>11 DEF Java!ArrayCreated

LEMMA MultianewarrayRefines ==
  ASSUME SafeInv, SafeInv', CommonGround, multianewarray
  PROVE  Java!MatrixCreated
<1>1. status = "run" /\ ins.op = "multianewarray"
  BY DEF multianewarray, Fetch
<1>2. /\ Java!ins = ins /\ ins = rule
      /\ \A ops : Java!Is(ops) <=> ins.op \in ops
  BY <1>1, JavaHere
<1>3. ins.arg = "[[I" /\ Top2(rule.stk, "I", "I") /\ Pushes(method, frame.pc, 4, 2, "A")
  BY <1>1, Rules DEF ArrayRule, rule
<1>4. PICK x, y : x = int32(top(opst)) /\ y = int32(peek(opst, 1))
  OBVIOUS
<1>5. /\ Java!operand(0) = x /\ Java!operand(1) = y /\ 2 \in 0 .. Len(rule.stk)
      /\ x \in Int /\ y \in Int
  BY <1>1, <1>3, <1>4, JavaTop, JavaTop2
<1>6. x \in Nat /\ y = x /\ ~HeapFull
  BY <1>1, <1>4, <1>5 DEF CommonGround, ObjectsAgree
<1>7. PICK junk \in Junk :
        /\ Allocate([j \in 1 .. x |-> new_array(frame.clazz, x, junk)]
                     \o <<Block("int[][]", frame.clazz, [i \in 0 .. x - 1 |-> Len(memory) + 1 + i])>>)
        /\ Goto(push_ref(drop(opst, 2), Len(memory) + x + 1), frame.pc + 4)
        /\ UNCHANGED <<class_heap, class_names, statics>>
  <2>1. ~(y < 0) /\ x >= 0
    BY <1>6
  <2> QED BY <1>3, <1>4, <1>6, <2>1 DEF multianewarray
<1>8. PICK rows, table : /\ rows = [j \in 1 .. x |-> new_array(frame.clazz, x, junk)]
                         /\ table = Block("int[][]", frame.clazz, [i \in 0 .. x - 1 |-> Len(memory) + 1 + i])
  OBVIOUS
<1>9. PICK last, blocks : last = <<table>> /\ blocks = rows \o last
  OBVIOUS
<1>10. IsSequence(rows) /\ Len(rows) = x
  <2>1. rows = [j \in 1 .. x |-> rows[j]]
    BY <1>8
  <2> QED BY <1>6, <2>1, TupleOf
<1>11. IsSequence(last) /\ Len(last) = 1 /\ last[1] = table
  BY <1>9, SingleIs
<1>12. /\ IsSequence(blocks) /\ Len(blocks) = x + 1
       /\ (\A j \in 1 .. x : blocks[j] = rows[j]) /\ blocks[x + 1] = table
  <2>1. Joined(rows, last, blocks)
    BY <1>9, <1>10, <1>11, Join
  <2> QED BY <1>10, <1>11, <2>1 DEF Joined
<1>13. PICK objects : objects = [j \in 1 .. x + 1 |-> JavaObject(blocks[j])]
  OBVIOUS
<1>14. Java!Creates(Java!Below(2), objects)
  <2>1. memory' = memory \o blocks
    BY <1>7, <1>8, <1>9 DEF Allocate
  <2>2. PICK p : p = Len(memory) + x + 1
    OBVIOUS
  <2>3. p = Len(memory) + Len(blocks)
    BY <1>6, <1>12, <2>2, HeapIs
  <2>4. Java!Size = 4
    BY <1>1, <1>2 DEF Java!Size
  <2>5. objects = [j \in 1 .. Len(blocks) |-> JavaObject(blocks[j])]
    BY <1>12, <1>13
  <2> QED BY <1>1, <1>3, <1>5, <1>7, <1>12, <2>1, <2>2, <2>3, <2>4, <2>5, CreatesIs
<1>15. PICK javarows, javatable, javalast :
         /\ javarows = [i \in 1 .. x |-> Java!NewArray(x, junk)]
         /\ javatable = Java!Object("int[][]", "none", [i \in 0 .. x - 1 |-> Len(JavaHeap) + 1 + i])
         /\ javalast = <<javatable>>
  OBVIOUS
<1>16. JavaObject(table) = javatable
  <2>1. Len(JavaHeap) = Len(memory)
    BY HeapIs
  <2> QED BY <1>8, <1>15, <2>1 DEF JavaObject, Block, Java!Object
<1>17. objects = javarows \o javalast
  <2>1. IsSequence(javarows) /\ Len(javarows) = x
    <3>1. javarows = [j \in 1 .. x |-> javarows[j]]
      BY <1>15
    <3> QED BY <1>6, <3>1, TupleOf
  <2>2. IsSequence(javalast) /\ Len(javalast) = 1 /\ javalast[1] = javatable
    BY <1>15, SingleIs
  <2>3. PICK w : w = javarows \o javalast
    OBVIOUS
  <2>4. Joined(javarows, javalast, w)
    BY <2>1, <2>2, <2>3, Join
  <2>5. /\ Len(w) = x + 1 /\ w[x + 1] = javatable
        /\ \A j \in 1 .. x : w[j] = Java!NewArray(x, junk)
    <3>1. \A j \in 1 .. x : javarows[j] = Java!NewArray(x, junk)
      BY <1>15
    <3> QED BY <2>1, <2>2, <2>4, <3>1 DEF Joined
  <2>6. ASSUME NEW j \in 1 .. x
        PROVE  objects[j] = Java!NewArray(x, junk)
    <3>1. objects[j] = JavaObject(new_array(frame.clazz, x, junk))
      BY <1>6, <1>8, <1>12, <1>13
    <3> QED BY <1>6, <3>1, ArrayIs, WorldAssumption
  <2>7. objects[x + 1] = javatable
    BY <1>6, <1>12, <1>13, <1>16
  <2>8. \A j \in 1 .. x + 1 : objects[j] = w[j]
    BY <1>6, <2>5, <2>6, <2>7
  <2>9. IsSequence(objects) /\ Len(objects) = x + 1
    <3>1. PICK t \in Nat : t = x + 1
      BY <1>6
    <3>2. objects = [j \in 1 .. t |-> objects[j]]
      BY <1>13, <3>1
    <3> QED BY <3>1, <3>2, TupleOf
  <2>10. objects = w
    BY <2>4, <2>5, <2>8, <2>9, SameSequence DEF Joined
  <2> QED BY <2>3, <2>10
<1>18. /\ Java!Is({"multianewarray"}) /\ Java!operand(0) >= 0 /\ Java!operand(1) >= 0
       /\ Java!Creates(Java!Below(2), [i \in 1 .. x |-> Java!NewArray(x, junk)] \o
            <<Java!Object("int[][]", "none", [i \in 0 .. x - 1 |-> Len(JavaHeap) + 1 + i])>>)
  BY <1>1, <1>2, <1>5, <1>6, <1>14, <1>15, <1>17
<1> QED BY <1>5, <1>6, <1>18 DEF Java!MatrixCreated

\* The elements of an array, if the reference is to an array or null.
LEMMA ElementIs ==
  ASSUME SafeInv, NEW kind \in {"int[]", "int[][]"}, NEW p, NullOr(p, kind), NEW i
  PROVE  /\ Java!ElementOf(p, i) <=> Element(p, kind, i)
         /\ Element(p, kind, i) =>
              /\ JavaHeap[p].cells[i] = IF kind = "int[]" THEN Signed(memory[p].cells[i], IntHalf)
                                        ELSE memory[p].cells[i]
              /\ memory[p].cells[i] \in Int
<1>1. Len(memory) \in Nat /\ \A q \in 1 .. Len(memory) : JavaHeap[q] = JavaObject(memory[q])
  BY HeapIs
<1>2. CASE p = NULL
  <2>1. ~(p \in 1 .. Len(memory))
    BY <1>1, <1>2 DEF NULL
  <2> QED BY <1>2, <2>1 DEF Java!ElementOf, Element, Points, NULL
<1>3. CASE Points(p, kind)
  <2>1. p \in 1 .. Len(memory) /\ memory[p].kind = kind /\ p # 0
    BY <1>1, <1>3 DEF Points
  <2>2. memory[p].cells \in [DOMAIN memory[p].cells -> Int]
    BY <2>1 DEF SafeInv, HeapsOK, BlockTypeOK
  <2>3. JavaHeap[p].cells = IF kind = "int[]"
                            THEN [j \in DOMAIN memory[p].cells |-> Signed(memory[p].cells[j], IntHalf)]
                            ELSE memory[p].cells
    <3>1. PICK b : b = memory[p]
      OBVIOUS
    <3>2. JavaHeap[p] = JavaObject(b)
      BY <1>1, <2>1, <3>1
    <3>3. b.kind = kind /\ kind # "object"
      BY <2>1, <3>1
    <3>4. JavaObject(b).cells = IF kind = "int[]" THEN [j \in DOMAIN b.cells |-> Signed(b.cells[j], IntHalf)]
                                ELSE b.cells
      BY <3>3 DEF JavaObject
    <3> QED BY <3>1, <3>2, <3>4
  <2>4. DOMAIN JavaHeap[p].cells = DOMAIN memory[p].cells
    BY <2>3
  <2> QED BY <1>3, <2>1, <2>2, <2>3, <2>4 DEF Java!ElementOf, Element
<1> QED BY <1>2, <1>3 DEF NullOr

LEMMA WildIs ==
  ASSUME SafeInv, status = "run", NEW p, WildAccess(p), Java!Throws
  PROVE  Java!Uncaught
<1>1. {"segv", "undefined"} \subseteq Terminal \ {"exit"}
  BY DEF Terminal
<1> QED BY <1>1, CrashIs DEF WildAccess

LEMMA ElementReadRefines ==
  ASSUME SafeInv, SafeInv', CommonGround, iaload \/ aaload
  PROVE  Java!ElementRead \/ Java!Uncaught
<1>1. status = "run" /\ ins.op \in {"iaload", "aaload"}
  BY DEF iaload, aaload, Fetch
<1>2. /\ Java!ins = ins /\ ins = rule
      /\ \A ops : Java!Is(ops) <=> ins.op \in ops
  BY <1>1, JavaHere
<1>3. Top2(rule.stk, "A", "I") /\ Pushes(method, frame.pc, 1, 2, IF ins.op = "iaload" THEN "I" ELSE "A")
  BY <1>1, Rules DEF ArrayRule, rule
<1>4. PICK index \in Int, arr \in Int : /\ index = int32(top(opst)) /\ arr = peek(opst, 1).value
                                        /\ Java!operand(0) = index /\ Java!operand(1) = arr
  BY <1>1, <1>3, JavaTop, JavaTop2
<1>5. PICK kind \in {"int[]", "int[][]"} : kind = IF ins.op = "iaload" THEN "int[]" ELSE "int[][]"
  OBVIOUS
<1>6. NullOr(arr, kind)
  BY <1>1, <1>4, <1>5 DEF CommonGround, ObjectsAgree
<1>7. CASE Element(arr, kind, index)
  <2>1. PICK v \in Int : v = memory[arr].cells[index]
    BY <1>6, <1>7, ElementIs
  <2>2. PICK stack : stack = IF ins.op = "iaload" THEN push_int(drop(opst, 2), v)
                                                   ELSE push_ref(drop(opst, 2), v)
    OBVIOUS
  <2>3. Advance(stack, 1)
    BY <1>1, <1>4, <1>5, <1>7, <2>1, <2>2 DEF iaload, aaload, Fetch
  <2>4. drop(opst, 2) \in Seq(Entry) /\ 2 \in 0 .. Len(rule.stk)
    BY <1>1, <1>3, JavaTop2
  <2>5. Values(stack) = Append(Values(drop(opst, 2)), JavaHeap[arr].cells[index])
    <3>1. JavaHeap[arr].cells[index] = IF kind = "int[]" THEN Signed(v, IntHalf) ELSE v
      BY <1>6, <1>7, <2>1, ElementIs
    <3>2. PICK rest \in Seq(Entry) : rest = drop(opst, 2)
      BY <2>4
    <3>3. /\ Values(push_int(rest, v)) = Append(Values(rest), Signed(v, IntHalf))
          /\ Values(push_ref(rest, v)) = Append(Values(rest), v)
      BY PushedValues
    <3> QED BY <1>1, <1>5, <2>2, <3>1, <3>2, <3>3
  <2>6. Java!Size = 1
    BY <1>1, <1>2 DEF Java!Size
  <2>7. /\ Java!Yield(Append(Java!Below(2), JavaHeap[arr].cells[index]))
        /\ UNCHANGED <<statics, JavaHeap>>
    BY <1>1, <1>3, <2>3, <2>4, <2>5, <2>6, ResultIs
  <2>8. Java!ElementOf(arr, index)
    BY <1>6, <1>7, ElementIs
  <2> QED BY <1>1, <1>2, <1>4, <2>7, <2>8 DEF Java!ElementRead
<1>8. CASE ~Element(arr, kind, index)
  <2>1. WildAccess(arr)
    BY <1>1, <1>4, <1>5, <1>8 DEF iaload, aaload, Fetch
  <2>2. ~Java!ElementOf(arr, index)
    BY <1>6, <1>8, ElementIs
  <2>3. Java!Throws
    BY <1>1, <1>2, <1>4, <2>2 DEF Java!Throws
  <2> QED BY <1>1, <2>1, <2>3, WildIs
<1> QED BY <1>7, <1>8

\* Cell i of block p is assigned v, and of object p, w.
BlockAssigned(p, i, v)  == memory' = [memory EXCEPT ![p].cells[i] = v]
ObjectAssigned(p, i, w) == JavaHeap' = [JavaHeap EXCEPT ![p].cells[i] = w]

\* A cell of a block is a cell of its object.
LEMMA CellIs ==
  ASSUME SafeInv, NEW p \in 1 .. Len(memory), NEW i \in DOMAIN memory[p].cells, NEW v,
         memory[p].kind \in {"int[]", "object"}, BlockAssigned(p, i, v),
         NEW w, memory[p].kind = "int[]" => w = Signed(v, IntHalf), memory[p].kind = "object" => w = v.value
  PROVE  ObjectAssigned(p, i, w)
<1> USE DEF BlockAssigned, ObjectAssigned
<1>1. PICK n \in Nat : n = Len(memory)
  BY HeapIs
<1>2. PICK m, b : m = memory' /\ b = memory[p]
  OBVIOUS
<1>3. /\ b \in [kind : {"object", "string", "int[]", "int[][]"}, clazz : DOMAIN prog.classes, cells : {b.cells}]
      /\ b.cells = [j \in DOMAIN b.cells |-> b.cells[j]]
  BY <1>2 DEF SafeInv, HeapsOK, BlockTypeOK
<1>4. /\ Len(m) = n /\ \A q \in 1 .. n : m[q] = IF q = p THEN [b EXCEPT !.cells[i] = v] ELSE memory[q]
  <2>1. IsSequence(memory)
    BY HeapIs
  <2>2. memory \in [1 .. n -> Elements(memory)]
    BY <1>1, <2>1 DEF IsSequence
  <2>3. DOMAIN m = 1 .. n
    BY <1>2, <2>2
  <2>4. \A q \in 1 .. n : m[q] = IF q = p THEN [b EXCEPT !.cells[i] = v] ELSE memory[q]
    BY <1>2, <2>2
  <2>5. m \in [1 .. n -> {m[q] : q \in 1 .. n}]
    BY <1>2, <2>2
  <2>6. PICK S : S = {m[q] : q \in 1 .. n}
    OBVIOUS
  <2>7. m \in Seq(S)
    BY <2>5, <2>6
  <2> QED BY <2>3, <2>4, <2>7
<1>5. PICK f, g : f = JavaHeap' /\ g = JavaHeap
  OBVIOUS
<1>6. f = [q \in 1 .. n |-> JavaObject(m[q])]
  BY <1>2, <1>4, <1>5 DEF JavaHeap
<1>7. g = [q \in 1 .. n |-> JavaObject(memory[q])]
  BY <1>1, <1>5 DEF JavaHeap
<1>8. JavaObject([b EXCEPT !.cells[i] = v]) = [JavaObject(b) EXCEPT !.cells[i] = w]
  <2>1. PICK c : c = [b EXCEPT !.cells[i] = v]
    OBVIOUS
  <2>2. /\ c.kind = b.kind /\ c.clazz = b.clazz
        /\ c.cells = [j \in DOMAIN b.cells |-> IF j = i THEN v ELSE b.cells[j]]
    BY <1>3, <2>1
  <2>3. CASE b.kind = "int[]"
    <3>1. c.cells = [j \in DOMAIN b.cells |-> IF j = i THEN v ELSE b.cells[j]] /\ DOMAIN c.cells = DOMAIN b.cells
      BY <2>2
    <3>2. JavaObject(c) = [kind |-> "int[]", clazz |-> "none",
                           cells |-> [j \in DOMAIN b.cells |-> Signed(c.cells[j], IntHalf)]]
      BY <2>2, <2>3, <3>1 DEF JavaObject
    <3>3. JavaObject(b) = [kind |-> "int[]", clazz |-> "none",
                           cells |-> [j \in DOMAIN b.cells |-> Signed(b.cells[j], IntHalf)]]
      BY <2>3 DEF JavaObject
    <3>4. w = Signed(v, IntHalf) /\ i \in DOMAIN b.cells
      BY <1>2, <2>3
    <3>5. [JavaObject(b) EXCEPT !.cells[i] = w] =
            [kind |-> "int[]", clazz |-> "none",
             cells |-> [j \in DOMAIN b.cells |-> IF j = i THEN w ELSE Signed(b.cells[j], IntHalf)]]
      <4>1. PICK cells : cells = [j \in DOMAIN b.cells |-> Signed(b.cells[j], IntHalf)]
        OBVIOUS
      <4>2. [JavaObject(b) EXCEPT !.cells[i] = w] =
              [kind |-> "int[]", clazz |-> "none", cells |-> [cells EXCEPT ![i] = w]]
        <5>1. PICK o : o = JavaObject(b)
          OBVIOUS
        <5>2. o = [kind |-> "int[]", clazz |-> "none", cells |-> cells]
          BY <3>3, <4>1, <5>1
        <5>3. [o EXCEPT !.cells[i] = w] = [kind |-> "int[]", clazz |-> "none", cells |-> [cells EXCEPT ![i] = w]]
          BY SMTT(30), <5>2
        <5> QED BY <5>1, <5>3
      <4>3. [cells EXCEPT ![i] = w] = [j \in DOMAIN b.cells |-> IF j = i THEN w ELSE Signed(b.cells[j], IntHalf)]
        BY <4>1
      <4> QED BY <4>2, <4>3
    <3>6. \A j \in DOMAIN b.cells : Signed(c.cells[j], IntHalf) = IF j = i THEN w ELSE Signed(b.cells[j], IntHalf)
      BY <3>1, <3>4
    <3> QED BY <2>1, <3>2, <3>5, <3>6
  <2>4. CASE b.kind = "object"
    <3>1. c.cells = [j \in DOMAIN b.cells |-> IF j = i THEN v ELSE b.cells[j]] /\ DOMAIN c.cells = DOMAIN b.cells
      BY <2>2
    <3>2. JavaObject(c) = [kind |-> "object", clazz |-> b.clazz,
                           cells |-> [j \in DOMAIN b.cells |-> c.cells[j].value]]
      BY <2>2, <2>4, <3>1 DEF JavaObject
    <3>3. JavaObject(b) = [kind |-> "object", clazz |-> b.clazz,
                           cells |-> [j \in DOMAIN b.cells |-> b.cells[j].value]]
      BY <2>4 DEF JavaObject
    <3>4. w = v.value /\ i \in DOMAIN b.cells
      BY <1>2, <2>4
    <3>5. [JavaObject(b) EXCEPT !.cells[i] = w] =
            [kind |-> "object", clazz |-> b.clazz,
             cells |-> [j \in DOMAIN b.cells |-> IF j = i THEN w ELSE b.cells[j].value]]
      <4>1. PICK cells : cells = [j \in DOMAIN b.cells |-> b.cells[j].value]
        OBVIOUS
      <4>2. [JavaObject(b) EXCEPT !.cells[i] = w] =
              [kind |-> "object", clazz |-> b.clazz, cells |-> [cells EXCEPT ![i] = w]]
        <5>1. PICK o, d : o = JavaObject(b) /\ d = b.clazz
          OBVIOUS
        <5>2. o = [kind |-> "object", clazz |-> d, cells |-> cells]
          BY <3>3, <4>1, <5>1
        <5>3. [o EXCEPT !.cells[i] = w] = [kind |-> "object", clazz |-> d, cells |-> [cells EXCEPT ![i] = w]]
          BY <5>2
        <5> QED BY <5>1, <5>3
      <4>3. [cells EXCEPT ![i] = w] = [j \in DOMAIN b.cells |-> IF j = i THEN w ELSE b.cells[j].value]
        BY <4>1
      <4> QED BY <4>2, <4>3
    <3>6. \A j \in DOMAIN b.cells : c.cells[j].value = IF j = i THEN w ELSE b.cells[j].value
      BY <3>1, <3>4
    <3> QED BY <2>1, <3>2, <3>5, <3>6
  <2> QED BY <1>2, <2>3, <2>4
<1>9. [g EXCEPT ![p].cells[i] = w] = [q \in 1 .. n |-> IF q = p THEN [JavaObject(b) EXCEPT !.cells[i] = w]
                                                        ELSE JavaObject(memory[q])]
  <2>1. g[p] = JavaObject(b) /\ p \in 1 .. n
    BY <1>1, <1>2, <1>7
  <2> QED BY <1>7, <2>1
<1>10. \A q \in 1 .. n : JavaObject(m[q]) = IF q = p THEN [JavaObject(b) EXCEPT !.cells[i] = w]
                                            ELSE JavaObject(memory[q])
  BY <1>4, <1>8
<1> QED BY <1>5, <1>6, <1>9, <1>10

LEMMA ElementWrittenRefines ==
  ASSUME SafeInv, SafeInv', CommonGround, iastore
  PROVE  Java!ElementWritten \/ Java!Uncaught
<1>1. status = "run" /\ ins.op = "iastore"
  BY DEF iastore, Fetch
<1>2. /\ Java!ins = ins /\ ins = rule
      /\ \A ops : Java!Is(ops) <=> ins.op \in ops
  BY <1>1, JavaHere
<1>3. Top3(rule.stk, "A", "I", "I") /\ Pops(method, frame.pc, frame.pc + 1, 3)
  BY <1>1, Rules DEF ArrayRule, rule
<1>4. PICK value, index, arr : /\ value = int32(top(opst)) /\ index = int32(peek(opst, 1))
                               /\ arr = peek(opst, 2).value
  OBVIOUS
<1>5. /\ Java!operand(0) = value /\ value \in SignedRange(IntHalf) /\ Java!operand(1) = index
      /\ Java!operand(2) = arr /\ 3 \in 0 .. Len(rule.stk)
  <2>1. Len(rule.stk) \in Nat /\ 2 < Len(rule.stk) /\ Top2(rule.stk, "I", "I")
    BY <1>1, <1>3, Current DEF Top3
  <2>2. Java!operand(0) = value /\ value \in SignedRange(IntHalf)
    BY <1>1, <1>4, <2>1, JavaTop2, JavaTop
  <2>3. Java!operand(1) = index
    BY <1>1, <1>4, <2>1, JavaTop2
  <2>4. Java!operand(2) = arr
    BY <1>1, <1>4, <2>1, JavaNumbers
  <2> QED BY <2>1, <2>2, <2>3, <2>4
<1>6. NullOr(arr, "int[]")
  BY <1>1, <1>4 DEF CommonGround, ObjectsAgree
<1>7. CASE Element(arr, "int[]", index)
  <2>1. /\ memory' = [memory EXCEPT ![arr].cells[index] = value]
        /\ Goto(drop(opst, 3), frame.pc + 1)
        /\ UNCHANGED <<class_heap, class_names, statics, object_heap>>
    BY <1>4, <1>7 DEF iastore
  <2>2. Signed(value, IntHalf) = value
    BY <1>5, SignedSame, Widths
  <2>3. JavaHeap' = [JavaHeap EXCEPT ![arr].cells[index] = value]
    <3>1. arr \in 1 .. Len(memory) /\ index \in DOMAIN memory[arr].cells /\ memory[arr].kind = "int[]"
      BY <1>7 DEF Element, Points
    <3>2. memory[arr].kind \in {"int[]", "object"} /\ ~(memory[arr].kind = "object")
      BY <3>1
    <3>3. BlockAssigned(arr, index, value)
      BY <2>1 DEF BlockAssigned
    <3>4. ObjectAssigned(arr, index, value)
      BY <2>2, <3>1, <3>2, <3>3, CellIs
    <3> QED BY <3>4 DEF ObjectAssigned
  <2>4. Java!Size = 1
    BY <1>1, <1>2 DEF Java!Size
  <2>5. PICK stack : stack = drop(opst, 3)
    OBVIOUS
  <2>6. Java!Yield(Values(stack))
    BY <1>1, <1>3, <2>1, <2>4, <2>5, YieldIs
  <2>7. Java!Below(3) = Values(stack)
    BY <1>1, <1>5, <2>5, JavaOperands
  <2>8. Java!ElementOf(arr, index)
    BY <1>6, <1>7, ElementIs
  <2> QED BY <1>1, <1>2, <1>5, <2>1, <2>3, <2>6, <2>7, <2>8 DEF Java!ElementWritten
<1>8. CASE ~Element(arr, "int[]", index)
  <2>1. WildAccess(arr)
    BY <1>4, <1>8 DEF iastore
  <2>2. ~Java!ElementOf(arr, index)
    BY <1>6, <1>8, ElementIs
  <2>3. Java!Throws
    BY <1>1, <1>2, <1>5, <2>2 DEF Java!Throws
  <2> QED BY <1>1, <2>1, <2>3, WildIs
<1> QED BY <1>7, <1>8

-----------------------------------------------------------------------------
\* What else the refinement needs.  The classes with static fields are the
\* loaded ones; and an object has the fields of its class, where an int or a
\* long fits.
CellFits(cell, desc) ==
    /\ desc = "I" => cell.value \in SignedRange(IntHalf)
    /\ desc = "J" => cell.value \in SignedRange(LongHalf)

ObjectFits(b) ==
    b.kind = "object" =>
      /\ DOMAIN b.cells = DOMAIN Class(b.clazz).fields
      /\ \A f \in DOMAIN b.cells : CellFits(b.cells[f], Class(b.clazz).fields[f])

ObjectsFit == \A p \in 1 .. Len(memory) : ObjectFits(memory[p])

HeapClasses == \A c : c \in DOMAIN statics <=> Loaded(c)

JavaInv == HeapClasses /\ ObjectsFit

LEMMA SameFit ==
  ASSUME ObjectsFit, UNCHANGED <<prog, memory>>
  PROVE  ObjectsFit'
BY DEF ObjectsFit, ObjectFits, Class

LEMMA BlocksFit ==
  ASSUME SafeInv, ObjectsFit, NEW blocks, IsSequence(blocks), memory' = memory \o blocks,
         UNCHANGED prog, \A i \in 1 .. Len(blocks) : ObjectFits(blocks[i])
  PROVE  ObjectsFit'
<1>1. IsSequence(memory)
  BY DEF SafeInv, HeapsOK
<1>2. /\ Len(memory) \in Nat /\ Len(blocks) \in Nat /\ Len(memory') = Len(memory) + Len(blocks)
      /\ \A i \in 1 .. Len(memory) : memory'[i] = memory[i]
      /\ \A i \in 1 .. Len(blocks) : memory'[Len(memory) + i] = blocks[i]
  <2>1. Joined(memory, blocks, memory')
    BY <1>1, Join
  <2> QED BY <2>1 DEF Joined
<1>3. PICK n : n = Len(memory')
  OBVIOUS
<1>4. n \in Nat /\ Len(memory) <= n
  BY <1>2, <1>3
<1>5. ASSUME NEW p \in 1 .. n
      PROVE  ObjectFits(memory'[p])
  <2>1. CASE p \in 1 .. Len(memory)
    BY <1>2, <2>1 DEF ObjectsFit
  <2>2. CASE p \notin 1 .. Len(memory)
    <3>1. p - Len(memory) \in 1 .. Len(blocks) /\ p = Len(memory) + (p - Len(memory))
      BY <1>2, <1>3, <2>2
    <3>2. memory'[p] = blocks[p - Len(memory)]
      BY <1>2, <3>1
    <3> QED BY <3>1, <3>2
  <2> QED BY <2>1, <2>2
<1> QED BY <1>3, <1>5 DEF ObjectsFit, ObjectFits, Class

LEMMA BlockFits ==
  ASSUME SafeInv, ObjectsFit, NEW block, Allocate(<<block>>), UNCHANGED prog, ObjectFits(block)
  PROVE  ObjectsFit'
<1>1. PICK blocks : blocks = <<block>>
  OBVIOUS
<1>2. IsSequence(blocks) /\ Len(blocks) = 1 /\ blocks[1] = block
  BY <1>1, SingleIs
<1>3. memory' = memory \o blocks
  BY <1>1 DEF Allocate
<1>4. \A i \in 1 .. Len(blocks) : ObjectFits(blocks[i])
  BY <1>2
<1> QED BY <1>2, <1>3, <1>4, BlocksFit

LEMMA CellAssignedFits ==
  ASSUME SafeInv, ObjectsFit, NEW p \in 1 .. Len(memory), NEW i, NEW v, BlockAssigned(p, i, v),
         UNCHANGED prog,
         memory[p].kind = "object" /\ i \in DOMAIN memory[p].cells =>
           CellFits(v, Class(memory[p].clazz).fields[i])
  PROVE  ObjectsFit'
<1>1. IsSequence(memory) /\ Len(memory) \in Nat /\ BlockTypeOK(memory[p])
  BY DEF SafeInv, HeapsOK, IsSequence
<1>2. PICK T : memory \in Seq(T)
  BY <1>1 DEF IsSequence
<1>3. PICK b, n : b = [memory[p] EXCEPT !.cells[i] = v] /\ n = Len(memory)
  OBVIOUS
<1>4. memory' = [memory EXCEPT ![p] = b]
  BY <1>3 DEF BlockAssigned
<1>5. Len(memory') = n /\ \A q \in 1 .. n : memory'[q] = IF q = p THEN b ELSE memory[q]
  BY <1>2, <1>3, <1>4
<1>6. ObjectFits(b)
  <2>1. ObjectFits(memory[p])
    BY DEF ObjectsFit
  <2>2. b.kind = memory[p].kind /\ b.clazz = memory[p].clazz /\ b.cells = [memory[p].cells EXCEPT ![i] = v]
    BY <1>1, <1>3 DEF BlockTypeOK
  <2>3. ASSUME b.kind = "object"
        PROVE  /\ DOMAIN b.cells = DOMAIN Class(b.clazz).fields
               /\ \A f \in DOMAIN b.cells : CellFits(b.cells[f], Class(b.clazz).fields[f])
    <3>1. DOMAIN b.cells = DOMAIN memory[p].cells
      BY <2>2
    <3>2. ASSUME NEW f \in DOMAIN b.cells
          PROVE  CellFits(b.cells[f], Class(b.clazz).fields[f])
      <4>1. CASE f = i
        BY <2>2, <2>3, <3>1, <4>1
      <4>2. CASE f # i
        <5>1. b.cells[f] = memory[p].cells[f]
          BY <2>2, <3>1, <4>2
        <5> QED BY <2>1, <2>2, <2>3, <3>1, <5>1 DEF ObjectFits
      <4> QED BY <4>1, <4>2
    <3> QED BY <2>1, <2>2, <2>3, <3>1, <3>2 DEF ObjectFits
  <2> QED BY <2>2, <2>3 DEF ObjectFits
<1>7. \A q \in 1 .. n : ObjectFits(memory'[q])
  BY <1>3, <1>5, <1>6 DEF ObjectsFit
<1> QED BY <1>5, <1>7 DEF ObjectsFit, ObjectFits, Class

\* The descriptor an instruction names is the descriptor of the field.
LEMMA FieldTyped ==
  ASSUME FieldsAgree, SafeInv, ObjectsFit, status = "run", ins.op \in {"getfield", "putfield"},
         NEW p, Points(p, "object"), ins.arg.name \in DOMAIN memory[p].cells
  PROVE  /\ Class(memory[p].clazz).fields[ins.arg.name] = ins.arg.desc
         /\ CellFits(memory[p].cells[ins.arg.name], ins.arg.desc)
<1>1. p \in 1 .. Len(memory) /\ memory[p].kind = "object"
  BY DEF Points
<1>2. PICK n \in DOMAIN Programs : prog = Programs[n]
  BY DEF SafeInv, ClassInv, HeapInv
<1>3. method \in Methods(Programs[n]) /\ frame.pc \in DOMAIN method.code /\ ins = method.code[frame.pc]
  <2>1. HeapInv /\ Known(frame) /\ frame.pc \in DOMAIN method.code /\ ins = method.code[frame.pc]
    BY Current DEF SafeInv, ClassInv, rule
  <2> QED BY <1>2, <2>1, RunningCode DEF method
<1>4. memory[p].clazz \in DOMAIN Programs[n].classes
  BY <1>1, <1>2 DEF SafeInv, HeapsOK, BlockTypeOK
<1>5. ObjectFits(memory[p])
  BY <1>1 DEF ObjectsFit
<1>6. Programs[n].classes[memory[p].clazz].fields[ins.arg.name] = ins.arg.desc
  BY <1>1, <1>2, <1>3, <1>4, <1>5 DEF FieldsAgree, ObjectFits, Class
<1> QED BY <1>1, <1>2, <1>5, <1>6 DEF ObjectFits, Class

LEMMA StoredFits ==
  ASSUME NEW e \in Entry, InRange(e), NEW desc \in {"I", "J", "L", "String"}
  PROVE  CellFits(Stored(desc, e), desc)
<1>1. PICK v : v = IF e.type = "REF" THEN 0 ELSE stack_to_int(e)
  OBVIOUS
<1>2. v \in Int /\ v \in SignedRange(LongHalf)
  <2>1. 0 \in SignedRange(LongHalf)
    BY Widths DEF SignedRange
  <2> QED BY <1>1, <2>1, ReadsInt
<1>3. CASE desc = "I"
  <2>1. Stored(desc, e).value = Signed(v, IntHalf)
    BY <1>1, <1>3 DEF Stored
  <2> QED BY <1>2, <1>3, <2>1, SignedInRange, Widths DEF CellFits
<1>4. CASE desc = "J"
  <2>1. Stored(desc, e).value = v
    BY <1>1, <1>4 DEF Stored
  <2> QED BY <1>2, <1>4, <2>1 DEF CellFits
<1> QED BY <1>3, <1>4 DEF CellFits

LEMMA FieldsFit ==
  ASSUME FieldsAgree, SafeInv, ObjectsFit, fields
  PROVE  ObjectsFit'
<1>1. CASE putfield
  <2>1. /\ status = "run" /\ ins.op = "putfield" /\ ins.arg.desc \in {"I", "J", "L", "String"}
        /\ ins.arg.name \in DOMAIN memory[Receiver].cells /\ Points(Receiver, "object")
        /\ memory' = [memory EXCEPT ![Receiver].cells[ins.arg.name] = Stored(ins.arg.desc, top(opst))]
        /\ UNCHANGED prog
    BY <1>1 DEF putfield, Addressed, Fetch, Goto
  <2>2. PICK p, v : p = Receiver /\ v = Stored(ins.arg.desc, top(opst))
    OBVIOUS
  <2>3. top(opst) \in Entry /\ InRange(top(opst))
    <3>1. Top2(rule.stk, "A", TypeOf(ins.arg.desc))
      BY <2>1, Rules DEF FieldRule, rule
    <3> QED BY <2>1, <3>1, Top2Read, TopRead
  <2>4. CellFits(v, ins.arg.desc)
    BY <2>1, <2>2, <2>3, StoredFits
  <2>5. p \in 1 .. Len(memory) /\ Class(memory[p].clazz).fields[ins.arg.name] = ins.arg.desc
    BY <2>1, <2>2, FieldTyped DEF Points
  <2>6. BlockAssigned(p, ins.arg.name, v)
    BY <2>1, <2>2 DEF BlockAssigned
  <2> QED BY <2>1, <2>4, <2>5, <2>6, CellAssignedFits
<1>2. CASE static_lookup_fails \/ getstatic \/ putstatic \/ field_lookup_fails \/ getfield
  <2>1. UNCHANGED <<prog, memory>>
    BY <1>2 DEF static_lookup_fails, getstatic, putstatic, field_lookup_fails, getfield,
                Advance, Goto, WildAccess, Crash, vars
  <2> QED BY <2>1, SameFit
<1> QED BY <1>1, <1>2 DEF fields

LEMMA PlainFit ==
  ASSUME NEW b, b.kind # "object"
  PROVE  ObjectFits(b)
BY DEF ObjectFits

LEMMA PushesFit ==
  ASSUME SafeInv, ObjectsFit, pushes
  PROVE  ObjectsFit'
<1>0. UNCHANGED prog
  BY DEF pushes, iconst, bipush, sipush, ldc, ldc2_w, iload, lload, aload, dup, dup2, Advance, Goto, Crash
<1>1. CASE ldc
  <2>1. CASE Allocate(<<new_string(frame.clazz)>>)
    <3>1. ObjectFits(new_string(frame.clazz))
      BY PlainFit DEF new_string, Block
    <3> QED BY <1>0, <2>1, <3>1, BlockFits
  <2>2. CASE UNCHANGED memory
    BY <1>0, <2>2, SameFit
  <2> QED BY <1>1, <2>1, <2>2 DEF ldc, Advance, Crash
<1>2. CASE iconst \/ bipush \/ sipush \/ ldc2_w \/ iload \/ lload \/ aload \/ dup \/ dup2
  <2>1. UNCHANGED memory
    BY <1>2 DEF iconst, bipush, sipush, ldc2_w, iload, lload, aload, dup, dup2, Advance
  <2> QED BY <1>0, <2>1, SameFit
<1> QED BY <1>1, <1>2 DEF pushes

LEMMA ArraysFit ==
  ASSUME SafeInv, ObjectsFit, CommonGround, arrays
  PROVE  ObjectsFit'
<1>0. UNCHANGED prog
  BY DEF arrays, newarray, multianewarray, iaload, iastore, aaload, Advance, Goto, WildAccess, Crash
<1>1. CASE newarray
  <2>1. ASSUME NEW n, NEW junk, Allocate(<<new_array(frame.clazz, n, junk)>>)
        PROVE  ObjectsFit'
    <3>1. ObjectFits(new_array(frame.clazz, n, junk))
      BY PlainFit DEF new_array, Block
    <3> QED BY <1>0, <2>1, <3>1, BlockFits
  <2>2. CASE UNCHANGED memory
    BY <1>0, <2>2, SameFit
  <2> QED BY <1>1, <2>1, <2>2 DEF newarray, Crash
<1>2. CASE multianewarray
  <2>1. status = "run" /\ ins.op = "multianewarray"
    BY <1>2 DEF multianewarray, Fetch
  <2>2. ins.arg = "[[I" /\ Top2(rule.stk, "I", "I")
    BY <2>1, Rules DEF ArrayRule, rule
  <2>3. PICK x, y : x = int32(top(opst)) /\ y = int32(peek(opst, 1))
    OBVIOUS
  <2>4. x \in Nat /\ y = x /\ ~HeapFull /\ ~(y < 0) /\ x >= 0
    <3>1. x \in Int
      BY <2>1, <2>2, <2>3, JavaTop2, JavaTop
    <3> QED BY <2>1, <2>3, <3>1 DEF CommonGround, ObjectsAgree
  <2>5. PICK junk \in Junk :
          Allocate([j \in 1 .. x |-> new_array(frame.clazz, x, junk)]
                   \o <<Block("int[][]", frame.clazz, [i \in 0 .. x - 1 |-> Len(memory) + 1 + i])>>)
    BY <1>2, <2>2, <2>3, <2>4 DEF multianewarray
  <2>6. PICK rows, table : /\ rows = [j \in 1 .. x |-> new_array(frame.clazz, x, junk)]
                           /\ table = Block("int[][]", frame.clazz, [i \in 0 .. x - 1 |-> Len(memory) + 1 + i])
    OBVIOUS
  <2>7. PICK last, blocks : last = <<table>> /\ blocks = rows \o last
    OBVIOUS
  <2>8. IsSequence(rows) /\ Len(rows) = x
    <3>1. rows = [j \in 1 .. x |-> rows[j]]
      BY <2>6
    <3> QED BY <2>4, <3>1, TupleOf
  <2>9. IsSequence(last) /\ Len(last) = 1 /\ last[1] = table
    BY <2>7, SingleIs
  <2>10. /\ IsSequence(blocks) /\ Len(blocks) = x + 1
         /\ (\A j \in 1 .. x : blocks[j] = rows[j]) /\ blocks[x + 1] = table
    <3>1. Joined(rows, last, blocks)
      BY <2>7, <2>8, <2>9, Join
    <3> QED BY <2>8, <2>9, <3>1 DEF Joined
  <2>11. \A j \in 1 .. x : rows[j].kind = "int[]"
    BY <2>6 DEF new_array, Block
  <2>12. table.kind = "int[][]"
    BY <2>6 DEF Block
  <2>13. \A j \in 1 .. Len(blocks) : ObjectFits(blocks[j])
    <3>1. \A j \in 1 .. x + 1 : blocks[j].kind \in {"int[]", "int[][]"}
      BY <2>4, <2>10, <2>11, <2>12
    <3>2. \A j \in 1 .. x + 1 : blocks[j].kind # "object"
      BY <3>1
    <3> QED BY <2>10, <3>2, PlainFit
  <2>14. memory' = memory \o blocks
    BY <2>5, <2>6, <2>7 DEF Allocate
  <2> QED BY <1>0, <2>10, <2>13, <2>14, BlocksFit
<1>3. CASE iastore
  <2>1. PICK arr, index, value : IF Element(arr, "int[]", index)
                                 THEN memory' = [memory EXCEPT ![arr].cells[index] = value]
                                 ELSE WildAccess(arr)
    BY <1>3 DEF iastore
  <2>2. CASE Element(arr, "int[]", index)
    <3>1. BlockAssigned(arr, index, value) /\ arr \in 1 .. Len(memory) /\ memory[arr].kind = "int[]"
      BY <2>1, <2>2 DEF BlockAssigned, Element, Points
    <3>2. memory[arr].kind # "object"
      BY <3>1
    <3> QED BY <1>0, <3>1, <3>2, CellAssignedFits
  <2>3. CASE ~Element(arr, "int[]", index)
    BY <1>0, <2>1, <2>3, SameFit DEF WildAccess, Crash
  <2> QED BY <2>2, <2>3
<1>4. CASE iaload \/ aaload
  <2>1. UNCHANGED memory
    BY <1>4 DEF iaload, aaload, Advance, WildAccess, Crash
  <2> QED BY <1>0, <2>1, SameFit
<1> QED BY <1>1, <1>2, <1>3, <1>4 DEF arrays

LEMMA InvokesFit ==
  ASSUME SafeInv, ObjectsFit, invokes
  PROVE  ObjectsFit'
<1>1. CASE native_string
  <2>0. UNCHANGED prog
    BY <1>1 DEF native_string, Goto, Crash
  <2>1. CASE Allocate(<<new_string(frame.clazz)>>)
    <3>1. ObjectFits(new_string(frame.clazz))
      BY PlainFit DEF new_string, Block
    <3> QED BY <2>0, <2>1, <3>1, BlockFits
  <2>2. CASE UNCHANGED memory
    BY <2>0, <2>2, SameFit
  <2> QED BY <1>1, <2>1, <2>2 DEF native_string, Crash
<1>2. CASE invokedynamic
  <2> DEFINE numbers == {i \in 1 .. ins.arg.params :
                           SubSeq(opst, Len(opst) - ins.arg.params + 1, Len(opst))[i].type # "REF"}
  <2>1. PICK made : made = Cardinality(numbers) + 1
    <3> HIDE DEF numbers
    <3> QED OBVIOUS
  <2>2. made \in Nat
    <3>1. /\ status = "run" /\ ins.op = "invokedynamic"
          /\ FieldRule(method, frame.pc, ins.op, ins.arg, prog.classes)
      BY <1>2, Rules DEF invokedynamic, Fetch
    <3>2. ins.arg.params \in 0 .. Len(rule.stk) /\ Len(rule.stk) \in Nat
      BY <3>1, Current DEF FieldRule, rule
    <3>3. Cardinality(numbers) \in Nat
      BY <3>2, NumbersCounted
    <3> HIDE DEF numbers
    <3> QED BY <2>1, <3>3
  <2>3. CASE /\ memory' = memory \o [i \in 1 .. made |-> new_string(frame.clazz)]
             /\ UNCHANGED prog
    <3>1. PICK blocks : blocks = [i \in 1 .. made |-> new_string(frame.clazz)]
      OBVIOUS
    <3>2. IsSequence(blocks) /\ Len(blocks) = made
      <4>1. blocks = [i \in 1 .. made |-> blocks[i]]
        BY <3>1
      <4> QED BY <2>2, <4>1, TupleOf
    <3>3. \A i \in 1 .. Len(blocks) : blocks[i].kind # "object"
      BY <3>1, <3>2 DEF new_string, Block
    <3> QED BY <2>3, <3>1, <3>2, <3>3, PlainFit, BlocksFit
  <2>4. CASE (\E how : Crash(how)) \/ \E p : WildAccess(p)
    BY <2>4, SameFit DEF Crash, WildAccess
  <2> HIDE DEF numbers
  <2>5. \/ \E how : Crash(how)
        \/ \E p : WildAccess(p)
        \/ /\ memory' = memory \o [i \in 1 .. made |-> new_string(frame.clazz)]
           /\ UNCHANGED prog
    BY <1>2, <2>1, ConcatenationStep DEF numbers, Goto
  <2> QED BY <2>3, <2>4, <2>5
<1>3. CASE \/ invoke_fails \/ invokestatic \/ invokespecial \/ invokevirtual
           \/ native_access_fails \/ native_void \/ native_value
  <2>1. UNCHANGED <<prog, memory>>
    BY <1>3 DEF invoke_fails, invokestatic, invokespecial, invokevirtual, native_access_fails,
                native_void, native_value, Advance, Goto, Call, WildAccess, Crash
  <2> QED BY <2>1, SameFit
<1> QED BY <1>1, <1>2, <1>3 DEF invokes

LEMMA NewFits ==
  ASSUME SafeInv, ObjectsFit, new
  PROVE  ObjectsFit'
<1>0. UNCHANGED prog
  BY DEF new, Goto, Crash
<1>1. CASE Allocate(<<new_object(ins.arg.clazz)>>)
  <2>1. 0 \in SignedRange(IntHalf) /\ 0 \in SignedRange(LongHalf)
    BY Widths DEF SignedRange
  <2>2. ObjectFits(new_object(ins.arg.clazz))
    BY <2>1 DEF ObjectFits, CellFits, new_object, Block
  <2> QED BY <1>0, <1>1, <2>2, BlockFits
<1>2. CASE UNCHANGED memory
  BY <1>0, <1>2, SameFit
<1> QED BY <1>1, <1>2 DEF new, Crash

LEMMA QuietFits ==
  ASSUME ObjectsFit,
         main \/ stores \/ operators \/ branches \/ returns \/ load_class \/ no_case \/ no_return
  PROVE  ObjectsFit'
<1>1. UNCHANGED memory
  BY QuietMain, QuietExecute
<1>2. UNCHANGED prog
  <2>1. CASE main
    BY <2>1 DEF main, native_clinit, add_main_class, call_main, shutdown, RunClinit, Enter, Crash
  <2>2. CASE stores \/ operators
    BY <2>2 DEF stores, istore, lstore, astore, iinc, Store,
                operators, i2l, i2c, ineg, int_arithmetic, long_arithmetic, lcmp, Advance, Goto, Crash
  <2>3. CASE branches
    <3>1. CASE if_cond \/ if_icmp \/ ifnull \/ goto
      BY <3>1 DEF if_cond, if_icmp, ifnull, goto, Branch, Advance, Goto
    <3>2. CASE tableswitch
      BY <3>2, SwitchStep DEF Advance, Goto, Crash
    <3> QED BY <2>3, <3>1, <3>2 DEF branches
  <2>4. CASE returns
    BY <2>4 DEF returns, wrong_return, return_to_main, return_from_clinit, return_from_special,
                return_value, Resume, Crash
  <2>5. CASE load_class
    BY <2>5 DEF load_class, Call, Crash
  <2>6. CASE no_case \/ no_return
    BY <2>6 DEF no_case, no_return, Crash, vars
  <2> QED BY <2>1, <2>2, <2>3, <2>4, <2>5, <2>6
<1> QED BY <1>1, <1>2, SameFit

LEMMA NextFits ==
  ASSUME FieldsAgree, SafeInv, ObjectsFit, CommonGround, [Next]_vars
  PROVE  ObjectsFit'
<1>1. CASE main \/ stores \/ operators \/ branches \/ returns \/ load_class \/ no_case \/ no_return
  BY <1>1, QuietFits
<1>2. CASE pushes \/ arrays \/ fields \/ new \/ invokes
  BY <1>2, PushesFit, ArraysFit, FieldsFit, NewFits, InvokesFit
<1>3. CASE UNCHANGED vars
  BY <1>3, SameFit DEF vars
<1> QED BY <1>1, <1>2, <1>3 DEF Next, execute, ended

LEMMA SameClasses ==
  ASSUME HeapClasses, class_heap' = class_heap, DOMAIN statics' = DOMAIN statics
  PROVE  HeapClasses'
BY DEF HeapClasses, Loaded

LEMMA AddedClasses ==
  ASSUME SafeInv, HeapClasses, NEW c, add_class(c)
  PROVE  HeapClasses' /\ DOMAIN statics' = DOMAIN statics \cup {c}
<1>1. \A d : Loaded(d)' <=> (Loaded(d) \/ d = c)
  BY AppendLoads DEF add_class, SafeInv, ClassInv, HeapInv
<1>2. DOMAIN statics' = DOMAIN statics \cup {c}
  BY DEF add_class
<1> QED BY <1>1, <1>2 DEF HeapClasses

\* All but putstatic and add_class leave the static fields alone.
LEMMA StaticsKept ==
  ASSUME [Next]_vars
  PROVE  (class_heap' = class_heap /\ DOMAIN statics' = DOMAIN statics) \/ \E c : add_class(c)
<1>1. CASE main
  BY <1>1 DEF main, native_clinit, add_main_class, call_main, shutdown, Crash
<1>2. CASE pushes
  BY <1>2 DEF pushes, iconst, bipush, sipush, ldc, ldc2_w, iload, lload, aload, dup, dup2, Advance, Crash
<1>3. CASE stores \/ operators
  BY <1>3 DEF stores, istore, lstore, astore, iinc, Store,
              operators, i2l, i2c, ineg, int_arithmetic, long_arithmetic, lcmp, Advance, Crash
<1>4. CASE branches
  <2>1. CASE if_cond \/ if_icmp \/ ifnull \/ goto
    BY <2>1 DEF if_cond, if_icmp, ifnull, goto, Branch, Advance
  <2>2. CASE tableswitch
    BY <2>2, SwitchStep DEF Advance, Crash
  <2> QED BY <1>4, <2>1, <2>2 DEF branches
<1>5. CASE arrays \/ new
  BY <1>5 DEF arrays, newarray, multianewarray, iaload, iastore, aaload, new, Advance, WildAccess, Crash
<1>6. CASE fields
  <2>1. CASE putstatic
    BY <2>1 DEF putstatic, Advance
  <2>2. CASE static_lookup_fails \/ getstatic \/ field_lookup_fails \/ getfield \/ putfield
    BY <2>2 DEF static_lookup_fails, getstatic, field_lookup_fails, getfield, putfield,
                Advance, WildAccess, Crash, vars
  <2> QED BY <1>6, <2>1, <2>2 DEF fields
<1>7. CASE invokes
  <2>1. CASE invokedynamic
    <3>1. UNCHANGED <<class_heap, class_names, statics>>
      BY <2>1, ZenonT(30) DEF invokedynamic, WildAccess, Crash
    <3> QED BY <3>1
  <2>2. CASE \/ invoke_fails \/ invokestatic \/ invokespecial \/ invokevirtual
             \/ native_access_fails \/ native_void \/ native_value \/ native_string
    BY <2>2 DEF invoke_fails, invokestatic, invokespecial, invokevirtual, native_access_fails,
                native_void, native_value, native_string, Advance, WildAccess, Crash
  <2> QED BY <1>7, <2>1, <2>2 DEF invokes
<1>8. CASE load_class
  BY <1>8 DEF load_class, Crash
<1>9. CASE returns
  BY <1>9 DEF returns, wrong_return, return_to_main, return_from_clinit, return_from_special,
              return_value, Resume, Crash
<1>10. CASE no_case \/ no_return \/ UNCHANGED vars
  BY <1>10 DEF no_case, no_return, Crash, vars
<1> QED BY <1>1, <1>2, <1>3, <1>4, <1>5, <1>6, <1>7, <1>8, <1>9, <1>10 DEF Next, execute, ended

LEMMA NextJavaInv ==
  ASSUME FieldsAgree, SafeInv, JavaInv, CommonGround, [Next]_vars
  PROVE  JavaInv'
<1>1. HeapClasses'
  BY StaticsKept, SameClasses, AddedClasses DEF JavaInv
<1>2. ObjectsFit'
  BY NextFits DEF JavaInv
<1> QED BY <1>1, <1>2 DEF JavaInv

\* The native classes are all loaded and wait for main().
LEMMA InitLoads ==
  ASSUME Init
  PROVE  /\ HeapClasses
         /\ \A c \in DOMAIN statics : Waiting(c)
<1>1. PICK p \in DOMAIN Programs : prog = Programs[p]
  BY DEF Init
<1>2. IsFiniteSet(prog.natives) /\ Cardinality(prog.natives) \in Nat
  BY <1>1, ProgramsAssumption, FS_CardinalityType
<1>3. PICK n \in Nat : n = Cardinality(prog.natives)
  BY <1>2
<1>4. /\ class_heap \in [1 .. n -> prog.natives]
      /\ \A i, j \in 1 .. n : class_heap[i] = class_heap[j] => i = j
  BY <1>3 DEF Init, Orders
<1>5. class_heap \in Injection(1 .. n, prog.natives)
  BY <1>4 DEF Injection, IsInjective
<1>6. Cardinality(1 .. n) = n
  BY FS_Interval
<1>7. class_heap \in Surjection(1 .. n, prog.natives)
  BY <1>2, <1>3, <1>5, <1>6, FS_Injection
<1>8. \A c \in prog.natives : \E i \in 1 .. n : class_heap[i] = c
  BY <1>7 DEF Surjection
<1>9. DOMAIN class_heap = 1 .. n /\ Len(class_heap) = n
  BY <1>4
<1>10. DOMAIN statics = prog.natives
  BY DEF Init
<1>11. \A c : c \in prog.natives <=> Loaded(c)
  BY <1>4, <1>8, <1>9 DEF Loaded
<1>12. stage = "natives" /\ booted + 1 = 1
  <2>1. stage = "natives" /\ booted = 0
    BY Zenon DEF Init
  <2> QED BY <2>1
<1> QED BY <1>8, <1>9, <1>10, <1>11, <1>12 DEF HeapClasses, Waiting

LEMMA JavaInit ==
  ASSUME Init
  PROVE  JavaInv /\ Java!Init
<1>1. /\ status = "boot" /\ stage = "natives" /\ frame = Idle /\ memory = <<>>
  BY DEF Init
<1>2. ObjectsFit
  BY <1>1 DEF ObjectsFit
<1>3. JavaOutcome = "starting"
  BY <1>1 DEF JavaOutcome, Terminal
<1>4. JavaFrames = <<>>
  BY <1>1 DEF JavaFrames
<1>5. Begun = {}
  BY InitLoads DEF Begun
<1>6. JavaHeap = <<>>
  <2>1. IsSequence(JavaHeap) /\ Len(JavaHeap) = 0
    BY <1>1, InitSafe, HeapIs
  <2>2. IsSequence(<<>>) /\ Len(<<>>) = 0
    BY DEF IsSequence
  <2> QED BY <2>1, <2>2, SameSequence
<1>7. \A c \in DOMAIN statics : statics[c] \in [DOMAIN prog.classes[c].fields -> Junk]
  <2>1. PICK junk \in Junk : statics = [c \in prog.natives |-> [f \in DOMAIN Class(c).fields |-> junk]]
    BY Zenon DEF Init
  <2> QED BY <2>1 DEF Class
<1> QED BY <1>2, <1>3, <1>4, <1>5, <1>6, <1>7, InitLoads DEF JavaInv, Java!Init

-----------------------------------------------------------------------------
\* Static fields.  Half of their range holds what Java keeps of a number, on
\* the common ground.
LEMMA SmallKept ==
  ASSUME NEW n \in Nat \ {0}, NEW v \in 0 .. n - 1
  PROVE  v % n = v
<1>1. v = 0 * n + v
  OBVIOUS
<1> QED BY <1>1, RemainderIs

LEMMA KeptIs ==
  ASSUME NEW v \in Int, NEW desc \in {"B", "C", "S", "I", "Z"},
         desc \in {"C", "Z"} => v \in 0 .. ByteHalf - 1, desc = "Z" => v \in {0, 1}
  PROVE  Signed(v, FieldHalf(desc)) = Java!Kept(desc, v)
<1>1. CASE desc \in {"B", "S", "I"}
  BY <1>1 DEF Signed, FieldHalf, Java!Kept, Java!Wrapped
<1>2. CASE desc \in {"C", "Z"}
  <2>1. Signed(v, ByteHalf) = v
    <3>1. v \in SignedRange(ByteHalf)
      BY <1>2, Widths DEF SignedRange
    <3> QED BY <3>1, SignedSame, Widths
  <2>2. FieldHalf(desc) = ByteHalf
    BY <1>2 DEF FieldHalf
  <2>3. CASE desc = "C"
    <3>1. PICK n \in Nat \ {0} : n = 2 * ShortHalf
      BY Widths
    <3>2. v \in 0 .. n - 1
      BY <1>2, <3>1, Widths, WidthsAssumption
    <3>3. v % n = v
      BY <3>2, SmallKept
    <3> QED BY <2>1, <2>2, <2>3, <3>1, <3>3 DEF Java!Kept
  <2>4. CASE desc = "Z"
    <3>1. v % 2 = v
      BY <2>4
    <3> QED BY <2>1, <2>2, <2>4, <3>1 DEF Java!Kept
  <2> QED BY <1>2, <2>3, <2>4
<1> QED BY <1>1, <1>2

\* The class an instruction needs has been loaded, and so Java may go on.
LEMMA TriggeredIs ==
  ASSUME SafeInv, JavaInv, CommonGround, NEW op \in Java!Triggers, Resolved({op})
  PROVE  /\ status = "run" /\ ins.op = op
         /\ Java!Triggered(op)
<1>1. status = "run" /\ ins.op = op
  BY DEF Resolved, Fetch
<1>2. Java!Initialized(ins.arg.clazz)
  <2>1. Resolved(Java!Triggers)
    BY DEF Resolved, Fetch
  <2> QED BY <1>1, <2>1 DEF CommonGround, ClassesAgree
<1>3. ins.arg.clazz \in DOMAIN statics
  BY LoadedIsFound DEF Resolved, TargetFound, JavaInv, HeapClasses, SafeInv, ClassInv, HeapInv, NamesInv
<1> QED BY <1>1, <1>2, <1>3, JavaHere DEF Java!Triggered

LEMMA StaticReadRefines ==
  ASSUME SafeInv, JavaInv, SafeInv', CommonGround, getstatic
  PROVE  Java!StaticRead
<1>1. Resolved({"getstatic"}) /\ Resolved({"getstatic", "putstatic"}) /\ status = "run" /\ ins.op = "getstatic"
  BY DEF getstatic, FieldAccess, Resolved, Fetch
<1>2. /\ Java!ins = ins /\ ins = rule /\ Java!stack = Values(opst) /\ opst \in Seq(Entry)
  BY <1>1, JavaHere, JavaOperands
<1>3. /\ Holder(ins.arg) = ins.arg.clazz
      /\ statics[ins.arg.clazz][ins.arg.name] \in Int
      /\ ins.arg.desc \in {"B", "C", "S", "I", "L", "String", "["}
      /\ Pushes(method, frame.pc, 3, 0, TypeOf(ins.arg.desc))
  BY <1>1, StaticField DEF FieldRule
<1>4. PICK v \in Int : v = statics[ins.arg.clazz][ins.arg.name]
  BY <1>3
<1>5. PICK w : w = IF ins.arg.desc \in {"L", "String", "["} THEN v ELSE Java!Kept(ins.arg.desc, v)
  OBVIOUS
<1>6. PICK stack : /\ Advance(stack, 3)
                   /\ ins.arg.desc \in {"B", "C"} => stack = push_byte(opst, v)
                   /\ ins.arg.desc = "S" => stack = push_short(opst, v)
                   /\ ins.arg.desc = "I" => stack = push_int(opst, v)
                   /\ ins.arg.desc \in {"L", "String", "["} => stack = push_ref(opst, v)
  <2>1. Advance(CASE ins.arg.desc \in {"B", "C"} -> push_byte(opst, v)
                  [] ins.arg.desc = "S" -> push_short(opst, v)
                  [] ins.arg.desc = "I" -> push_int(opst, v)
                  [] ins.arg.desc \in {"L", "String", "["} -> push_ref(opst, v)
                  [] ins.arg.desc \in {"D", "F", "J", "Z"} -> opst, 3)
    BY <1>3, <1>4 DEF getstatic
  <2>2. CASE ins.arg.desc \in {"B", "C"}
    BY <2>1, <2>2
  <2>3. CASE ins.arg.desc = "S"
    BY <2>1, <2>3
  <2>4. CASE ins.arg.desc = "I"
    BY <2>1, <2>4
  <2>5. CASE ins.arg.desc \in {"L", "String", "["}
    BY <2>1, <2>5
  <2> QED BY <1>3, <2>2, <2>3, <2>4, <2>5
<1>7. Values(stack) = Append(Values(opst), w)
  <2>1. CASE ins.arg.desc \in {"L", "String", "["}
    BY <1>2, <1>5, <1>6, <2>1, PushedValues
  <2>2. CASE ins.arg.desc \in {"B", "C", "S", "I"}
    <3>1. w = Java!Kept(ins.arg.desc, v)
      BY <1>5, <2>2
    <3>2. ins.arg.desc = "C" => v \in 0 .. ByteHalf - 1
      BY <1>1, <1>4 DEF CommonGround, NumbersAgree
    <3>3. Signed(v, FieldHalf(ins.arg.desc)) = w
      BY <2>2, <3>1, <3>2, KeptIs
    <3>4. Values(stack) = Append(Values(opst), Signed(v, FieldHalf(ins.arg.desc)))
      BY <1>2, <1>6, <2>2, PushedValues DEF FieldHalf
    <3> QED BY <3>3, <3>4
  <2> QED BY <1>3, <2>1, <2>2
<1>8. Java!Size = 3
  BY <1>1, <1>2 DEF Java!Size
<1>9. Java!Yield(Values(stack)) /\ UNCHANGED <<statics, JavaHeap>>
  BY <1>1, <1>3, <1>6, <1>8, AdvanceIs
<1>10. Java!Triggered("getstatic")
  BY <1>1, TriggeredIs DEF Java!Triggers
<1> QED BY <1>2, <1>4, <1>5, <1>7, <1>9, <1>10 DEF Java!StaticRead

LEMMA StaticWrittenRefines ==
  ASSUME SafeInv, JavaInv, SafeInv', CommonGround, putstatic
  PROVE  Java!StaticWritten
<1>1. Resolved({"putstatic"}) /\ Resolved({"getstatic", "putstatic"}) /\ status = "run" /\ ins.op = "putstatic"
  BY DEF putstatic, FieldAccess, Resolved, Fetch
<1>2. /\ Java!ins = ins /\ ins = rule
  BY <1>1, JavaHere
<1>3. /\ Holder(ins.arg) = ins.arg.clazz
      /\ ins.arg.desc \in {"B", "C", "S", "I", "Z", "L", "String", "["}
      /\ Top(rule.stk, TypeOf(ins.arg.desc)) /\ Pops(method, frame.pc, frame.pc + 3, 1)
  BY <1>1, StaticField DEF FieldRule, rule
<1>4. PICK v, t : v = Java!operand(0) /\ t = TypeOf(ins.arg.desc)
  OBVIOUS
<1>5. /\ 1 \in 0 .. Len(rule.stk) /\ v \in Int /\ v = top(opst).value
      /\ t = "I" => v = stack_to_int(top(opst))
  BY <1>1, <1>3, <1>4, JavaTop
<1>6. PICK w : w = IF ins.arg.desc \in {"L", "String", "["} THEN top(opst).value
                   ELSE Signed(stack_to_int(top(opst)), FieldHalf(ins.arg.desc))
  OBVIOUS
<1>7. w = Java!Kept(ins.arg.desc, v)
  <2>1. CASE ins.arg.desc \in {"L", "String", "["}
    BY <1>5, <1>6, <2>1 DEF Java!Kept
  <2>2. CASE ins.arg.desc \in {"B", "C", "S", "I", "Z"}
    <3>1. v = stack_to_int(top(opst))
      BY <1>4, <1>5, <2>2 DEF TypeOf
    <3>2. /\ ins.arg.desc \in {"C", "Z"} => v \in 0 .. ByteHalf - 1
          /\ ins.arg.desc = "Z" => v \in {0, 1}
      BY <1>1, <3>1 DEF CommonGround, NumbersAgree
    <3>3. Signed(v, FieldHalf(ins.arg.desc)) = Java!Kept(ins.arg.desc, v)
      BY <1>5, <2>2, <3>2, KeptIs
    <3> QED BY <1>6, <2>2, <3>1, <3>3
  <2> QED BY <1>3, <2>1, <2>2
<1>8. /\ statics' = [statics EXCEPT ![ins.arg.clazz][ins.arg.name] = w]
      /\ Goto(drop(opst, 1), frame.pc + 3)
      /\ UNCHANGED <<class_heap, class_names, memory, object_heap>>
  BY <1>3, <1>6 DEF putstatic
<1>9. DOMAIN statics' = DOMAIN statics /\ JavaHeap' = JavaHeap
  BY <1>8 DEF JavaHeap, JavaObject
<1>10. Java!Size = 3
  BY <1>1, <1>2 DEF Java!Size
<1>11. PICK stack : stack = drop(opst, 1)
  OBVIOUS
<1>12. Java!Yield(Values(stack))
  BY <1>1, <1>3, <1>8, <1>9, <1>10, <1>11, YieldIs
<1>13. Java!Below(1) = Values(stack)
  BY <1>1, <1>5, <1>11, JavaOperands
<1>14. Java!Triggered("putstatic")
  BY <1>1, TriggeredIs DEF Java!Triggers
<1> QED BY <1>2, <1>4, <1>7, <1>8, <1>9, <1>12, <1>13, <1>14 DEF Java!StaticWritten

-----------------------------------------------------------------------------
\* Objects.
LEMMA InstantiatesRefines ==
  ASSUME SafeInv, JavaInv, SafeInv', CommonGround, new
  PROVE  Java!Instantiates
<1>1. Resolved({"new"}) /\ status = "run" /\ ins.op = "new"
  BY DEF new, Resolved, Fetch
<1>2. Java!ins = ins /\ ins = rule /\ Java!stack = Values(opst) /\ opst \in Seq(Entry)
  BY <1>1, JavaHere, JavaOperands
<1>3. Pushes(method, frame.pc, 3, 0, "A") /\ 0 \in 0 .. Len(rule.stk)
  BY <1>1, Rules, Current DEF FieldRule
<1>4. ~HeapFull /\ Java!FieldsOf[ins.arg.clazz] = DOMAIN Class(ins.arg.clazz).fields
  BY <1>1 DEF CommonGround, ObjectsAgree
<1>5. /\ Allocate(<<new_object(ins.arg.clazz)>>)
      /\ Goto(push_ref(drop(opst, 0), Len(memory) + 1), frame.pc + 3)
      /\ UNCHANGED <<class_heap, class_names, statics>>
  BY <1>1, <1>4, NoDrop DEF new
<1>6. Java!Size = 3
  BY <1>1, <1>2 DEF Java!Size
<1>7. PICK block : block = new_object(ins.arg.clazz)
  OBVIOUS
<1>8. Java!Creates(Java!Below(0), <<JavaObject(block)>>)
  BY <1>1, <1>3, <1>5, <1>6, <1>7, CreatesOne
<1>9. JavaObject(block) = Java!Object("object", ins.arg.clazz, [f \in Java!FieldsOf[ins.arg.clazz] |-> 0])
  <2>1. PICK S : S = DOMAIN Class(ins.arg.clazz).fields
    OBVIOUS
  <2>2. block = [kind |-> "object", clazz |-> ins.arg.clazz, cells |-> [f \in S |-> [type |-> "NONE", value |-> 0]]]
    BY <1>7, <2>1 DEF new_object, Block
  <2>3. JavaObject(block) = [kind |-> "object", clazz |-> ins.arg.clazz,
                             cells |-> [f \in DOMAIN block.cells |-> block.cells[f].value]]
    BY <2>2 DEF JavaObject
  <2>4. DOMAIN block.cells = S /\ \A f \in S : block.cells[f].value = 0
    BY <2>2
  <2>5. JavaObject(block) = [kind |-> "object", clazz |-> ins.arg.clazz, cells |-> [f \in S |-> 0]]
    BY <2>3, <2>4
  <2> QED BY <1>4, <2>1, <2>5 DEF Java!Object
<1>10. Java!Below(0) = Java!stack
  BY <1>1, <1>2, <1>3, NoDrop, JavaOperands
<1>11. Java!Triggered("new")
  BY <1>1, TriggeredIs DEF Java!Triggers
<1> QED BY <1>2, <1>8, <1>9, <1>10, <1>11 DEF Java!Instantiates

\* A field of an object, and the reference to it.
LEMMA MemberIs ==
  ASSUME FieldsAgree, SafeInv, JavaInv, CommonGround, status = "run", NEW p, p = Receiver,
         ins.op \in {"getfield", "putfield"}, p # NULL
  PROVE  /\ p \in 1 .. Len(memory) /\ memory[p].kind = "object" /\ Points(p, "object")
         /\ ins.arg.name \in DOMAIN memory[p].cells
         /\ JavaHeap[p].cells[ins.arg.name] = memory[p].cells[ins.arg.name].value
         /\ CellFits(memory[p].cells[ins.arg.name], ins.arg.desc)
         /\ memory[p].cells[ins.arg.name].value \in Int
<1>1. Points(p, "object") /\ ins.arg.name \in DOMAIN memory[p].cells
  BY DEF CommonGround, ObjectsAgree, NullOr
<1>2. p \in 1 .. Len(memory) /\ memory[p].kind = "object"
  BY <1>1 DEF Points
<1>3. JavaHeap[p] = JavaObject(memory[p])
  BY <1>2, HeapIs
<1>4. JavaObject(memory[p]).cells[ins.arg.name] = memory[p].cells[ins.arg.name].value
  BY <1>1, <1>2 DEF JavaObject
<1>5. CellFits(memory[p].cells[ins.arg.name], ins.arg.desc)
  BY <1>1, FieldTyped DEF JavaInv
<1>6. memory[p].cells[ins.arg.name].value \in Int
  BY <1>1, MemberRead
<1> QED BY <1>1, <1>2, <1>3, <1>4, <1>5, <1>6

LEMMA FieldReadRefines ==
  ASSUME FieldsAgree, SafeInv, JavaInv, SafeInv', CommonGround, getfield
  PROVE  Java!FieldRead
<1>1. /\ status = "run" /\ ins.op = "getfield" /\ Points(Receiver, "object")
      /\ ins.arg.desc \in {"I", "J", "L", "String"}
      /\ FieldRule(method, frame.pc, ins.op, ins.arg, prog.classes)
  BY Rules DEF getfield, Addressed, Fetch
<1>2. /\ Java!ins = ins /\ ins = rule
      /\ \A ops : Java!Is(ops) <=> ins.op \in ops
  BY <1>1, JavaHere
<1>3. Top(rule.stk, "A") /\ Pushes(method, frame.pc, 3, 1, TypeOf(ins.arg.desc))
  BY <1>1 DEF FieldRule, rule
<1>4. PICK p : p = Receiver
  OBVIOUS
<1>5. /\ Java!operand(0) = p /\ 1 \in 0 .. Len(rule.stk) /\ drop(opst, 1) \in Seq(Entry)
      /\ p # NULL
  BY <1>1, <1>3, <1>4, JavaTop DEF Receiver, top, Points, NULL
<1>6. PICK v : v = memory[p].cells[ins.arg.name].value
  OBVIOUS
<1>7. JavaHeap[p].cells[ins.arg.name] = v /\ v \in Int
  BY <1>1, <1>4, <1>5, <1>6, MemberIs
<1>8. CellFits(memory[p].cells[ins.arg.name], ins.arg.desc)
  BY <1>1, <1>4, <1>5, MemberIs
<1>9. PICK rest : rest = drop(opst, 1)
  OBVIOUS
<1>10. PICK stack : /\ Advance(stack, 3)
                    /\ ins.arg.desc = "I" => stack = push_int(rest, v)
                    /\ ins.arg.desc = "J" => stack = push_long(rest, v)
                    /\ ins.arg.desc \in {"L", "String"} => stack = push_ref(rest, v)
  <2>1. Advance(CASE ins.arg.desc = "I" -> push_int(rest, v)
                  [] ins.arg.desc = "J" -> push_long(rest, v)
                  [] OTHER              -> push_ref(rest, v), 3)
    BY <1>4, <1>6, <1>9 DEF getfield
  <2>2. CASE ins.arg.desc = "I"
    BY <2>1, <2>2
  <2>3. CASE ins.arg.desc = "J"
    BY <2>1, <2>3
  <2>4. CASE ins.arg.desc \in {"L", "String"}
    BY <2>1, <2>4
  <2> QED BY <1>1, <2>2, <2>3, <2>4
<1>11. Values(stack) = Append(Values(rest), v)
  <2>1. CASE ins.arg.desc = "I"
    <3>1. Signed(v, IntHalf) = v
      BY <1>6, <1>8, <2>1, SignedSame, Widths DEF CellFits
    <3> QED BY <1>5, <1>7, <1>9, <1>10, <2>1, <3>1, PushedValues
  <2>2. CASE ins.arg.desc = "J"
    <3>1. Signed(v, LongHalf) = v
      BY <1>6, <1>8, <2>2, SignedSame, Widths DEF CellFits
    <3> QED BY <1>5, <1>7, <1>9, <1>10, <2>2, <3>1, PushedValues
  <2>3. CASE ins.arg.desc \in {"L", "String"}
    BY <1>5, <1>7, <1>9, <1>10, <2>3, PushedValues
  <2> QED BY <1>1, <2>1, <2>2, <2>3
<1>12. Java!Size = 3
  BY <1>1, <1>2 DEF Java!Size
<1>13. Java!Yield(Append(Java!Below(1), v)) /\ UNCHANGED <<statics, JavaHeap>>
  BY <1>1, <1>3, <1>5, <1>9, <1>10, <1>11, <1>12, ResultIs
<1> QED BY <1>1, <1>2, <1>5, <1>7, <1>13 DEF Java!FieldRead, NULL

LEMMA FieldWrittenRefines ==
  ASSUME FieldsAgree, SafeInv, JavaInv, SafeInv', CommonGround, putfield
  PROVE  Java!FieldWritten
<1>1. /\ status = "run" /\ ins.op = "putfield" /\ Points(Receiver, "object")
      /\ ins.arg.desc \in {"I", "J", "L", "String"}
      /\ FieldRule(method, frame.pc, ins.op, ins.arg, prog.classes)
  BY Rules DEF putfield, Addressed, Fetch
<1>2. /\ Java!ins = ins /\ ins = rule
      /\ \A ops : Java!Is(ops) <=> ins.op \in ops
  BY <1>1, JavaHere
<1>3. Top2(rule.stk, "A", TypeOf(ins.arg.desc)) /\ Pops(method, frame.pc, frame.pc + 3, 2)
  BY <1>1 DEF FieldRule, rule
<1>4. PICK p : p = Receiver
  OBVIOUS
<1>5. /\ Java!operand(1) = p /\ 2 \in 0 .. Len(rule.stk) /\ drop(opst, 2) \in Seq(Entry)
      /\ p # NULL /\ Top(rule.stk, TypeOf(ins.arg.desc))
  BY <1>1, <1>3, <1>4, JavaTop2 DEF Receiver, Points, NULL
<1>6. PICK e, v, w : e = top(opst) /\ v = Stored(ins.arg.desc, e) /\ w = Java!operand(0)
  OBVIOUS
<1>7. v.value = w
  <2>1. e \in Entry /\ e.type \in OperandTags(TypeOf(ins.arg.desc)) /\ w = e.value
    BY <1>1, <1>5, <1>6, TopRead, JavaTop
  <2>2. CASE ins.arg.desc = "I"
    <3>1. TypeOf(ins.arg.desc) = "I" /\ e.type # "REF"
      BY <2>1, <2>2 DEF TypeOf, OperandTags
    <3>2. w = stack_to_int(e) /\ w \in SignedRange(IntHalf)
      BY <1>1, <1>5, <1>6, <3>1, JavaTop
    <3>3. v.value = Signed(w, IntHalf)
      BY <1>6, <2>2, <3>1, <3>2 DEF Stored
    <3> QED BY <3>2, <3>3, SignedSame, Widths
  <2>3. CASE ins.arg.desc = "J"
    <3>1. TypeOf(ins.arg.desc) = "J" /\ e.type # "REF"
      BY <2>1, <2>3 DEF TypeOf, OperandTags
    <3>2. w = stack_to_int(e)
      BY <1>1, <1>5, <1>6, <3>1, JavaTop
    <3> QED BY <1>6, <2>3, <3>1, <3>2 DEF Stored
  <2>4. CASE ins.arg.desc \in {"L", "String"}
    <3>1. e.type = "REF"
      BY <2>1, <2>4 DEF TypeOf, OperandTags
    <3> QED BY <1>6, <2>1, <2>4, <3>1 DEF Stored
  <2> QED BY <1>1, <2>2, <2>3, <2>4
<1>8. /\ memory' = [memory EXCEPT ![p].cells[ins.arg.name] = v]
      /\ Goto(drop(opst, 2), frame.pc + 3)
      /\ UNCHANGED <<class_heap, class_names, statics, object_heap>>
  BY <1>4, <1>6 DEF putfield
<1>9. /\ p \in 1 .. Len(memory) /\ memory[p].kind = "object"
      /\ ins.arg.name \in DOMAIN memory[p].cells
  BY <1>1, <1>4, <1>5, MemberIs
<1>10. JavaHeap' = [JavaHeap EXCEPT ![p].cells[ins.arg.name] = w]
  <2>1. BlockAssigned(p, ins.arg.name, v)
    BY <1>8 DEF BlockAssigned
  <2>2. memory[p].kind \in {"int[]", "object"} /\ ~(memory[p].kind = "int[]")
    BY <1>9
  <2>3. ObjectAssigned(p, ins.arg.name, w)
    BY <1>7, <1>9, <2>1, <2>2, CellIs
  <2> QED BY <2>3 DEF ObjectAssigned
<1>11. Java!Size = 3
  BY <1>1, <1>2 DEF Java!Size
<1>12. PICK stack : stack = drop(opst, 2)
  OBVIOUS
<1>13. Java!Yield(Values(stack))
  BY <1>1, <1>3, <1>8, <1>11, <1>12, YieldIs
<1>14. Java!Below(2) = Values(stack)
  BY <1>1, <1>5, <1>12, JavaOperands
<1> QED BY <1>1, <1>2, <1>5, <1>6, <1>8, <1>10, <1>13, <1>14 DEF Java!FieldWritten, NULL

LEMMA FieldLookupRefines ==
  ASSUME FieldsAgree, SafeInv, JavaInv, CommonGround, field_lookup_fails
  PROVE  Java!Uncaught
<1>1. status = "run" /\ ins.op \in {"getfield", "putfield"} /\ ins.arg.desc \in {"I", "J", "L", "String"}
  BY Rules DEF field_lookup_fails, Fetch, FieldRule
<1>2. /\ Java!ins = ins /\ ins = rule
      /\ \A ops : Java!Is(ops) <=> ins.op \in ops
  BY <1>1, JavaHere
<1>3. PICK p : p = Receiver
  OBVIOUS
<1>4. p = NULL /\ WildAccess(p)
  <2>1. p # NULL => Points(p, "object") /\ ins.arg.name \in DOMAIN memory[p].cells
    BY <1>1, <1>3, MemberIs
  <2>2. ~Points(NULL, "object")
    BY DEF Points, NULL
  <2> QED BY <1>1, <1>3, <2>1, <2>2 DEF field_lookup_fails
<1>5. Java!Throws
  <2>1. CASE ins.op = "getfield"
    <3>1. Java!operand(0) = p
      <4>1. Top(rule.stk, "A")
        BY <1>1, <2>1, Rules DEF FieldRule, rule
      <4> QED BY <1>1, <1>3, <2>1, <4>1, JavaTop DEF Receiver, top
    <3> QED BY <1>2, <1>4, <2>1, <3>1 DEF Java!Throws, NULL
  <2>2. CASE ins.op = "putfield"
    <3>1. Java!operand(1) = p
      <4>1. Top2(rule.stk, "A", TypeOf(ins.arg.desc))
        BY <1>1, <2>2, Rules DEF FieldRule, rule
      <4> QED BY <1>1, <1>3, <2>2, <4>1, JavaTop2 DEF Receiver
    <3> QED BY <1>2, <1>4, <2>2, <3>1 DEF Java!Throws, NULL
  <2> QED BY <1>1, <2>1, <2>2
<1> QED BY <1>1, <1>4, <1>5, WildIs

LEMMA StaticLookupFinds ==
  ASSUME SafeInv
  PROVE  ~static_lookup_fails
<1>1. SUFFICES ASSUME static_lookup_fails
               PROVE  FALSE
  OBVIOUS
<1>2. Resolved({"getstatic", "putstatic"}) /\ status = "run" /\ ins.op \in {"getstatic", "putstatic"}
  BY <1>1 DEF static_lookup_fails, Resolved, Fetch
<1>3. /\ Holder(ins.arg) = ins.arg.clazz /\ Loaded(ins.arg.clazz)
      /\ ins.arg.name \in DOMAIN Class(ins.arg.clazz).fields
      /\ Class(ins.arg.clazz).fields[ins.arg.name] = ins.arg.desc
  BY <1>2, StaticField DEF FieldRule, Class
<1>4. Found(Holder(ins.arg))
  BY <1>3, LoadedIsFound DEF SafeInv, ClassInv, HeapInv, NamesInv
<1> QED BY <1>1, <1>3, <1>4 DEF static_lookup_fails, find_field


-----------------------------------------------------------------------------
\* New activations.
LEMMA SuspendsMore ==
  ASSUME NEW f, IsSequence(callers), callers' = Append(callers, f), prog' = prog
  PROVE  Suspends' = Append(Suspends, JavaFrame(f))
<1>1. PICK cs : cs = callers'
  OBVIOUS
<1>2. Suspends' = [i \in 1 .. Len(cs) |-> JavaFrame(cs[i])]
  BY <1>1 DEF Suspends, JavaFrame, TypesAt, Method, Class
<1>3. PICK n : n = Len(callers)
  OBVIOUS
<1>4. n \in Nat /\ Len(cs) = n + 1 /\ cs[n + 1] = f /\ \A i \in 1 .. n : cs[i] = callers[i]
  BY <1>1, <1>3, AppendElements
<1>5. PICK s, g : s = Suspends /\ g = JavaFrame(f)
  OBVIOUS
<1>6. s = [i \in 1 .. n |-> s[i]] /\ \A i \in 1 .. n : s[i] = JavaFrame(callers[i])
  BY <1>3, <1>5 DEF Suspends
<1>7. \A i \in 1 .. n + 1 : JavaFrame(cs[i]) = IF i = n + 1 THEN g ELSE s[i]
  BY <1>4, <1>5, <1>6
<1>8. Suspends' = [i \in 1 .. n + 1 |-> IF i = n + 1 THEN g ELSE s[i]]
  BY <1>2, <1>4, <1>7
<1>9. Append(s, g) = [i \in 1 .. n + 1 |-> IF i = n + 1 THEN g ELSE s[i]]
  BY <1>4, <1>6
<1> QED BY <1>5, <1>8, <1>9

\* An activation that begins has the variables its first instruction can use.
LEMMA EntryIs ==
  ASSUME SafeInv, SafeInv', (status = "run")', prog' = prog, NEW c, NEW name, NEW locals, NEW via,
         frame' = Activation(c, name, locals, via), NEW variables,
         \A i \in 0 .. Method(c, name).max_locals - 1 : Method(c, name).code[0].loc[i + 1] # "-" =>
           variables[i] = Seen(locals[i], Method(c, name).code[0].loc[i + 1])
  PROVE  JavaFrame(frame)' = Java!Frame(c, name, 0, <<>>, variables)
<1>1. PICK f : f = frame'
  OBVIOUS
<1>2. PICK m : m = Method(c, name)
  OBVIOUS
<1>3. /\ f.clazz = c /\ f.meth = name /\ f.pc = 0 /\ f.op_stack = <<>> /\ f.locals = locals
      /\ TypesAt(f, f.pc) = m.code[0] /\ Java!MethodsOf(c)[name] = m
  BY <1>1, <1>2 DEF Activation, TypesAt, Method, Class, Java!MethodsOf
<1>4. locals \in [0 .. m.max_locals - 1 -> Entry]
  <2>1. FrameTypeOK(frame)'
    BY DEF SafeInv, ActivationsOK
  <2>2. FrameTypeOK(f)
    BY <1>1, <2>1 DEF FrameTypeOK, Method, Class
  <2> QED BY <1>2, <1>3, <2>2 DEF FrameTypeOK
<1>5. SeenStack(<<>>, m.code[0].stk) = <<>>
  BY DEF SeenStack
<1>6. SeenVars(locals, m.code[0].loc) = [i \in Java!Usable(m, 0) |-> variables[i]]
  BY <1>2, <1>4 DEF SeenVars, Java!Usable
<1>7. JavaFrame(f) = Java!Frame(c, name, 0, <<>>, variables)
  BY <1>3, <1>5, <1>6 DEF JavaFrame, Java!Frame
<1>8. JavaFrame(frame)' = JavaFrame(f)
  BY <1>1 DEF JavaFrame, TypesAt, Method, Class
<1> QED BY <1>7, <1>8

\* A <clinit> has no variable to begin with.
LEMMA ClinitIs ==
  ASSUME SafeInv, SafeInv', (status = "run")', prog' = prog, NEW c \in DOMAIN prog.classes,
         find_method(c, "<clinit>"), NEW locals, NEW via,
         frame' = Activation(c, "<clinit>", locals, via)
  PROVE  JavaFrame(frame)' = Java!Frame(c, "<clinit>", 0, <<>>, <<>>)
<1>1. PICK m : m = Method(c, "<clinit>")
  OBVIOUS
<1>2. "<clinit>" \in DOMAIN Class(c).methods
  BY DEF find_method
<1>3. m.static /\ ~m.native /\ m.params = <<>>
  BY <1>1, <1>2, ProgramVerified DEF Verified, ClassVerified, Class, Method
<1>4. MethodVerified(m, prog.classes)
  BY <1>1, <1>2, <1>3, MethodsVerified
<1>5. Slot(m, Len(m.params) + 1) = 0
  <2>1. Len(m.params) = 0
    BY <1>3
  <2> QED BY <1>3, <2>1 DEF Slot
<1>6. \A i \in 0 .. m.max_locals - 1 : m.code[0].loc[i + 1] = "-"
  BY <1>4, <1>5 DEF EntryLocals, MethodVerified
<1>7. PICK none : none = <<>>
  OBVIOUS
<1>8. JavaFrame(frame)' = Java!Frame(c, "<clinit>", 0, <<>>, none)
  BY <1>1, <1>6, EntryIs
<1> QED BY <1>7, <1>8

-----------------------------------------------------------------------------
\* Classes.  The class an instruction names is one of the program.
LEMMA ClassNamed ==
  ASSUME SafeInv, Fetch(Resolving)
  PROVE  status = "run" /\ ins.arg.clazz \in DOMAIN prog.classes
<1>1. status = "run" /\ ins.op \in Resolving
  BY DEF Fetch
<1> QED BY <1>1, Rules DEF FieldRule, InvokeRule, Resolving

LEMMA PreparedIs ==
  ASSUME NEW c, c \notin DOMAIN statics, add_class(c)
  PROVE  Java!Prepared(c)
BY DEF add_class, Java!Prepared, Class

\* The classes that have been begun when another one is loaded.
LEMMA BegunMore ==
  ASSUME SafeInv, JavaInv, NEW c, add_class(c), prog' = prog,
         \A d : ~Waiting(d), \A d : ~Waiting(d)'
  PROVE  Begun' = Begun \cup {d \in {c} : find_method(d, "<clinit>")}
<1>1. DOMAIN statics' = DOMAIN statics \cup {c}
  BY AddedClasses DEF JavaInv
<1>2. \A d : find_method(d, "<clinit>")' <=> find_method(d, "<clinit>")
  BY DEF find_method, Class
<1>3. Begun' = {d \in DOMAIN statics \cup {c} : find_method(d, "<clinit>")}
  BY <1>1, <1>2 DEF Begun
<1>4. Begun = {d \in DOMAIN statics : find_method(d, "<clinit>")}
  BY DEF Begun
<1> QED BY <1>3, <1>4

LEMMA LoadingRefines ==
  ASSUME SafeInv, JavaInv, SafeInv', CommonGround, load_class
  PROVE  \E c \in DOMAIN prog.classes : Java!Reads(c) \/ Java!Initializes(c)
<1>1. PICK c : c = ins.arg.clazz
  OBVIOUS
<1>2. status = "run" /\ c \in DOMAIN prog.classes /\ ins.op \in Resolving /\ ~TargetFound
  BY <1>1, ClassNamed DEF load_class, Fetch
<1>3. /\ stage # "natives" /\ Len(class_heap) < MaxClasses /\ MayInitialize(c)
      /\ ins.op \in {"getstatic", "putstatic", "new"} \/ ~find_method(c, "<clinit>")
  BY <1>1, <1>2 DEF CommonGround, ClassesAgree
<1>4. Len(class_heap) \in Nat
  BY DEF SafeInv, ClassInv, HeapInv, IsSequence
<1>5. /\ add_class(c)
      /\ IF ins.op # "invokestatic" /\ find_method(c, "<clinit>")
         THEN \E u \in Uninitialised :
                Call(c, "<clinit>", Fill(c, "<clinit>", u), "clinit", opst)
         ELSE UNCHANGED <<prog, status, stage, booted, frame, callers>>
  BY <1>1, <1>2, <1>3, <1>4, BoundsAssumption DEF load_class
<1>6. UNCHANGED <<prog, status, stage, booted, memory>>
  BY <1>5 DEF add_class, Call
<1>7. c \notin DOMAIN statics
  BY <1>1, <1>2, LoadedIsFound DEF TargetFound, JavaInv, HeapClasses, SafeInv, ClassInv, HeapInv, NamesInv
<1>8. Java!Prepared(c)
  BY <1>5, <1>7, PreparedIs
<1>9. Begun' = Begun \cup {d \in {c} : find_method(d, "<clinit>")}
  <2>1. (\A d : ~Waiting(d)) /\ \A d : ~Waiting(d)'
    BY <1>3, <1>6 DEF Waiting
  <2> QED BY <1>5, <1>6, <2>1, BegunMore
<1>10. JavaOutcome \in {"starting", "running"} /\ JavaOutcome' = JavaOutcome /\ JavaHeap' = JavaHeap
  BY <1>2, <1>6 DEF JavaOutcome, Terminal, JavaHeap, JavaObject
<1>11. CASE ~find_method(c, "<clinit>")
  <2>1. UNCHANGED <<frame, callers>> /\ Begun' = Begun
    BY <1>5, <1>9, <1>11
  <2>2. JavaFrames' = JavaFrames
    BY <1>6, <2>1 DEF JavaFrames, JavaFrame, TypesAt, Method, Class, Called
  <2>3. Java!Reads(c)
    BY <1>6, <1>7, <1>8, <1>10, <2>1, <2>2 DEF Java!Reads
  <2> QED BY <1>2, <2>3
<1>12. CASE find_method(c, "<clinit>")
  <2>1. ins.op \in {"getstatic", "putstatic", "new"}
    BY <1>3, <1>12
  <2>2. PICK u \in Uninitialised : Call(c, "<clinit>", Fill(c, "<clinit>", u), "clinit", opst)
    BY <1>5, <1>12, <2>1
  <2>3. frame' = Activation(c, "<clinit>", Fill(c, "<clinit>", u), "clinit") /\ callers' = Append(callers, frame)
    <3>1. [frame EXCEPT !.op_stack = opst] = frame
      BY <1>2, Current DEF IsActivation, opst
    <3> QED BY <2>2, <3>1 DEF Call
  <2>4. JavaFrames' = Append(JavaFrames, Java!Frame(c, "<clinit>", 0, <<>>, <<>>))
    <3>1. JavaFrame(frame)' = Java!Frame(c, "<clinit>", 0, <<>>, <<>>)
      <4>1. PICK locals : locals = Fill(c, "<clinit>", u)
        OBVIOUS
      <4> QED BY <1>2, <1>6, <1>12, <2>3, <4>1, ClinitIs
    <3>2. Suspends' = Append(Suspends, JavaFrame(frame))
      BY <1>2, <1>6, <2>3, Active, SuspendsMore
    <3>3. JavaFrames' = Append(Suspends', JavaFrame(frame)')
      BY <1>2, <1>6, FramesNext
    <3> QED BY <1>2, <3>1, <3>2, <3>3, FramesAre
  <2>5. Begun' = Begun \cup {c} /\ c \notin Begun
    BY <1>7, <1>9, <1>12 DEF Begun
  <2>6. Java!HasClinit(c)
    BY <1>2, <1>12 DEF Java!HasClinit, Java!MethodsOf, find_method, Class
  <2>7. Java!Initialized(prog.classes[c].super)
    BY <1>3, <1>12 DEF MayInitialize, Class
  <2>8. Java!ins = ins /\ JavaFrames # <<>>
    BY <1>2, JavaHere, FramesAre
  <2>9. Java!Initializes(c)
    BY <1>1, <1>6, <1>8, <1>10, <2>1, <2>4, <2>5, <2>6, <2>7, <2>8 DEF Java!Initializes, Java!Triggers
  <2> QED BY <1>2, <2>9
<1> QED BY <1>11, <1>12

-----------------------------------------------------------------------------
\* main().  While it is in control Java has no activation either.
LEMMA NoFrames ==
  ASSUME SafeInv, status = "boot"
  PROVE  JavaFrames = <<>> /\ callers = <<>> /\ frame = Idle
BY DEF SafeInv, ClassInv, ActivationsInv, InMain, JavaFrames

LEMMA FirstFrame ==
  ASSUME SafeInv, SafeInv', status = "boot", NEW c, NEW name, NEW locals, Enter(c, name, locals)
  PROVE  JavaFrames' = <<JavaFrame(frame)'>> /\ (status = "run")' /\ prog' = prog
<1>1. (status = "run")' /\ UNCHANGED <<prog, callers>>
  BY DEF Enter
<1>2. Suspends' = <<>>
  <2>1. callers' = <<>>
    BY <1>1, NoFrames
  <2>2. Suspends' = [i \in 1 .. 0 |-> JavaFrame(callers[i])']
    <3>1. Len(callers') = 0
      BY <2>1
    <3> QED BY <3>1 DEF Suspends
  <2> QED BY <2>2
<1>3. PICK g : g = JavaFrame(frame)'
  OBVIOUS
<1>4. JavaFrames' = Append(Suspends', JavaFrame(frame)')
  BY <1>1, FramesNext
<1>5. JavaFrames' = Append(<<>>, g)
  BY <1>2, <1>3, <1>4
<1>6. Append(<<>>, g) = <<g>>
  OBVIOUS
<1> QED BY <1>1, <1>3, <1>5, <1>6

\* The <clinit> of c, called by main().
LEMMA BootClinitIs ==
  ASSUME SafeInv, SafeInv', status = "boot", stage = "natives", (stage # "main")',
         NEW c \in DOMAIN prog.classes, find_method(c, "<clinit>"), RunClinit(c),
         MayInitialize(c), Java!Prepared(c), c \notin Begun, Begun' = Begun \cup {c}, UNCHANGED memory
  PROVE  Java!Initializes(c)
<1>1. PICK u \in Uninitialised : Enter(c, "<clinit>", Fill(c, "<clinit>", u))
  BY DEF RunClinit
<1>2. PICK locals : locals = Fill(c, "<clinit>", u)
  OBVIOUS
<1>3. Enter(c, "<clinit>", locals) /\ frame' = Activation(c, "<clinit>", locals, "main")
  BY <1>1, <1>2 DEF Enter
<1>4. JavaFrames' = <<JavaFrame(frame)'>> /\ (status = "run")' /\ prog' = prog /\ JavaFrames = <<>>
  BY <1>3, FirstFrame, NoFrames
<1>5. JavaFrame(frame)' = Java!Frame(c, "<clinit>", 0, <<>>, <<>>)
  BY <1>3, <1>4, ClinitIs
<1>6. JavaFrames' = Append(JavaFrames, Java!Frame(c, "<clinit>", 0, <<>>, <<>>))
  BY <1>4, <1>5
<1>7. JavaOutcome = "starting" /\ JavaOutcome' = JavaOutcome /\ JavaHeap' = JavaHeap
  BY <1>4 DEF JavaOutcome, Terminal, JavaHeap, JavaObject
<1>8. Java!HasClinit(c) /\ Java!Initialized(prog.classes[c].super)
  BY DEF Java!HasClinit, Java!MethodsOf, find_method, Class, MayInitialize
<1> QED BY <1>4, <1>6, <1>7, <1>8 DEF Java!Initializes

\* Nothing but a class that has no <clinit> was passed over.
LEMMA NoClinitIs ==
  ASSUME SafeInv, status = "boot", stage = "natives", (stage # "main")', NEW c,
         ~find_method(c, "<clinit>"), RunClinit(c)
  PROVE  UNCHANGED <<prog, JavaOutcome, JavaFrames>> /\ JavaOutcome = "starting"
<1>1. UNCHANGED <<prog, status, frame, callers>>
  BY DEF RunClinit
<1> QED BY <1>1 DEF JavaOutcome, Terminal, JavaFrames, JavaFrame, TypesAt, Method, Class, Called

LEMMA NativeClinitRefinesJava ==
  ASSUME SafeInv, JavaInv, SafeInv', CommonGround, native_clinit
  PROVE  (\E c \in DOMAIN prog.classes : Java!Initializes(c)) \/ UNCHANGED Java!vars
<1>1. PICK n : n = booted + 1
  OBVIOUS
<1>2. PICK c : c = class_heap[n]
  OBVIOUS
<1>3. /\ status = "boot" /\ stage = "natives" /\ booted' = n /\ RunClinit(c)
      /\ UNCHANGED <<stage, class_heap, statics, memory>> /\ booted < Len(class_heap)
  BY <1>1, <1>2 DEF native_clinit
<1>4. PICK k : k = Len(class_heap)
  OBVIOUS
<1>5. k \in Nat /\ booted \in 0 .. k /\ n \in 1 .. k /\ c \in DOMAIN prog.classes /\ c \in DOMAIN statics
  BY <1>1, <1>2, <1>3, <1>4 DEF SafeInv, ClassInv, HeapInv, HeapsOK, IsSequence
<1>6. MayInitialize(c)
  BY <1>1, <1>2, <1>3 DEF CommonGround, MainAgrees
<1>7. prog' = prog
  BY <1>3 DEF RunClinit, Enter
<1>8. Waiting(c) /\ \A d : Waiting(d)' <=> Waiting(d) /\ d # c
  <2>1. \A d : Waiting(d) <=> \E i \in n .. k : class_heap[i] = d
    BY <1>1, <1>3, <1>4 DEF Waiting
  <2>2. \A d : Waiting(d)' <=> \E i \in n + 1 .. k : class_heap[i] = d
    BY <1>3, <1>4 DEF Waiting
  <2>3. \A i, j \in 1 .. k : class_heap[i] = class_heap[j] => i = j
    BY <1>4 DEF SafeInv, ClassInv, LoadedOnce
  <2> QED BY <1>2, <1>5, <2>1, <2>2, <2>3
<1>9. \A d : find_method(d, "<clinit>")' <=> find_method(d, "<clinit>")
  BY <1>7 DEF find_method, Class
<1>10. Begun' = {d \in DOMAIN statics : find_method(d, "<clinit>") /\ (~Waiting(d) \/ d = c)}
  BY <1>3, <1>8, <1>9 DEF Begun
<1>11. (stage # "main")'
  BY <1>3
<1>12. CASE ~find_method(c, "<clinit>")
  <2>1. Begun' = Begun
    BY <1>10, <1>12 DEF Begun
  <2>2. UNCHANGED <<prog, JavaOutcome, JavaFrames>>
    BY <1>3, <1>11, <1>12, NoClinitIs
  <2>3. JavaHeap' = JavaHeap
    BY <1>3 DEF JavaHeap, JavaObject
  <2> QED BY <1>3, <2>1, <2>2, <2>3 DEF Java!vars
<1>13. CASE find_method(c, "<clinit>")
  <2>1. Begun' = Begun \cup {c} /\ c \notin Begun
    BY <1>5, <1>8, <1>10, <1>13 DEF Begun
  <2>2. Java!Prepared(c)
    BY <1>3, <1>5 DEF Java!Prepared
  <2>3. Java!Initializes(c)
    BY <1>3, <1>5, <1>6, <1>11, <1>13, <2>1, <2>2, BootClinitIs
  <2> QED BY <1>5, <2>3
<1> QED BY <1>12, <1>13

LEMMA AddMainClassRefinesJava ==
  ASSUME SafeInv, JavaInv, SafeInv', CommonGround, add_main_class
  PROVE  \E c \in DOMAIN prog.classes : Java!Reads(c) \/ Java!Initializes(c)
<1>1. PICK c : c = prog.main
  OBVIOUS
<1>2. status = "boot" /\ stage = "natives" /\ booted = Len(class_heap) /\ Len(class_heap) \in Nat
  BY DEF add_main_class, SafeInv, ClassInv, HeapInv, IsSequence
<1>3. Len(class_heap) < MaxClasses /\ MayInitialize(c)
  BY <1>1, <1>2 DEF CommonGround, MainAgrees
<1>4. stage' = "main_clinit" /\ add_class(c) /\ RunClinit(c)
  BY <1>1, <1>3 DEF add_main_class
<1>5. prog' = prog /\ memory' = memory
  BY <1>4 DEF RunClinit, Enter, add_class
<1>6. c \in DOMAIN prog.classes /\ c \notin DOMAIN statics
  <2>1. c \in DOMAIN prog.classes /\ c \notin prog.natives
    BY <1>1, ProgramVerified DEF Verified
  <2>2. ~Loaded(c)
    <3>1. DOMAIN class_heap = 1 .. Len(class_heap)
      BY DEF SafeInv, ClassInv, HeapInv, IsSequence
    <3> QED BY <1>2, <2>1, <3>1 DEF Loaded, SafeInv, ClassInv, HeapInv
  <2> QED BY <2>1, <2>2 DEF JavaInv, HeapClasses
<1>7. Java!Prepared(c)
  BY <1>4, <1>6, PreparedIs
<1>8. Begun' = Begun \cup {d \in {c} : find_method(d, "<clinit>")}
  <2>1. (\A d : ~Waiting(d)) /\ \A d : ~Waiting(d)'
    <3>1. booted + 1 .. Len(class_heap) = {}
      BY <1>2
    <3> QED BY <1>4, <3>1 DEF Waiting
  <2> QED BY <1>4, <1>5, <2>1, BegunMore
<1>9. (stage # "main")'
  BY <1>4
<1>10. CASE ~find_method(c, "<clinit>")
  <2>1. UNCHANGED <<prog, JavaOutcome, JavaFrames>> /\ JavaOutcome = "starting"
    BY <1>2, <1>4, <1>9, <1>10, NoClinitIs
  <2>2. Begun' = Begun
    BY <1>8, <1>10
  <2>3. JavaHeap' = JavaHeap
    BY <1>5 DEF JavaHeap, JavaObject
  <2>4. Java!Reads(c)
    BY <1>6, <1>7, <2>1, <2>2, <2>3 DEF Java!Reads
  <2> QED BY <1>6, <2>4
<1>11. CASE find_method(c, "<clinit>")
  <2>1. Begun' = Begun \cup {c} /\ c \notin Begun
    BY <1>6, <1>8, <1>11 DEF Begun
  <2>2. Java!Initializes(c)
    BY <1>2, <1>3, <1>4, <1>5, <1>6, <1>7, <1>9, <1>11, <2>1, BootClinitIs
  <2> QED BY <1>6, <2>2
<1> QED BY <1>10, <1>11

\* What main() zeroes are Java's zeros.
LEMMA ZeroIs ==
  ASSUME NEW t \in VTypes
  PROVE  Seen(Zeroed, t) = 0
<1>1. ASSUME NEW half \in Nat \ {0}
      PROVE  Signed(0, half) = 0
  BY SignedSame DEF SignedRange
<1>2. Seen(Zeroed, t) = CASE t = "I" -> Signed(0, IntHalf) [] t = "J" -> Signed(0, LongHalf) [] t = "A" -> 0
  BY DEF Seen, Zeroed
<1> QED BY <1>1, <1>2, Widths DEF VTypes

LEMMA CallMainRefinesJava ==
  ASSUME SafeInv, JavaInv, SafeInv', call_main
  PROVE  Java!Launches
<1>1. PICK c, m : c = prog.main /\ m = Method(prog.main, MainMethod)
  OBVIOUS
<1>2. PICK locals : locals = Fill(c, MainMethod, Zeroed)
  OBVIOUS
<1>3. find_method(c, MainMethod) /\ EntryOK(c, MainMethod, locals)
  BY <1>1, <1>2, MainEntry
<1>4. /\ status = "boot" /\ stage = "main_clinit" /\ stage' = "main" /\ Enter(c, MainMethod, locals)
      /\ UNCHANGED <<booted, heaps>>
  BY <1>1, <1>2, <1>3 DEF call_main
<1>5. frame' = Activation(c, MainMethod, locals, "main")
  BY <1>4 DEF Enter
<1>6. JavaFrames' = <<JavaFrame(frame)'>> /\ (status = "run")' /\ prog' = prog /\ JavaFrames = <<>>
  BY <1>4, FirstFrame, NoFrames
<1>7. PICK zeros : zeros = [i \in 0 .. m.max_locals - 1 |-> 0]
  OBVIOUS
<1>8. JavaFrame(frame)' = Java!Frame(c, MainMethod, 0, <<>>, zeros)
  <2>1. MethodVerified(m, prog.classes)
    BY <1>1, <1>3, MethodsVerified DEF EntryOK
  <2>2. ASSUME NEW i \in 0 .. m.max_locals - 1, m.code[0].loc[i + 1] # "-"
        PROVE  zeros[i] = Seen(locals[i], m.code[0].loc[i + 1])
    <3>1. m.code[0].loc[i + 1] \in VTypes
      BY <2>1, <2>2 DEF MethodVerified
    <3>2. locals[i] = Zeroed
      BY <1>1, <1>2 DEF Fill
    <3>3. zeros[i] = 0
      BY <1>7
    <3> QED BY <3>1, <3>2, <3>3, ZeroIs
  <2> QED BY <1>1, <1>5, <1>6, <2>2, EntryIs
<1>9. Loaded(c) /\ c \in DOMAIN statics
  BY <1>1, <1>4 DEF SafeInv, ClassInv, HeapInv, JavaInv, HeapClasses
<1>10. Begun' = Begun /\ JavaHeap' = JavaHeap /\ statics' = statics
  <2>1. (\A d : ~Waiting(d)) /\ \A d : ~Waiting(d)'
    BY <1>4 DEF Waiting
  <2> QED BY <1>4, <1>6, <2>1 DEF Begun, find_method, Class, JavaHeap, JavaObject
<1>11. Java!Initialized(c)
  BY <1>4, <1>9 DEF Java!Initialized, Java!HasClinit, Java!MethodsOf, Begun, find_method, Class, Waiting
<1>12. JavaOutcome = "starting" /\ JavaOutcome' = "running"
  BY <1>4, <1>6 DEF JavaOutcome, Terminal
<1>13. Java!Main = MainMethod /\ Java!MethodsOf(c)[MainMethod] = m
  BY <1>1 DEF Java!Main, MainMethod, Java!MethodsOf, Method, Class
<1> QED BY <1>1, <1>6, <1>7, <1>8, <1>9, <1>10, <1>11, <1>12, <1>13 DEF Java!Launches

LEMMA ShutdownRefinesJava ==
  ASSUME SafeInv, CommonGround, shutdown
  PROVE  Java!Finishes
<1>1. status = "boot" /\ stage = "main" /\ Crash("exit")
  BY DEF shutdown, CommonGround, MainAgrees
<1>2. status' = "exit" /\ UNCHANGED <<prog, stage, booted, frame, callers, class_heap, statics, memory>>
  BY <1>1 DEF Crash
<1>3. JavaOutcome = "running" /\ JavaOutcome' = "done" /\ JavaFrames = <<>>
  BY <1>1, <1>2, NoFrames DEF JavaOutcome, Terminal
<1>4. UNCHANGED <<prog, JavaFrames, Begun, statics, JavaHeap>>
  <2>1. JavaFrames' = JavaFrames
    BY <1>2 DEF JavaFrames, JavaFrame, TypesAt, Method, Class, Called
  <2> QED BY <1>2, <2>1, BegunKept DEF JavaHeap, JavaObject
<1> QED BY <1>3, <1>4 DEF Java!Finishes

-----------------------------------------------------------------------------
\* Returns.  The instruction the suspended activation on top is at.
LEMMA CallerRule ==
  ASSUME SafeInv, status = "run", callers # <<>>,
         NEW m, m = Method(caller.clazz, caller.meth), NEW q, q = caller.pc
  PROVE  /\ MethodVerified(m, prog.classes) /\ q \in DOMAIN m.code
         /\ frame.via = "clinit" <=> frame.meth = "<clinit>"
         /\ frame.via # "clinit" =>
              \E n \in 0 .. Len(m.code[q].stk) :
                IF method.ret = "V" THEN Pops(m, q, q + 3, n)
                ELSE Pushes(m, q, 3, n, TypeOf(method.ret))
<1>1. FrameTypeOK(caller) /\ FrameTypeOK(frame) /\ Len(callers) \in Nat /\ Len(callers) >= 1
  BY CallerTyped, Current DEF ActivationsOK
<1>2. MethodVerified(m, prog.classes) /\ q \in DOMAIN m.code
  BY <1>1, MethodsVerified DEF FrameTypeOK
<1>3. Calls(caller, frame)
  <2>1. Called(Len(callers)) = frame
    BY DEF Called
  <2> QED BY <1>1, <2>1 DEF SafeInv, ClassInv, CallersWait, caller
<1>4. PICK i : i = m.code[q]
  OBVIOUS
<1>5. /\ i.op \in Resolving /\ i.arg.clazz = frame.clazz
      /\ IF frame.via = "clinit" THEN frame.meth = "<clinit>"
         ELSE i.op = frame.via /\ i.arg.name = frame.meth
  BY <1>3, <1>4 DEF Calls
<1>6. InvokeRule(m, q, i.op, i.arg, prog.classes)
  BY <1>2, <1>4 DEF MethodVerified, InstructionRule
<1>7. CASE frame.via = "clinit"
  BY <1>2, <1>5, <1>7
<1>8. CASE frame.via # "clinit"
  <2>1. i.op \in {"invokestatic", "invokespecial", "invokevirtual"}
    BY <1>1, <1>5, <1>8 DEF FrameTypeOK, Resolving
  <2>2. method = prog.classes[i.arg.clazz].methods[i.arg.name]
    BY <1>5, <1>8 DEF method, Method, Class
  <2>3. PICK n : n = Operands(i.op, method)
    OBVIOUS
  <2>4. /\ i.arg.name # "<clinit>" /\ ArgumentsFit(i.stk, i.op, method)
        /\ IF method.ret = "V" THEN Pops(m, q, q + 3, n) ELSE Pushes(m, q, 3, n, TypeOf(method.ret))
    BY <1>4, <1>6, <2>1, <2>2, <2>3 DEF InvokeRule
  <2>5. Len(method.params) \in Nat
    <3>1. method.params \in Seq(STRING)
      BY <1>1, ProgramVerified DEF Verified, ClassVerified, FrameTypeOK, method, Method, Class
    <3> QED BY <3>1
  <2>6. n \in Nat /\ n <= Len(i.stk) /\ Len(i.stk) \in Nat
    <3>1. i.stk \in Seq(VTypes)
      BY <1>2, <1>4 DEF MethodVerified
    <3>2. n \in Nat
      <4>1. PICK k \in Nat : k = Len(method.params)
        BY <2>5
      <4>2. n = k + (IF i.op = "invokestatic" THEN 0 ELSE 1)
        BY <2>3, <4>1 DEF Operands
      <4> QED BY <4>2
    <3>3. Len(i.stk) >= n
      BY <2>3, <2>4 DEF ArgumentsFit
    <3> QED BY <3>1, <3>2, <3>3
  <2>7. n \in 0 .. Len(m.code[q].stk)
    BY <1>4, <2>6
  <2> QED BY <1>2, <1>5, <1>8, <2>4, <2>7
<1> QED BY <1>7, <1>8

\* The suspended activation on top as Java has it, when it waits for a method
\* the instruction invoked.
LEMMA CallerSeen ==
  ASSUME SafeInv, status = "run", callers # <<>>, frame.via # "clinit",
         NEW f, f = caller, NEW m, m = Method(f.clazz, f.meth)
  PROVE  /\ JavaFrame(f).stack = Values(f.op_stack) /\ f.op_stack \in Seq(Entry)
         /\ \E stk : Flows(m, f.pc + 3, stk, m.code[f.pc].loc)
<1>1. PICK q : q = f.pc
  OBVIOUS
<1>2. PICK n \in 0 .. Len(m.code[q].stk) :
        IF method.ret = "V" THEN Pops(m, q, q + 3, n) ELSE Pushes(m, q, 3, n, TypeOf(method.ret))
  BY <1>1, CallerRule
<1>3. MethodVerified(m, prog.classes) /\ q \in DOMAIN m.code
  BY <1>1, CallerRule
<1>4. PICK stk, left, old : stk = m.code[q].stk /\ left = drop(stk, n) /\ old = f.op_stack
  OBVIOUS
<1>5. /\ FrameTypeOK(f) /\ Awaiting(f, frame) /\ method = Method(frame.clazz, frame.meth)
      /\ \A pc : TypesAt(f, pc) = m.code[pc]
  BY CallerTyped DEF method, TypesAt
<1>6. /\ stk \in Seq(VTypes) /\ Len(stk) \in Nat /\ old \in Seq(Entry) /\ Len(old) \in Nat
      /\ \A i \in 1 .. Len(old) : InRange(old[i])
  BY <1>3, <1>4, <1>5 DEF MethodVerified, FrameTypeOK
<1>7. Len(left) = Len(stk) - n /\ \A i \in 1 .. Len(left) : left[i] = stk[i]
  <2>1. PICK len \in Nat : len = Len(stk)
    BY <1>6
  <2>2. left = SubSeq(stk, 1, len - n) /\ len - n \in 0 .. len
    <3>1. n \in 0 .. len
      BY <1>4, <2>1
    <3>2. left = SubSeq(stk, 1, len - n)
      BY <1>4, <2>1 DEF drop
    <3> QED BY <3>1, <3>2
  <2>3. Len(left) = len - n
    BY <1>6, <2>1, <2>2
  <2> QED BY <1>6, <2>1, <2>2, <2>3
<1>8. Len(old) = Len(left) /\ \A i \in 1 .. Len(old) : old[i].type \in OperandTags(left[i])
  <2>1. CASE method.ret = "V"
    <3>1. m.code[q + 3].stk = left
      BY <1>2, <1>4, <2>1 DEF Pops, Flows
    <3>2. StackFits(old, left)
      BY <1>1, <1>4, <1>5, <2>1, <3>1 DEF Awaiting
    <3> QED BY <3>2 DEF StackFits
  <2>2. CASE method.ret # "V"
    <3>1. PICK t, after : t = TypeOf(method.ret) /\ after = m.code[q + 3].stk
      OBVIOUS
    <3>2. after = Append(left, t)
      BY <1>2, <1>4, <2>2, <3>1 DEF Pushes, Flows
    <3>3. Len(after) = Len(old) + 1 /\ \A i \in 1 .. Len(old) : old[i].type \in OperandTags(after[i])
      BY <1>1, <1>4, <1>5, <2>2, <3>1 DEF Awaiting
    <3>4. left \in Seq(VTypes)
      BY <1>2, <1>4, <1>6 DEF drop
    <3>5. Len(after) = Len(left) + 1 /\ \A i \in 1 .. Len(left) : after[i] = left[i]
      <4>1. IsSequence(left)
        BY <3>4, SequenceOfSet
      <4> QED BY <3>2, <4>1, AppendElements
    <3>6. Len(left) \in Nat
      BY <3>4
    <3>7. Len(old) = Len(left)
      BY <1>6, <3>3, <3>5, <3>6
    <3> QED BY <3>3, <3>5, <3>7
  <2> QED BY <2>1, <2>2
<1>9. Len(old) <= Len(stk) /\ \A i \in 1 .. Len(old) : old[i].type \in OperandTags(stk[i])
  BY <1>2, <1>6, <1>7, <1>8
<1>10. SeenStack(old, stk) = Values(old)
  BY <1>6, <1>9, SeenStackIs
<1>11. JavaFrame(f).stack = Values(f.op_stack)
  BY <1>1, <1>4, <1>5, <1>10 DEF JavaFrame
<1> QED BY <1>1, <1>2, <1>4, <1>6, <1>11 DEF Pops, Pushes

\* Everything but the activations when a method returns, and the ones that
\* stay suspended.
LEMMA ResumedIs ==
  ASSUME SafeInv, SafeInv', status = "run", callers # <<>>, NEW stack, NEW len, Resume(stack, len)
  PROVE  /\ JavaFrames' = Append(SubSeq(Suspends, 1, Len(Suspends) - 1), JavaFrame(frame)')
         /\ Suspends[Len(Suspends)] = JavaFrame(caller) /\ Len(JavaFrames) # 1
         /\ UNCHANGED <<prog, JavaOutcome, Begun, statics, JavaHeap>>
<1>1. /\ callers' = drop(callers, 1)
      /\ UNCHANGED <<prog, status, stage, booted, class_heap, statics, memory>>
  BY DEF Resume
<1>2. PICK n : n = Len(callers)
  OBVIOUS
<1>3. IsSequence(callers) /\ n \in Nat /\ n >= 1 /\ 1 \in 0 .. n
  BY <1>2, CallerTyped
<1>4. PICK cs : cs = callers'
  OBVIOUS
<1>5. Len(cs) = n - 1 /\ \A i \in 1 .. n - 1 : cs[i] = callers[i]
  BY <1>1, <1>2, <1>3, <1>4, DropElements
<1>6. PICK s : s = Suspends
  OBVIOUS
<1>7. s = [i \in 1 .. n |-> s[i]] /\ \A i \in 1 .. n : s[i] = JavaFrame(callers[i])
  BY <1>2, <1>6 DEF Suspends
<1>8. Len(s) = n /\ s[n] = JavaFrame(caller)
  BY <1>2, <1>3, <1>7 DEF caller
<1>9. Suspends' = SubSeq(s, 1, n - 1)
  <2>1. Suspends' = [i \in 1 .. Len(cs) |-> JavaFrame(cs[i])]
    BY <1>1, <1>4 DEF Suspends, JavaFrame, TypesAt, Method, Class
  <2>2. \A i \in 1 .. n - 1 : JavaFrame(cs[i]) = s[i]
    BY <1>3, <1>5, <1>7
  <2>3. Suspends' = [i \in 1 .. n - 1 |-> s[i]]
    BY <1>5, <2>1, <2>2
  <2>4. SubSeq(s, 1, n - 1) = [i \in 1 .. n - 1 |-> s[i]]
    BY <1>3, <1>7
  <2> QED BY <2>3, <2>4
<1>10. JavaFrames' = Append(Suspends', JavaFrame(frame)')
  BY <1>1, FramesNext
<1>11. Len(JavaFrames) # 1
  BY <1>2, <1>3, FramesAre
<1>12. UNCHANGED <<prog, JavaOutcome, Begun, statics, JavaHeap>>
  BY <1>1, BegunKept DEF JavaOutcome, JavaHeap, JavaObject
<1> QED BY <1>6, <1>8, <1>9, <1>10, <1>11, <1>12

\* What a return hands over is the topmost operand.
LEMMA ResultSeen ==
  ASSUME SafeInv, Fetch(Returns), method.ret # "V"
  PROVE  /\ result.value = Java!operand(0)
         /\ [type |-> result.type, value |-> result.value] \in Entry
<1>1. status = "run" /\ ins.op \in {"ireturn", "return", "lreturn", "areturn"}
  BY DEF Fetch, Returns
<1>2. /\ Top(rule.stk, TypeOf(method.ret)) /\ ins.op # "return"
      /\ ins.op = "ireturn" => TypeOf(method.ret) = "I"
      /\ ins.op = "lreturn" => TypeOf(method.ret) = "J"
  BY <1>1, Rules DEF ReturnRule, rule
<1>3. PICK v : v = Java!operand(0)
  OBVIOUS
<1>4. /\ v = top(opst).value
      /\ TypeOf(method.ret) = "I" => v = int32(top(opst))
      /\ TypeOf(method.ret) = "J" => v = stack_to_int(top(opst))
  BY <1>1, <1>2, <1>3, JavaTop
<1>5. CASE ins.op = "ireturn"
  BY <1>2, <1>3, <1>4, <1>5, ResultTyped DEF result
<1>6. CASE ins.op = "lreturn"
  BY <1>2, <1>3, <1>4, <1>6, ResultTyped DEF result
<1>7. CASE ins.op = "areturn"
  BY <1>3, <1>4, <1>7, ResultTyped DEF result
<1> QED BY <1>1, <1>2, <1>5, <1>6, <1>7

\* The activation that called goes on behind the call with the values returned.
LEMMA ResumedFrame ==
  ASSUME SafeInv, SafeInv', status = "run", callers # <<>>, frame.via # "clinit",
         NEW stack, Resume(stack, 3),
         NEW g, g = JavaFrame(caller), NEW values, Values(stack) = g.stack \o values
  PROVE  JavaFrame(frame)' = Java!Frame(g.clazz, g.meth, g.pc + 3, g.stack \o values, g.vars)
<1>1. PICK f, h : f = caller /\ h = frame'
  OBVIOUS
<1>2. /\ h.clazz = f.clazz /\ h.meth = f.meth /\ h.locals = f.locals /\ h.op_stack = stack
      /\ h.pc = f.pc + 3 /\ UNCHANGED <<prog, status>>
  BY <1>1, CallerTyped DEF Resume, IsActivation
<1>3. PICK m, q, loc : m = Method(f.clazz, f.meth) /\ q = f.pc /\ loc = m.code[q].loc
  OBVIOUS
<1>4. PICK stk : Flows(m, q + 3, stk, loc)
  BY <1>1, <1>3, CallerSeen
<1>5. /\ MethodVerified(m, prog.classes) /\ FrameTypeOK(f)
      /\ \A pc : TypesAt(f, pc) = m.code[pc] /\ TypesAt(h, pc) = m.code[pc]
  BY <1>1, <1>2, <1>3, CallerRule, CallerTyped DEF TypesAt
<1>6. FrameTypeOK(h) /\ Running(h)
  <2>1. (FrameTypeOK(frame) /\ Running(frame))'
    BY <1>2 DEF SafeInv, ActivationsOK
  <2> QED BY <1>1, <1>2, <2>1 DEF FrameTypeOK, Running, TypesAt, Method, Class
<1>7. SeenStack(stack, m.code[q + 3].stk) = Values(stack)
  <2>1. PICK after : after = m.code[q + 3].stk
    OBVIOUS
  <2>2. after \in Seq(VTypes)
    BY <1>4, <1>5, <2>1 DEF MethodVerified, Flows
  <2>3. /\ stack \in Seq(Entry) /\ Len(stack) = Len(after) /\ Len(stack) \in Nat
        /\ \A i \in 1 .. Len(stack) : InRange(stack[i]) /\ stack[i].type \in OperandTags(after[i])
    BY <1>2, <1>3, <1>5, <1>6, <2>1 DEF Running, StackFits, FrameTypeOK
  <2>4. SeenStack(stack, after) = Values(stack)
    BY <2>2, <2>3, SeenStackIs
  <2> QED BY <2>1, <2>4
<1>8. PICK vs : vs = SeenVars(f.locals, loc)
  OBVIOUS
<1>9. SeenVars(f.locals, m.code[q + 3].loc) = [i \in Java!Usable(m, q + 3) |-> vs[i]]
  <2>1. DOMAIN f.locals = 0 .. m.max_locals - 1
    BY <1>3, <1>5 DEF FrameTypeOK
  <2>2. \A i \in 0 .. m.max_locals - 1 : m.code[q + 3].loc[i + 1] \in {loc[i + 1], "-"}
    BY <1>4 DEF Flows
  <2>3. {i \in DOMAIN f.locals : m.code[q + 3].loc[i + 1] # "-"} = Java!Usable(m, q + 3)
    BY <2>1 DEF Java!Usable
  <2>4. \A i \in Java!Usable(m, q + 3) : vs[i] = Seen(f.locals[i], m.code[q + 3].loc[i + 1])
    BY <1>8, <2>1, <2>2 DEF SeenVars, Java!Usable
  <2> QED BY <2>3, <2>4 DEF SeenVars
<1>10. /\ g.clazz = f.clazz /\ g.meth = f.meth /\ g.pc = q /\ g.vars = vs
       /\ Java!MethodsOf(f.clazz)[f.meth] = m
  BY <1>1, <1>3, <1>5, <1>8 DEF JavaFrame, Java!MethodsOf, Method, Class
<1>11. JavaFrame(h) = Java!Frame(f.clazz, f.meth, q + 3, Values(stack), vs)
  <2>1. TypesAt(h, h.pc) = m.code[q + 3]
    BY <1>2, <1>3, <1>5
  <2>2. JavaFrame(h) = [clazz |-> f.clazz, meth |-> f.meth, pc |-> q + 3,
                        stack |-> SeenStack(stack, m.code[q + 3].stk),
                        vars |-> SeenVars(f.locals, m.code[q + 3].loc)]
    BY <1>2, <1>3, <2>1 DEF JavaFrame
  <2> QED BY <1>7, <1>9, <1>10, <2>2 DEF Java!Frame
<1>12. JavaFrame(frame)' = JavaFrame(h)
  BY <1>1, <1>2 DEF JavaFrame, TypesAt, Method, Class
<1> QED BY <1>10, <1>11, <1>12

LEMMA ReturnsRefineJava ==
  ASSUME SafeInv, SafeInv', returns
  PROVE  Java!Returns
<1>1. Fetch(Returns) /\ status = "run" /\ ins.op \in {"return", "ireturn", "lreturn", "areturn"}
  BY ResultTyped DEF returns, wrong_return, return_to_main, return_from_clinit,
                     return_from_special, return_value, Fetch, Returns
<1>2. Java!Is({"return", "ireturn", "lreturn", "areturn"}) /\ Java!method = method
      /\ Java!running.meth = frame.meth /\ Java!Suspended = Suspends
  BY <1>1, JavaHere, FramesAre
<1>3. CASE wrong_return
  BY <1>1, <1>3, ResultTyped, VoidMethods DEF wrong_return
<1>4. CASE return_to_main
  <2>1. /\ callers = <<>> /\ status' = "boot" /\ frame' = Idle
        /\ UNCHANGED <<prog, stage, booted, callers, class_heap, statics, memory>>
    BY <1>4 DEF return_to_main
  <2>2. Len(JavaFrames) = 1
    <3>1. Len(callers) = 0
      BY <2>1
    <3>2. Len(JavaFrames) = Len(callers) + 1
      BY <1>1, FramesAre
    <3> QED BY <3>1, <3>2
  <2>3. JavaFrames' = <<>>
    BY <2>1 DEF JavaFrames, Idle, Activation
  <2>4. UNCHANGED <<prog, JavaOutcome, Begun, statics, JavaHeap>>
    BY <1>1, <2>1, BegunKept DEF JavaOutcome, Terminal, JavaHeap, JavaObject
  <2> QED BY <1>2, <2>2, <2>3, <2>4 DEF Java!Returns
<1>5. PICK g, below : g = JavaFrame(caller) /\ below = SubSeq(Suspends, 1, Len(Suspends) - 1)
  OBVIOUS
<1>6. CASE return_from_clinit
  <2>1. callers # <<>> /\ frame.via = "clinit" /\ Resume(caller.op_stack, 0)
    BY <1>6 DEF return_from_clinit
  <2>2. frame.meth = "<clinit>"
    BY <1>1, <2>1, CallerRule
  <2>3. frame' = caller /\ prog' = prog
    <3>1. IsActivation(caller) /\ caller.pc + 0 = caller.pc
      <4>1. MethodVerified(Method(caller.clazz, caller.meth), prog.classes)
            /\ caller.pc \in DOMAIN Method(caller.clazz, caller.meth).code
        BY <1>1, <2>1, CallerRule
      <4>2. caller.pc \in Nat
        BY <4>1 DEF MethodVerified
      <4> QED BY <1>1, <2>1, <4>2, CallerTyped
    <3> QED BY <2>1, <3>1 DEF Resume, IsActivation
  <2>4. JavaFrame(frame)' = g
    BY <1>5, <2>3 DEF JavaFrame, TypesAt, Method, Class
  <2>5. /\ JavaFrames' = Append(below, g) /\ Suspends[Len(Suspends)] = g /\ Len(JavaFrames) # 1
        /\ UNCHANGED <<prog, JavaOutcome, Begun, statics, JavaHeap>>
    BY <1>1, <1>5, <2>1, <2>4, ResumedIs
  <2> QED BY <1>2, <1>5, <2>2, <2>5 DEF Java!Returns
<1>7. CASE return_from_special \/ return_value
  <2>1. callers # <<>> /\ frame.via # "clinit" /\ frame.meth # "<clinit>"
    BY <1>1, <1>7, CallerRule DEF return_from_special, return_value
  <2>2. PICK values : values = IF method.ret = "V" THEN <<>> ELSE <<Java!operand(0)>>
    OBVIOUS
  <2>3. PICK old : old = caller.op_stack
    OBVIOUS
  <2>4. old \in Seq(Entry) /\ g.stack = Values(old)
    BY <1>1, <1>5, <2>1, <2>3, CallerSeen
  <2>5. PICK stack : Resume(stack, 3) /\ Values(stack) = g.stack \o values
    <3>1. Values(old) \in Seq(Int)
      BY <2>4, ValuesOf
    <3>2. CASE method.ret = "V"
      <4>1. Resume(old, 3)
        BY <1>1, <1>7, <2>3, <3>2, ResultTyped DEF return_from_special, return_value
      <4>2. Values(old) = Values(old) \o <<>>
        <5>1. PICK s \in Seq(Int) : s = Values(old)
          BY <3>1
        <5>2. s = s \o <<>>
          OBVIOUS
        <5> QED BY <5>1, <5>2
      <4> QED BY <2>2, <2>4, <3>2, <4>1, <4>2
    <3>3. CASE method.ret # "V"
      <4>1. PICK e : e = [type |-> result.type, value |-> result.value]
        OBVIOUS
      <4>2. e \in Entry /\ e.value = Java!operand(0)
        BY <1>1, <3>3, <4>1, ResultSeen
      <4>3. Resume(Append(old, e), 3)
        BY <1>1, <1>7, <2>3, <3>3, <4>1, ResultTyped DEF return_from_special, return_value, Push
      <4>4. Values(Append(old, e)) = Append(Values(old), e.value)
        BY <2>4, <4>2, ValuesOf
      <4>5. PICK s \in Seq(Int), v \in Int : s = Values(old) /\ v = e.value
        BY <3>1, <4>2 DEF Entry
      <4>6. Append(s, v) = s \o <<v>>
        OBVIOUS
      <4> QED BY <2>2, <2>4, <3>3, <4>2, <4>3, <4>4, <4>5, <4>6
    <3> QED BY <3>2, <3>3
  <2>6. JavaFrame(frame)' = Java!Frame(g.clazz, g.meth, g.pc + 3, g.stack \o values, g.vars)
    BY <1>1, <1>5, <2>1, <2>5, ResumedFrame
  <2>7. /\ JavaFrames' = Append(below, JavaFrame(frame)') /\ Suspends[Len(Suspends)] = g
        /\ Len(JavaFrames) # 1 /\ UNCHANGED <<prog, JavaOutcome, Begun, statics, JavaHeap>>
    BY <1>1, <1>5, <2>1, <2>5, ResumedIs
  <2>8. JavaFrames' = Append(below, Java!Frame(g.clazz, g.meth, g.pc + 3, g.stack \o values, g.vars))
    BY <2>6, <2>7
  <2> QED BY <1>2, <1>5, <2>1, <2>2, <2>7, <2>8 DEF Java!Returns
<1> QED BY <1>3, <1>4, <1>6, <1>7 DEF returns

-----------------------------------------------------------------------------
\* Calls.  The method an instruction names, the operands it takes and its
\* object, as Java has them.
LEMMA CalleeIs ==
  ASSUME SafeInv, JavaInv, CommonGround, NEW op \in {"invokestatic", "invokespecial", "invokevirtual"},
         Resolved({op})
  PROVE  /\ Resolved({"invokestatic", "invokespecial", "invokevirtual"})
         /\ status = "run" /\ ins.op = op /\ Java!ins = ins
         /\ Java!named = callee /\ Java!arguments = num_params /\ num_params \in Nat
         /\ Java!Consumed = Popped /\ Popped \in 0 .. Len(opst) /\ Popped \in 0 .. Len(rule.stk)
         /\ num_params <= Len(opst)
         /\ Java!Callable
         /\ op # "invokestatic" => Java!receiver = this.value /\ num_params < Len(opst)
<1>1. Resolved({"invokestatic", "invokespecial", "invokevirtual"}) /\ status = "run" /\ ins.op = op
  BY DEF Resolved, Fetch
<1>2. /\ num_params = Len(callee.params) /\ num_params \in Nat
      /\ Popped \in Nat /\ Popped <= Len(rule.stk)
  BY <1>1, Target
<1>3. Java!ins = ins /\ Len(opst) = Len(rule.stk) /\ Len(opst) \in Nat
  BY <1>1, JavaHere, JavaOperands
<1>4. Java!named = callee
  BY <1>3 DEF Java!named, Java!MethodsOf, callee, Method, Class
<1>5. Java!arguments = num_params
  BY <1>2, <1>4 DEF Java!arguments
<1>6. PICK n \in Nat : n = num_params
  BY <1>2
<1>7. Popped = n + (IF op = "invokestatic" THEN 0 ELSE 1)
  BY <1>1, <1>6 DEF Popped
<1>8. Java!Consumed = Popped
  BY <1>1, <1>3, <1>5, <1>6, <1>7 DEF Java!Consumed
<1>9. n <= Popped /\ (op # "invokestatic" => n < Popped)
  BY <1>6, <1>7
<1>10. ASSUME op # "invokestatic"
       PROVE  Java!receiver = this.value /\ n < Len(opst)
  <2>1. n \in 0 .. Len(opst) - 1
    BY <1>2, <1>3, <1>6, <1>9, <1>10
  <2>2. Java!operand(n) = peek(opst, n).value
    BY <1>1, <2>1, JavaOperands
  <2> QED BY <1>5, <1>6, <2>1, <2>2, <1>3 DEF Java!receiver, this
<1>11. Java!Callable
  <2>1. CASE op = "invokestatic"
    <3>1. Resolved({"invokestatic"})
      BY <2>1
    <3>2. Java!Triggered("invokestatic")
      BY <3>1, TriggeredIs DEF Java!Triggers
    <3> QED BY <3>2 DEF Java!Callable
  <2>2. CASE op # "invokestatic"
    <3>1. peek(opst, num_params).value # NULL
      BY <1>1, <2>2 DEF CommonGround, CallsAgree
    <3>2. Java!receiver # 0
      BY <1>10, <2>2, <3>1 DEF this, NULL
    <3>3. Java!Is({"invokespecial", "invokevirtual"})
      BY <1>1, <2>2, JavaHere
    <3> QED BY <3>2, <3>3 DEF Java!Callable
  <2> QED BY <2>1, <2>2
<1> QED BY <1>1, <1>2, <1>3, <1>4, <1>5, <1>6, <1>8, <1>9, <1>10, <1>11

\* An argument keeps its value when it becomes a variable.
LEMMA PassedSeen ==
  ASSUME NEW e \in Entry, InRange(e), NEW t \in VTypes, e.type \in OperandTags(t)
  PROVE  Seen(pop_to_local(e), t) = e.value
<1>1. /\ e.value \in Int
      /\ t = "I" => stack_to_int(e) = e.value /\ e.value \in SignedRange(IntHalf)
      /\ t = "J" => stack_to_int(e) = e.value /\ e.value \in SignedRange(LongHalf)
  BY SeenOperand
<1>2. CASE t = "I"
  <2>1. pop_to_local(e).value = e.value
    BY <1>1, <1>2 DEF pop_to_local
  <2>2. Signed(e.value, IntHalf) = e.value
    BY <1>1, <1>2, SignedSame, Widths
  <2> QED BY <1>2, <2>1, <2>2 DEF Seen
<1>3. CASE t = "J"
  <2>1. pop_to_local(e).value = e.value
    BY <1>1, <1>3 DEF pop_to_local
  <2>2. Signed(e.value, LongHalf) = e.value
    BY <1>1, <1>3, SignedSame, Widths
  <2> QED BY <1>3, <2>1, <2>2 DEF Seen
<1>4. CASE t = "A"
  <2>1. e.type \notin IntegerTypes
    BY <1>4 DEF OperandTags, IntegerTypes
  <2>2. pop_to_local(e).value = e.value
    BY <2>1 DEF pop_to_local
  <2> QED BY <1>4, <2>2 DEF Seen
<1> QED BY <1>2, <1>3, <1>4 DEF VTypes

\* Unless a long comes before it, a parameter is passed in the slot it has.
LEMMA PassedIs ==
  ASSUME NEW m, NEW n \in Nat, \A j \in 1 .. n - 1 : m.params[j] # "J", NEW j \in 1 .. n,
         m.static \in BOOLEAN
  PROVE  Java!Passed(m, j) = Slot(m, j)
<1>1. {k \in 1 .. j - 1 : m.params[k] = "J"} = {}
  OBVIOUS
<1>2. \A S : Java!Cardinality(S) = Cardinality(S)
  BY DEF Java!Cardinality, Cardinality
<1>3. Java!Cardinality({k \in 1 .. j - 1 : m.params[k] = "J"}) = 0
  BY <1>1, <1>2, FS_EmptySet
<1> QED BY <1>3 DEF Java!Passed, Slot

\* A method is static or not.
LEMMA StaticKnown ==
  ASSUME SafeInv, NEW c \in DOMAIN prog.classes, NEW name \in DOMAIN Class(c).methods
  PROVE  Method(c, name).static \in BOOLEAN /\ Method(c, name).native \in BOOLEAN
BY ProgramVerified DEF Verified, ClassVerified, Class, Method

\* The variables a method begins with, where its first instruction can use them.
ParameterSeen(first, fill, m, i) ==
    Java!Parameters(m)[i] = Seen(OwnLocals(first, fill)[i], m.code[0].loc[i + 1])

LEMMA ParametersSeen ==
  ASSUME SafeInv, JavaInv, CommonGround, Resolved({"invokestatic", "invokespecial", "invokevirtual"}),
         callee.native = FALSE, NEW first, first = (IF ins.op = "invokestatic" THEN 0 ELSE 1), NEW fill,
         NEW m, m = callee, NEW i \in Java!Usable(m, 0)
  PROVE  ParameterSeen(first, fill, m, i)
<1> DEFINE op == ins.op
<1>1. /\ op \in {"invokestatic", "invokespecial", "invokevirtual"}
      /\ Resolved({op}) /\ callee.native = FALSE
  BY DEF Resolved, Fetch
<1>0. i \in 0 .. m.max_locals - 1 /\ m.code[0].loc[i + 1] # "-"
  BY DEF Java!Usable
<1> USE <1>0
<1>2. /\ Resolved({"invokestatic", "invokespecial", "invokevirtual"}) /\ status = "run" /\ ins.op = op
      /\ num_params <= Len(opst) /\ num_params \in Nat
      /\ op # "invokestatic" => Java!receiver = this.value /\ num_params < Len(opst)
  BY <1>1, CalleeIs
<1>3. /\ ins.arg.clazz \in DOMAIN prog.classes /\ ins.arg.name \in DOMAIN Class(ins.arg.clazz).methods
      /\ m = Method(ins.arg.clazz, ins.arg.name)
      /\ op = "invokestatic" => m.static
      /\ op # "invokestatic" => ~m.static
      /\ num_params = Len(m.params)
      /\ ArgumentsFit(rule.stk, op, m)
  BY <1>2, Target DEF find_method, callee
<1>4. MethodVerified(m, prog.classes)
  BY <1>1, <1>3, MethodsVerified
<1>5. EntryLocals(m) /\ m.max_locals \in Nat /\ m.static \in BOOLEAN
  <2>3. m.static \in BOOLEAN
    BY ONLY <1>3, SafeInv, StaticKnown
  <2> QED BY <1>4, <2>3 DEF MethodVerified
<1>6. PICK n \in Nat : n = num_params
  BY <1>2
<1>7. PICK p : p = Java!Parameters(m)[i]
  OBVIOUS
<1>8. p = IF i = 0 /\ ~m.static THEN Java!receiver
          ELSE IF \E j \in 1 .. n : Java!Passed(m, j) = i
               THEN Java!Arguments(n)[CHOOSE j \in 1 .. n : Java!Passed(m, j) = i]
               ELSE 0
  BY <1>3, <1>6, <1>7 DEF Java!Parameters
<1>9. \A j \in 1 .. n : Java!Passed(m, j) = Slot(m, j)
  <2>1. \A j \in 1 .. n - 1 : m.params[j] # "J"
    BY <1>1, <1>2, <1>3, <1>6 DEF CommonGround, CallsAgree
  <2> QED BY <1>5, <2>1, PassedIs
<1>10. PICK local : local = OwnLocals(first, fill)[i]
  OBVIOUS
<1>11. local = IF i < first THEN this
               ELSE IF i - first < n THEN Argument(i - first + 1) ELSE fill
  BY <1>6, <1>10 DEF OwnLocals
<1>12. PICK t : t = m.code[0].loc[i + 1]
  OBVIOUS
<1>13. i \in Nat /\ first \in {0, 1} /\ (first = 1 <=> ~m.static) /\ (first = 0 <=> m.static)
  BY <1>3, <1>5
<1>14. CASE i < first
  <2>1. i = 0 /\ ~m.static /\ op # "invokestatic"
    BY <1>3, <1>13, <1>14
  <2>2. p = this.value
    BY <1>2, <1>8, <2>1
  <2>3. t = "A"
    BY <1>5, <1>12, <2>1 DEF EntryLocals
  <2>4. local = this
    BY <1>11, <1>14
  <2>5. Seen(local, t) = local.value
    BY <2>3 DEF Seen
  <2> QED BY <1>7, <1>10, <1>12, <2>2, <2>4, <2>5 DEF ParameterSeen
<1>15. CASE ~(i < first) /\ i - first < n
  <2>1. PICK j \in 1 .. n : j = i - first + 1
    BY <1>6, <1>13, <1>15
  <2>2. \A k \in 1 .. n : Java!Passed(m, k) = i <=> k = j
    BY <1>9, <1>13, <2>1 DEF Slot
  <2>3. (CHOOSE k \in 1 .. n : Java!Passed(m, k) = i) = j
    BY <2>2
  <2>4. ~(i = 0 /\ ~m.static)
    BY <1>13, <1>15
  <2>5. p = Java!operand(n - j)
    <3>1. p = Java!Arguments(n)[j]
      BY <1>8, <2>2, <2>3, <2>4
    <3> QED BY <3>1 DEF Java!Arguments
  <2>6. PICK k \in Nat : k = n - j
    OBVIOUS
  <2>7. /\ Len(opst) = Len(rule.stk) /\ Len(opst) \in Nat /\ k < Len(rule.stk)
        /\ Len(opst) - n + j = Len(opst) - k /\ Len(rule.stk) - n + j = Len(rule.stk) - k
    BY <1>2, <1>6, <2>6, JavaOperands
  <2>8. PICK e : e = peek(opst, k)
    OBVIOUS
  <2>9. peek(rule.stk, k) = TypeOf(m.params[j])
    BY <1>3, <1>6, <2>7 DEF ArgumentsFit, peek
  <2>10. t = TypeOf(m.params[j])
    <3>1. Slot(m, j) = i
      BY <2>1, <2>2, <1>9
    <3> QED BY <1>3, <1>5, <1>6, <1>12, <3>1 DEF EntryLocals
  <2>11. e \in Entry /\ InRange(e) /\ t \in VTypes /\ e.type \in OperandTags(t)
    BY <1>2, <2>7, <2>8, <2>9, <2>10, Current, PeekFits
  <2>12. local = pop_to_local(e)
    <3>1. local = Argument(j)
      BY <1>11, <1>15, <2>1
    <3> QED BY <1>6, <2>7, <2>8, <3>1 DEF Argument, peek
  <2>13. p = e.value
    <3>1. k \in 0 .. Len(opst) - 1
      BY <2>7
    <3>2. Java!operand(k) = peek(opst, k).value
      BY <1>2, <3>1, JavaOperands
    <3> QED BY <2>5, <2>6, <2>8, <3>2
  <2>14. Seen(local, t) = e.value
    BY <2>11, <2>12, PassedSeen
  <2> QED BY <1>7, <1>10, <1>12, <2>13, <2>14 DEF ParameterSeen
<1>16. CASE ~(i < first) /\ ~(i - first < n)
  <2>1. i >= Slot(m, Len(m.params) + 1)
    BY <1>3, <1>6, <1>13, <1>16 DEF Slot
  <2>2. t = "-"
    BY <1>5, <1>12, <2>1 DEF EntryLocals
  <2> QED BY <1>12, <2>2
<1> QED BY <1>14, <1>15, <1>16

\* An activation that waits for a call keeps what is below the operands of it.
LEMMA SuspendedIs ==
  ASSUME SafeInv, status = "run", NEW k \in 0 .. Len(opst),
         NEW f, f = [frame EXCEPT !.op_stack = drop(opst, k)]
  PROVE  JavaFrame(f) = Java!Frame(Java!running.clazz, Java!running.meth, Java!running.pc,
                                   Java!Below(k), Java!running.vars)
<1>1. PICK s : s = drop(opst, k)
  OBVIOUS
<1>2. PICK stk, loc : stk = rule.stk /\ loc = rule.loc
  OBVIOUS
<1>3. /\ f.clazz = frame.clazz /\ f.meth = frame.meth /\ f.pc = frame.pc
      /\ f.locals = frame.locals /\ f.op_stack = s
  BY <1>1, Current DEF IsActivation
<1>4. TypesAt(f, f.pc).stk = stk /\ TypesAt(f, f.pc).loc = loc
  BY <1>2, <1>3 DEF TypesAt, method, rule
<1>5. SeenStack(s, stk) = Values(s)
  <2>1. /\ opst \in Seq(Entry) /\ Len(opst) = Len(stk) /\ Len(opst) \in Nat /\ stk \in Seq(VTypes)
        /\ \A i \in 1 .. Len(opst) : InRange(opst[i]) /\ opst[i].type \in OperandTags(stk[i])
    BY <1>2, Current DEF Stacked, StackFits
  <2>2. IsSequence(opst)
    BY <2>1, SequenceOfSet
  <2>3. s \in Seq(Entry) /\ Len(s) = Len(opst) - k /\ \A i \in 1 .. Len(s) : s[i] = opst[i]
    BY <1>1, <2>2, JavaOperands, DropElements
  <2>4. Len(s) <= Len(stk) /\ \A i \in 1 .. Len(s) : i \in 1 .. Len(opst)
    BY <2>1, <2>3
  <2> QED BY <2>1, <2>3, <2>4, SeenStackIs
<1>6. Java!MethodsOf(frame.clazz)[frame.meth] = method /\ method.code[frame.pc].loc = loc
  BY <1>2 DEF Java!MethodsOf, method, Method, Class, rule
<1>7. PICK vs : vs = SeenVars(frame.locals, loc)
  OBVIOUS
<1>8. vs = [i \in Java!Usable(method, frame.pc) |-> vs[i]]
  <2>1. DOMAIN frame.locals = 0 .. method.max_locals - 1
    BY Current
  <2>2. {i \in DOMAIN frame.locals : loc[i + 1] # "-"} = Java!Usable(method, frame.pc)
    BY <1>6, <2>1 DEF Java!Usable
  <2> QED BY <1>7, <2>2 DEF SeenVars
<1>9. JavaFrame(f) = Java!Frame(frame.clazz, frame.meth, frame.pc, Values(s), vs)
  BY <1>3, <1>4, <1>5, <1>6, <1>7, <1>8 DEF JavaFrame, Java!Frame
<1> QED BY <1>1, <1>2, <1>7, <1>9, JavaHere, JavaOperands

\* Two more activations.
LEMMA AppendedTwice ==
  ASSUME NEW s, IsSequence(s), NEW a, NEW b
  PROVE  Append(Append(s, a), b) = s \o <<a, b>>
<1>1. PICK n : n = Len(s)
  OBVIOUS
<1>2. n \in Nat /\ s = [i \in 1 .. n |-> s[i]]
  BY <1>1 DEF IsSequence
<1> QED BY <1>1, <1>2

\* A call is what Java does: the arguments are the variables of the method.
LEMMA InvokeRefinesJava ==
  ASSUME SafeInv, JavaInv, SafeInv', CommonGround,
         NEW op \in {"invokestatic", "invokespecial", "invokevirtual"}, Invoke(op, FALSE),
         NEW first, first = (IF op = "invokestatic" THEN 0 ELSE 1), NEW fill,
         Call(ins.arg.clazz, ins.arg.name, OwnLocals(first, fill), ins.op, drop(opst, Popped)),
         UNCHANGED heaps
  PROVE  Java!Invokes
<1>1. Resolved({op}) /\ callee.native = FALSE
  BY DEF Invoke
<1>2. /\ Resolved({"invokestatic", "invokespecial", "invokevirtual"})
      /\ status = "run" /\ Java!ins = ins /\ Java!named = callee
      /\ Java!Consumed = Popped /\ Popped \in 0 .. Len(opst)
      /\ Java!Callable
  BY <1>1, CalleeIs
<1>3. Java!Selected = ins.arg.clazz
  BY <1>1, <1>2 DEF CommonGround, CallsAgree
<1>4. PICK c, name, locals : c = ins.arg.clazz /\ name = ins.arg.name /\ locals = OwnLocals(first, fill)
  OBVIOUS
<1>5. PICK m : m = callee
  OBVIOUS
<1>6. m = Method(c, name) /\ Java!MethodsOf(c)[name] = m /\ m.native = FALSE
  BY <1>1, <1>4, <1>5 DEF callee, Java!MethodsOf, Method, Class
<1>7. PICK f : f = [frame EXCEPT !.op_stack = drop(opst, Popped)]
  OBVIOUS
<1>8. /\ callers' = Append(callers, f) /\ frame' = Activation(c, name, locals, ins.op)
      /\ UNCHANGED <<prog, status, stage, booted>> /\ (status = "run")'
  BY <1>2, <1>4, <1>7 DEF Call
<1>9. PICK params : params = Java!Parameters(m)
  OBVIOUS
<1>10. JavaFrame(frame)' = Java!Frame(c, name, 0, <<>>, params)
  <2>1. \A i \in 0 .. m.max_locals - 1 : m.code[0].loc[i + 1] # "-" =>
          params[i] = Seen(locals[i], m.code[0].loc[i + 1])
    <3>1. ASSUME NEW i \in 0 .. m.max_locals - 1, m.code[0].loc[i + 1] # "-"
          PROVE  ParameterSeen(first, fill, m, i)
      <4>1. first = (IF ins.op = "invokestatic" THEN 0 ELSE 1)
        BY <1>1 DEF Resolved, Fetch
      <4>2. i \in Java!Usable(m, 0)
        BY <3>1 DEF Java!Usable
      <4> QED BY <1>1, <1>2, <1>5, <4>1, <4>2, ParametersSeen
    <3> QED BY <1>4, <1>9, <3>1 DEF ParameterSeen
  <2> QED BY <1>6, <1>8, <2>1, EntryIs
<1>11. JavaFrame(f) = Java!Frame(Java!running.clazz, Java!running.meth, Java!running.pc,
                                 Java!Below(Popped), Java!running.vars)
  <2>1. PICK k \in 0 .. Len(opst) : k = Popped
    BY <1>2
  <2>2. f = [frame EXCEPT !.op_stack = drop(opst, k)]
    BY <1>7, <2>1
  <2> QED BY <1>2, <2>1, <2>2, SuspendedIs
<1>12. JavaFrames' = Java!Suspended \o <<JavaFrame(f), JavaFrame(frame)'>>
  <2>1. Suspends' = Append(Suspends, JavaFrame(f))
    BY <1>2, <1>8, Active, SuspendsMore
  <2>2. JavaFrames' = Append(Suspends', JavaFrame(frame)')
    BY <1>8, FramesNext
  <2>3. PICK s, a, b : s = Suspends /\ a = JavaFrame(f) /\ b = JavaFrame(frame)'
    OBVIOUS
  <2>4. IsSequence(s)
    <3>1. Len(callers) \in Nat
      BY <1>2, Active
    <3>2. PICK n \in Nat : n = Len(callers)
      BY <3>1
    <3>3. s = [i \in 1 .. n |-> s[i]]
      BY <2>3, <3>2 DEF Suspends
    <3> QED BY <3>3, TupleOf
  <2>5. Append(Append(s, a), b) = s \o <<a, b>>
    BY <2>4, AppendedTwice
  <2>6. Java!Suspended = s
    BY <1>2, <2>3, FramesAre
  <2> QED BY <2>1, <2>2, <2>3, <2>5, <2>6
<1>13. UNCHANGED <<prog, JavaOutcome, Begun, statics, JavaHeap>>
  <2>1. UNCHANGED <<prog, stage, booted, class_heap, statics, memory>>
    BY <1>8
  <2>2. Begun' = Begun
    BY <2>1, BegunKept
  <2>3. JavaHeap' = JavaHeap
    BY <2>1 DEF JavaHeap
  <2> QED BY <1>8, <2>1, <2>2, <2>3 DEF JavaOutcome
<1> QED BY <1>2, <1>3, <1>4, <1>6, <1>9, <1>10, <1>11, <1>12, <1>13 DEF Java!Invokes

LEMMA InvokesRefineJava ==
  ASSUME SafeInv, JavaInv, SafeInv', CommonGround, invokestatic \/ invokespecial \/ invokevirtual
  PROVE  Java!Invokes
<1>1. CASE invokestatic
  <2>1. PICK u \in Uninitialised :
          Call(ins.arg.clazz, ins.arg.name, OwnLocals(0, u), ins.op, drop(opst, Popped))
    BY <1>1 DEF invokestatic
  <2> QED BY <1>1, <2>1, InvokeRefinesJava DEF invokestatic
<1>2. CASE invokespecial
  <2>1. PICK u \in Uninitialised :
          Call(ins.arg.clazz, ins.arg.name, OwnLocals(1, u), ins.op, drop(opst, Popped))
    BY <1>2 DEF invokespecial
  <2> QED BY <1>2, <2>1, InvokeRefinesJava DEF invokespecial
<1>3. CASE invokevirtual
  BY <1>3, InvokeRefinesJava DEF invokevirtual
<1> QED BY <1>1, <1>2, <1>3

\* Calls find their method and their operands.
LEMMA InvokesSucceed ==
  ASSUME SafeInv
  PROVE  ~invoke_fails
<1> SUFFICES ASSUME invoke_fails PROVE FALSE
  OBVIOUS
<1>1. Resolved({"invokestatic", "invokespecial", "invokevirtual"})
  BY DEF invoke_fails
<1>2. /\ status = "run" /\ find_method(ins.arg.clazz, ins.arg.name)
      /\ Popped \in Nat /\ Popped <= Len(rule.stk)
  BY <1>1, Target
<1>3. ~(Len(opst) < Popped)
  <2>1. PICK n \in Nat : n = Popped
    BY <1>2
  <2>2. Len(opst) = Len(rule.stk) /\ Len(opst) \in Nat
    BY <1>2, JavaOperands
  <2> QED BY <1>2, <2>1, <2>2
<1>4. ins.op = "invokespecial" => ~callee.native
  <2>1. InvokeRule(method, frame.pc, ins.op, ins.arg, prog.classes) /\ ins = rule
    BY <1>2, Current DEF InstructionRule, rule
  <2> QED BY <2>1 DEF InvokeRule, callee, Method, Class
<1>5. Room
  BY <1>1, ArgumentsHaveRoom
<1> QED BY <1>1, <1>2, <1>3, <1>4, <1>5 DEF invoke_fails

\* A native method and its operands, as Java has them.
LEMMA NativeIs ==
  ASSUME SafeInv, JavaInv, CommonGround, NativeCall
  PROVE  /\ status = "run" /\ ins.op \in {"invokestatic", "invokevirtual"}
         /\ Java!named = callee /\ callee.native = TRUE /\ Java!Callable /\ Java!Throws
         /\ Java!Consumed = Popped /\ Popped \in 0 .. Len(opst) /\ Popped \in 0 .. Len(rule.stk)
         /\ Java!Below(Popped) = Values(drop(opst, Popped)) /\ drop(opst, Popped) \in Seq(Entry)
         /\ Java!Size = 3
         /\ ins.op = "invokestatic" => callee.ret # "C"
<1>1. PICK op \in {"invokestatic", "invokevirtual"} : Invoke(op, TRUE)
  BY DEF NativeCall
<1>2. Resolved({op}) /\ callee.native = TRUE
  BY <1>1 DEF Invoke
<1>3. /\ Resolved({"invokestatic", "invokespecial", "invokevirtual"})
      /\ status = "run" /\ ins.op = op /\ Java!ins = ins
      /\ Java!named = callee /\ Java!Consumed = Popped
      /\ Popped \in 0 .. Len(opst) /\ Popped \in 0 .. Len(rule.stk)
      /\ Java!Callable
  BY <1>2, CalleeIs
<1>4. Java!Throws
  BY <1>2, <1>3 DEF Java!Throws
<1>5. Java!Below(Popped) = Values(drop(opst, Popped)) /\ drop(opst, Popped) \in Seq(Entry)
  <2>1. PICK k \in 0 .. Len(opst) : k = Popped
    BY <1>3
  <2> QED BY <1>3, <2>1, JavaOperands
<1>6. Java!Size = 3
  BY <1>3 DEF Java!Size
<1>7. ins.op = "invokestatic" => callee.ret # "C"
  BY <1>2, <1>3 DEF CommonGround, CallsAgree
<1> QED BY <1>2, <1>3, <1>4, <1>5, <1>6, <1>7

LEMMA NativeVoidRefines ==
  ASSUME SafeInv, JavaInv, SafeInv', CommonGround, native_void
  PROVE  Java!InvokesNative
<1>1. NativeCall /\ callee.ret = "V" /\ Advance(drop(opst, Popped), 3)
  BY DEF native_void
<1>2. Pops(method, frame.pc, frame.pc + 3, Popped) /\ status = "run"
  BY <1>1, NativeTarget
<1>3. PICK rest : rest = drop(opst, Popped)
  OBVIOUS
<1>4. Java!Yield(Values(rest)) /\ UNCHANGED <<statics, JavaHeap>>
  BY <1>1, <1>2, <1>3, NativeIs, AdvanceIs
<1> QED BY <1>1, <1>3, <1>4, NativeIs DEF Java!InvokesNative

LEMMA NativeValueRefines ==
  ASSUME SafeInv, JavaInv, SafeInv', CommonGround, native_value
  PROVE  Java!InvokesNative
<1>1. NativeCall /\ callee.ret \in {"J", "I", "C"}
  BY DEF native_value
<1>2. /\ status = "run" /\ Implementation \in PtrNatives
      /\ Pushes(method, frame.pc, 3, Popped, TypeOf(callee.ret))
  BY <1>1, NativeTarget
<1>3. PICK rest : rest = drop(opst, Popped)
  OBVIOUS
<1>4. PICK r \in NativeResults :
        Advance(IF callee.ret = "J" THEN push_long(rest, r) ELSE push_int(rest, r), 3)
  <2>1. PICK r \in NativeResults :
          Advance(CASE callee.ret = "J" -> push_long(rest, r)
                    [] callee.ret = "C" /\ ins.op = "invokestatic" -> push_byte(rest, r)
                    [] OTHER -> push_int(rest, r), 3)
    BY <1>2, <1>3 DEF native_value
  <2>2. ~(callee.ret = "C" /\ ins.op = "invokestatic")
    BY <1>1, NativeIs
  <2> QED BY <2>1, <2>2
<1>5. PICK stack, v :
        /\ stack = (IF callee.ret = "J" THEN push_long(rest, r) ELSE push_int(rest, r))
        /\ v = Java!Wrapped(r, IF callee.ret = "J" THEN LongHalf ELSE IntHalf)
  OBVIOUS
<1>6. Values(stack) = Append(Values(rest), v)
  <2>1. r \in Int /\ rest \in Seq(Entry)
    BY <1>1, <1>3, NativeIs, WorldAssumption
  <2> QED BY <1>5, <2>1, PushedValues DEF Java!Wrapped, Signed
<1>7. Java!Yield(Append(Java!Below(Popped), v)) /\ UNCHANGED <<statics, JavaHeap>>
  <2>1. PICK k \in 0 .. Len(rule.stk) : k = Popped
    BY <1>1, NativeIs
  <2>2. Values(stack) = Append(Values(drop(opst, k)), v) /\ Pushes(method, frame.pc, 3, k, TypeOf(callee.ret))
    BY <1>2, <1>3, <1>6, <2>1
  <2>3. Advance(stack, 3) /\ Java!Size = 3
    BY <1>1, <1>4, <1>5, NativeIs
  <2>4. Java!Yield(Append(Java!Below(k), v)) /\ UNCHANGED <<statics, JavaHeap>>
    BY <1>2, <2>2, <2>3, ResultIs
  <2> QED BY <2>1, <2>4
<1> QED BY <1>1, <1>5, <1>7, NativeIs DEF Java!InvokesNative

LEMMA NativeStringRefines ==
  ASSUME SafeInv, JavaInv, SafeInv', CommonGround, native_string
  PROVE  Java!InvokesNative \/ Java!Uncaught
<1>1. NativeCall /\ callee.ret \notin {"V", "J", "I", "C"}
  BY DEF native_string
<1>2. /\ status = "run" /\ Implementation \in PtrNatives
      /\ callee.ret = "String" /\ ins.op = "invokevirtual"
      /\ Pushes(method, frame.pc, 3, Popped, TypeOf(callee.ret))
  BY <1>1, NativeTarget
<1>3. CASE Crash("input_error") \/ Crash("undefined")
  BY <1>1, <1>2, <1>3, NativeIs, CrashIs DEF Terminal
<1>4. CASE ~(Crash("input_error") \/ Crash("undefined"))
  <2>1. PICK rest : rest = drop(opst, Popped)
    OBVIOUS
  <2>2. PICK block : block = new_string(frame.clazz)
    OBVIOUS
  <2>3. /\ Allocate(<<block>>) /\ UNCHANGED <<class_heap, class_names, statics>>
        /\ Goto(push_ref(rest, Len(memory) + 1), frame.pc + 3)
    BY <1>2, <1>4, <2>1, <2>2 DEF native_string
  <2>4. PICK k \in 0 .. Len(rule.stk) : k = Popped
    BY <1>1, NativeIs
  <2>5. Pushes(method, frame.pc, 3, k, "A") /\ rest = drop(opst, k) /\ Java!Size = 3
    BY <1>1, <1>2, <2>1, <2>4, NativeIs DEF TypeOf
  <2>6. Java!Creates(Java!Below(k), <<JavaObject(block)>>)
    BY <1>2, <2>3, <2>5, CreatesOne
  <2> QED BY <1>1, <1>2, <2>2, <2>4, <2>6, NativeIs, StringIs DEF Java!InvokesNative
<1> QED BY <1>3, <1>4

\* What a native method does not find is the exception it throws.
LEMMA NativeAccessRefines ==
  ASSUME SafeInv, JavaInv, CommonGround, native_access_fails
  PROVE  Java!Uncaught
<1>1. NativeCall
  BY DEF native_access_fails
<1>2. PICK i \in StringLocals(Implementation) : WildAccess(NativeLocal(i))
  BY DEF native_access_fails
<1>3. PICK p : p = NativeLocal(i)
  OBVIOUS
<1> QED BY <1>1, <1>2, <1>3, NativeIs, WildIs

LEMMA NumbersBounded ==
  ASSUME NEW n \in Nat, NEW S, S \subseteq 1 .. n
  PROVE  Cardinality(S) \in Nat /\ Cardinality(S) <= n
<1>1. IsFiniteSet(1 .. n) /\ Cardinality(1 .. n) = n
  BY FS_Interval
<1> QED BY <1>1, FS_Subset, FS_CardinalityType

\* A concatenation creates its result and what becomes of the numbers.
LEMMA ConcatenationRefines ==
  ASSUME SafeInv, OwnedInv, SafeInv', CommonGround, invokedynamic
  PROVE  Java!Concatenates
<1>1. /\ status = "run" /\ ins.op = "invokedynamic"
      /\ FieldRule(method, frame.pc, ins.op, ins.arg, prog.classes)
  BY Rules DEF invokedynamic, Fetch
<1>2. PICK n : n = ins.arg.params
  OBVIOUS
<1>3. /\ n \in 0 .. Len(rule.stk) /\ ins.arg.constants = 1
      /\ Pushes(method, frame.pc, 5, n, "A")
  BY <1>1, <1>2 DEF FieldRule, rule
<1>4. /\ Len(rule.stk) \in Nat /\ n \in Nat /\ n <= Len(rule.stk)
      /\ opst \in Seq(Entry) /\ Len(opst) = Len(rule.stk)
  BY <1>1, <1>3, JavaOperands
<1>5. /\ \A k \in 0 .. n - 1 : peek(opst, k).type = "REF" => Points(peek(opst, k).value, "string")
      /\ Len(object_heap) + n < MaxObjects
  BY <1>1, <1>2 DEF CommonGround, ObjectsAgree
<1>6. PICK operands : operands = SubSeq(opst, Len(opst) - n + 1, Len(opst))
  OBVIOUS
<1>7. \A i \in 1 .. n : operands[i] = peek(opst, n - i)
  <2>1. PICK len \in Nat : len = Len(opst)
    BY <1>4
  <2>2. ASSUME NEW i \in 1 .. n
        PROVE  operands[i] = opst[len - n + i]
    <3>1. /\ len - n + 1 \in 1 .. len + 1 /\ i \in 1 .. len - (len - n + 1) + 1
          /\ (len - n + 1) + i - 1 = len - n + i
      BY <1>4, <2>1
    <3> QED BY <1>4, <1>6, <2>1, <3>1
  <2>3. \A i \in 1 .. n : peek(opst, n - i) = opst[len - (n - i)]
    BY <2>1 DEF peek
  <2>4. \A i \in 1 .. n : len - (n - i) = len - n + i
    BY <1>4, <2>1
  <2> QED BY <2>2, <2>3, <2>4
<1>8. PICK numbers : numbers = {i \in 1 .. n : operands[i].type # "REF"}
  OBVIOUS
<1>9. PICK made : made = Cardinality(numbers) + 1
  OBVIOUS
<1>10. made \in 1 .. n + 1
  <2>1. Cardinality(numbers) \in Nat /\ Cardinality(numbers) <= n
    BY <1>4, <1>8, NumbersBounded
  <2> QED BY <1>4, <1>9, <2>1
<1>11. {i \in 1 .. n \ numbers : ~Points(operands[i].value, "string")} = {}
  <2>1. ASSUME NEW i \in 1 .. n, i \notin numbers
        PROVE  Points(operands[i].value, "string")
    <3>1. PICK k \in 0 .. n - 1 : k = n - i
      BY <1>4
    <3> QED BY <1>5, <1>7, <1>8, <2>1, <3>1
  <2> QED BY <2>1
<1>12. ~(Len(object_heap) + made > MaxObjects)
  <2>1. Len(object_heap) \in Nat /\ MaxObjects \in Nat
    BY BoundsAssumption, SequenceOfSet DEF OwnedInv, IsSequence
  <2>2. PICK len \in Nat : len = Len(object_heap)
    BY <2>1
  <2> QED BY <1>4, <1>5, <1>10, <2>1, <2>2
<1>13. /\ memory' = memory \o [i \in 1 .. made |-> new_string(frame.clazz)]
       /\ Goto(push_ref(drop(opst, n), Len(memory) + made), frame.pc + 5)
       /\ UNCHANGED <<class_heap, class_names, statics>>
  BY <1>2, <1>3, <1>6, <1>8, <1>9, <1>11, <1>12 DEF invokedynamic
<1>14. PICK blocks : blocks = [i \in 1 .. made |-> new_string(frame.clazz)]
  OBVIOUS
<1>15. IsSequence(blocks) /\ Len(blocks) = made
  <2>1. blocks = [i \in 1 .. made |-> blocks[i]] /\ made \in Nat
    BY <1>4, <1>10, <1>14
  <2> QED BY <2>1, TupleOf
<1>16. PICK objects : objects = [i \in 1 .. Len(blocks) |-> JavaObject(blocks[i])]
  OBVIOUS
<1>17. objects = [i \in 1 .. made |-> Java!String]
  BY <1>14, <1>15, <1>16, StringIs
<1>18. Java!Creates(Java!Below(n), objects)
  <2>1. PICK p : p = Len(memory) + made
    OBVIOUS
  <2>2. Java!Size = 5
    BY <1>1, JavaHere DEF Java!Size
  <2>3. /\ memory' = memory \o blocks /\ Goto(push_ref(drop(opst, n), p), frame.pc + 5)
        /\ p = Len(memory) + Len(blocks) /\ UNCHANGED <<class_heap, class_names, statics>>
    BY <1>13, <1>14, <1>15, <2>1
  <2> QED BY <1>1, <1>3, <1>15, <1>16, <2>2, <2>3, CreatesIs
<1>19. Java!ins = ins /\ Java!Is({"invokedynamic"})
  BY <1>1, JavaHere
<1> QED BY <1>2, <1>10, <1>17, <1>18, <1>19 DEF Java!Concatenates

-----------------------------------------------------------------------------
\* Every step is one of Java's, or none.
LEMMA MainRefinesJava ==
  ASSUME SafeInv, JavaInv, SafeInv', CommonGround, main
  PROVE  Java!Next \/ UNCHANGED Java!vars
<1>1. CASE native_clinit
  BY <1>1, NativeClinitRefinesJava DEF Java!Next, Java!OnClasses
<1>2. CASE add_main_class
  BY <1>2, AddMainClassRefinesJava DEF Java!Next, Java!OnClasses
<1>3. CASE call_main
  BY <1>3, CallMainRefinesJava DEF Java!Next
<1>4. CASE shutdown
  BY <1>4, ShutdownRefinesJava DEF Java!Next
<1> QED BY <1>1, <1>2, <1>3, <1>4 DEF main

LEMMA PlainRefinesJava ==
  ASSUME SafeInv, SafeInv', CommonGround, pushes \/ stores \/ operators \/ branches
  PROVE  Java!Next
<1>1. CASE pushes
  <2>1. CASE iconst \/ bipush \/ sipush \/ ldc2_w
    BY <2>1, ConstantsRefine DEF Java!Next, Java!Simple
  <2>2. CASE ldc
    BY <2>2, LdcRefines DEF Java!Next, Java!Simple, Java!OnObjects
  <2>3. CASE iload \/ lload \/ aload
    BY <2>3, LoadsRefine DEF Java!Next, Java!Simple
  <2>4. CASE dup \/ dup2
    BY <2>4, DuplicatesRefine DEF Java!Next, Java!Simple
  <2> QED BY <1>1, <2>1, <2>2, <2>3, <2>4 DEF pushes
<1>2. CASE stores
  <2>1. CASE istore \/ lstore \/ astore
    BY <2>1, StoresRefine DEF Java!Next, Java!Simple
  <2>2. CASE iinc
    BY <2>2, IincRefines DEF Java!Next, Java!Simple
  <2> QED BY <1>2, <2>1, <2>2 DEF stores
<1>3. CASE operators
  <2>1. CASE i2l \/ i2c \/ ineg
    BY <2>1, ConversionsRefine DEF Java!Next, Java!Simple
  <2>2. CASE int_arithmetic
    BY <2>2, IntArithmeticRefines DEF Java!Next, Java!Simple
  <2>3. CASE long_arithmetic
    BY <2>3, LongArithmeticRefines DEF Java!Next, Java!Simple
  <2>4. CASE lcmp
    BY <2>4, LcmpRefines DEF Java!Next, Java!Simple
  <2> QED BY <1>3, <2>1, <2>2, <2>3, <2>4 DEF operators
<1>4. CASE branches
  <2>1. CASE if_cond \/ if_icmp \/ ifnull \/ goto
    BY <2>1, BranchesRefine DEF Java!Next, Java!Simple
  <2>2. CASE tableswitch
    BY <2>2, TableswitchRefines DEF Java!Next, Java!Simple
  <2> QED BY <1>4, <2>1, <2>2 DEF branches
<1> QED BY <1>1, <1>2, <1>3, <1>4

LEMMA DataRefinesJava ==
  ASSUME FieldsAgree, SafeInv, JavaInv, SafeInv', CommonGround, arrays \/ fields \/ load_class \/ new
  PROVE  Java!Next
<1>1. CASE arrays
  <2>1. CASE newarray
    BY <2>1, NewarrayRefines DEF Java!Next, Java!OnObjects
  <2>2. CASE multianewarray
    BY <2>2, MultianewarrayRefines DEF Java!Next, Java!OnObjects
  <2>3. CASE iaload \/ aaload
    BY <2>3, ElementReadRefines DEF Java!Next, Java!OnObjects
  <2>4. CASE iastore
    BY <2>4, ElementWrittenRefines DEF Java!Next, Java!OnObjects
  <2> QED BY <1>1, <2>1, <2>2, <2>3, <2>4 DEF arrays
<1>2. CASE fields
  <2>1. ~static_lookup_fails
    BY StaticLookupFinds
  <2>2. CASE getstatic
    BY <2>2, StaticReadRefines DEF Java!Next, Java!OnClasses
  <2>3. CASE putstatic
    BY <2>3, StaticWrittenRefines DEF Java!Next, Java!OnClasses
  <2>4. CASE field_lookup_fails
    BY <2>4, FieldLookupRefines DEF Java!Next
  <2>5. CASE getfield
    BY <2>5, FieldReadRefines DEF Java!Next, Java!OnObjects
  <2>6. CASE putfield
    BY <2>6, FieldWrittenRefines DEF Java!Next, Java!OnObjects
  <2> QED BY <1>2, <2>1, <2>2, <2>3, <2>4, <2>5, <2>6 DEF fields
<1>3. CASE load_class
  BY <1>3, LoadingRefines DEF Java!Next, Java!OnClasses
<1>4. CASE new
  BY <1>4, InstantiatesRefines DEF Java!Next, Java!OnObjects
<1> QED BY <1>1, <1>2, <1>3, <1>4

LEMMA CallsRefineJava ==
  ASSUME SafeInv, JavaInv, OwnedInv, SafeInv', CommonGround, invokes \/ returns
  PROVE  Java!Next
<1>1. CASE invokes
  <2>1. ~invoke_fails
    BY InvokesSucceed
  <2>2. CASE invokestatic \/ invokespecial \/ invokevirtual
    BY <2>2, InvokesRefineJava DEF Java!Next
  <2>3. CASE native_access_fails
    BY <2>3, NativeAccessRefines DEF Java!Next
  <2>4. CASE native_void
    BY <2>4, NativeVoidRefines DEF Java!Next
  <2>5. CASE native_value
    BY <2>5, NativeValueRefines DEF Java!Next
  <2>6. CASE native_string
    BY <2>6, NativeStringRefines DEF Java!Next
  <2>7. CASE invokedynamic
    BY <2>7, ConcatenationRefines DEF Java!Next, Java!OnObjects
  <2> QED BY <1>1, <2>1, <2>2, <2>3, <2>4, <2>5, <2>6, <2>7 DEF invokes
<1>2. CASE returns
  BY <1>2, ReturnsRefineJava DEF Java!Next
<1> QED BY <1>1, <1>2

\* A step that changes nothing here changes nothing in Java.
LEMMA NothingChanges ==
  ASSUME UNCHANGED vars
  PROVE  UNCHANGED Java!vars
<1>1. UNCHANGED <<prog, status, stage, booted, frame, callers, class_heap, statics, memory>>
  BY DEF vars
<1>2. Begun' = Begun
  BY <1>1, BegunKept
<1>3. JavaFrames' = JavaFrames
  BY <1>1 DEF JavaFrames, JavaFrame, Called, TypesAt, Method, Class
<1> QED BY <1>1, <1>2, <1>3 DEF Java!vars, JavaOutcome, JavaHeap

LEMMA NextRefinesJava ==
  ASSUME FieldsAgree, SafeInv, JavaInv, OwnedInv, SafeInv', CommonGround, [Next]_vars
  PROVE  Java!Next \/ UNCHANGED Java!vars
<1>1. CASE main
  BY <1>1, MainRefinesJava
<1>2. CASE pushes \/ stores \/ operators \/ branches
  BY <1>2, PlainRefinesJava
<1>3. CASE arrays \/ fields \/ load_class \/ new
  BY <1>3, DataRefinesJava
<1>4. CASE invokes \/ returns
  BY <1>4, CallsRefineJava
<1>5. CASE no_case \/ ended \/ UNCHANGED vars
  BY <1>5, NothingChanges DEF no_case, ended
<1>6. ~no_return
  BY Current DEF no_return
<1> QED BY <1>1, <1>2, <1>3, <1>4, <1>5, <1>6 DEF Next, execute

\* ImplementsJava of JavaRefinement: every step of execute() and main() is one
\* a Java virtual machine may take, as long as what comes next is none of the
\* departures CommonGround lists.
THEOREM ImplementsJavaHolds ==
  ASSUME FieldsAgree
  PROVE  Spec /\ []CommonGround => ImplementsJava
<1>1. Init => JavaInv /\ OwnedInv /\ Java!Init
  BY JavaInit, InitOwned
<1>2. SafeInv /\ JavaInv /\ CommonGround /\ [Next]_vars => JavaInv'
  BY NextJavaInv
<1>3. SafeInv /\ OwnedInv /\ [Next]_vars => OwnedInv'
  BY NextOwned
<1>4. SafeInv /\ SafeInv' /\ JavaInv /\ OwnedInv /\ CommonGround /\ [Next]_vars
        => [Java!Next]_(Java!vars)
  BY NextRefinesJava
<1> QED BY <1>1, <1>2, <1>3, <1>4, SafeInvariant, PTL DEF Spec, ImplementsJava, Java!Spec
=============================================================================

------------------------- MODULE ClassLoadingProofs -------------------------
(***************************************************************************)
(* Proofs of the invariants of ClassLoading, for all programs and bounds.  *)
(* Every step of the interpreter is first put into one of nine kinds by    *)
(* what it does to the activations (StepKinds); ClassInv, in which the     *)
(* three invariants support each other, is then shown to be preserved by   *)
(* each kind.                                                              *)
(***************************************************************************)
EXTENDS ClassLoading, FiniteSetTheorems, TLAPS

-----------------------------------------------------------------------------
\* s is a sequence, of whatever elements.
Elements(s) == {s[i] : i \in 1 .. Len(s)}
IsSequence(s) == s \in Seq(Elements(s))

\* A sequence over any set is one over the set of its elements.
LEMMA SequenceOfSet ==
  ASSUME NEW S, NEW s \in Seq(S)
  PROVE  /\ IsSequence(s)
         /\ Len(s) \in Nat
         /\ \A i \in 1 .. Len(s) : s[i] \in S
<1> DEFINE n == Len(s)
           f == [i \in 1 .. n |-> s[i]]
<1>1. n \in Nat /\ s = f
  OBVIOUS
<1>2. \A i \in 1 .. n : s[i] \in Elements(s)
  BY DEF Elements
<1>3. s \in Seq(Elements(s))
  BY <1>1, <1>2
<1> QED BY <1>1, <1>3 DEF IsSequence

\* Append keeps what was there and adds one element.
LEMMA AppendElements ==
  ASSUME NEW s, IsSequence(s), NEW x
  PROVE  /\ IsSequence(Append(s, x))
         /\ Len(s) \in Nat
         /\ Len(Append(s, x)) = Len(s) + 1
         /\ \A i \in 1 .. Len(s) : Append(s, x)[i] = s[i]
         /\ Append(s, x)[Len(s) + 1] = x
<1> DEFINE T == Elements(s) \cup {x}
<1>1. s \in Seq(T) /\ x \in T
  BY DEF IsSequence
<1> HIDE DEF T
<1>2. Append(s, x) \in Seq(T)
  BY <1>1
<1>3. IsSequence(Append(s, x))
  BY <1>2, SequenceOfSet
<1>4. /\ Len(s) \in Nat
      /\ Len(Append(s, x)) = Len(s) + 1
      /\ \A i \in 1 .. Len(s) : Append(s, x)[i] = s[i]
      /\ Append(s, x)[Len(s) + 1] = x
  BY <1>1
<1> QED BY <1>3, <1>4

\* drop takes off the top n elements and keeps the others.
LEMMA DropElements ==
  ASSUME NEW s, IsSequence(s), NEW n \in 0 .. Len(s)
  PROVE  /\ IsSequence(drop(s, n))
         /\ Len(s) \in Nat
         /\ Len(drop(s, n)) = Len(s) - n
         /\ \A i \in 1 .. Len(s) - n : drop(s, n)[i] = s[i]
<1> DEFINE T == Elements(s)
<1>1. s \in Seq(T)
  BY DEF IsSequence
<1> HIDE DEF T
<1>2. drop(s, n) \in Seq(T)
  BY <1>1 DEF drop
<1>3. IsSequence(drop(s, n))
  BY <1>2, SequenceOfSet
<1>4. /\ Len(s) \in Nat
      /\ Len(drop(s, n)) = Len(s) - n
      /\ \A i \in 1 .. Len(s) - n : drop(s, n)[i] = s[i]
  BY <1>1 DEF drop
<1> QED BY <1>3, <1>4

\* A value converted to a C integer type fits the type.
LEMMA SignedInRange ==
  ASSUME NEW half \in Nat \ {0}, NEW v \in Int
  PROVE  Signed(v, half) \in SignedRange(half)
<1>1. (v + half) % (2 * half) \in 0 .. (2 * half - 1)
  OBVIOUS
<1> QED BY <1>1 DEF Signed, SignedRange

-----------------------------------------------------------------------------
IsActivation(f) ==
    f = [clazz |-> f.clazz, meth |-> f.meth, pc |-> f.pc,
         op_stack |-> f.op_stack, locals |-> f.locals, via |-> f.via]

\* g is the same activation as f.
Same(g, f) ==
    IsActivation(g) /\ g.clazz = f.clazz /\ g.meth = f.meth /\ g.via = f.via

control == <<prog, stage, booted, callers, class_heap, class_names>>

Halts == UNCHANGED <<control, frame>> /\ (status' = status \/ status' \in Terminal)

Continues == status = "run" /\ Same(frame', frame) /\ UNCHANGED <<control, status>>

USE DEF heaps, control

\* The end of the process leaves the activations as they are.
LEMMA CrashHalts ==
  ASSUME NEW how \in Terminal, Crash(how)
  PROVE  Halts
BY DEF Crash, Halts

\* A handler that sets pc and the operand stack stays in its activation.
LEMMA GotoContinues ==
  ASSUME IsActivation(frame), status = "run", UNCHANGED <<class_heap, class_names>>,
         NEW stack, NEW pc, Goto(stack, pc)
  PROVE  Continues
BY DEF Goto, Continues, Same, IsActivation

\* A handler that assigns a local variable stays in its activation.
LEMMA StoreContinues ==
  ASSUME IsActivation(frame), status = "run", NEW stack, NEW i, NEW local, NEW len, Store(i, local, stack, len)
  PROVE  Continues
BY DEF Store, Continues, Same, IsActivation

\* Constants, loads and dups stay in their activation, or end the process.
LEMMA PushesContinue ==
  ASSUME status = "run" => IsActivation(frame), pushes
  PROVE  Halts \/ Continues
<1>1. CASE iconst
  BY <1>1, GotoContinues DEF iconst, Fetch, Advance
<1>2. CASE bipush
  BY <1>2, GotoContinues DEF bipush, Fetch, Advance
<1>3. CASE sipush
  BY <1>3, GotoContinues DEF sipush, Fetch, Advance
<1>4. CASE ldc
  BY <1>4, GotoContinues, CrashHalts DEF ldc, Fetch, Advance, Terminal
<1>5. CASE ldc2_w
  BY <1>5, GotoContinues DEF ldc2_w, Fetch, Advance
<1>6. CASE iload
  BY <1>6, GotoContinues DEF iload, Fetch, Advance
<1>7. CASE lload
  BY <1>7, GotoContinues DEF lload, Fetch, Advance
<1>8. CASE aload
  BY <1>8, GotoContinues DEF aload, Fetch, Advance
<1>9. CASE dup
  BY <1>9, GotoContinues DEF dup, Fetch, Advance
<1>10. CASE dup2
  BY <1>10, GotoContinues DEF dup2, Fetch, Advance
<1> QED BY <1>1, <1>2, <1>3, <1>4, <1>5, <1>6, <1>7, <1>8, <1>9, <1>10 DEF pushes

\* Stores stay in their activation.
LEMMA StoresContinue ==
  ASSUME status = "run" => IsActivation(frame), stores
  PROVE  Halts \/ Continues
<1>1. CASE istore
  BY <1>1, StoreContinues DEF istore, Fetch
<1>2. CASE lstore
  BY <1>2, StoreContinues DEF lstore, Fetch
<1>3. CASE astore
  BY <1>3, StoreContinues DEF astore, Fetch
<1>4. CASE iinc
  BY <1>4, StoreContinues DEF iinc, Fetch
<1> QED BY <1>1, <1>2, <1>3, <1>4 DEF stores

\* Arithmetic stays in its activation, or traps.
LEMMA OperatorsContinue ==
  ASSUME status = "run" => IsActivation(frame), operators
  PROVE  Halts \/ Continues
<1>1. CASE i2l
  BY <1>1, GotoContinues DEF i2l, Fetch, Advance
<1>2. CASE i2c
  BY <1>2, GotoContinues DEF i2c, Fetch, Advance
<1>3. CASE ineg
  BY <1>3, GotoContinues DEF ineg, Fetch, Advance
<1>4. CASE int_arithmetic
  BY <1>4, GotoContinues, CrashHalts DEF int_arithmetic, Fetch, Advance, Terminal
<1>5. CASE long_arithmetic
  BY <1>5, GotoContinues, CrashHalts DEF long_arithmetic, Fetch, Advance, Terminal
<1>6. CASE lcmp
  BY <1>6, GotoContinues DEF lcmp, Fetch, Advance
<1> QED BY <1>1, <1>2, <1>3, <1>4, <1>5, <1>6 DEF operators

\* Branches stay in their activation, or leave the code and crash.
LEMMA BranchesContinue ==
  ASSUME status = "run" => IsActivation(frame), branches
  PROVE  Halts \/ Continues
<1>1. CASE if_cond
  BY <1>1, GotoContinues DEF if_cond, Fetch, Advance, Branch
<1>2. CASE if_icmp
  BY <1>2, GotoContinues DEF if_icmp, Fetch, Advance, Branch
<1>3. CASE ifnull
  BY <1>3, GotoContinues DEF ifnull, Fetch, Advance, Branch
<1>4. CASE goto
  BY <1>4, GotoContinues DEF goto, Fetch, Advance, Branch
<1>5. CASE tableswitch
  BY <1>5, GotoContinues, CrashHalts DEF tableswitch, Fetch, Advance, Terminal
<1> QED BY <1>1, <1>2, <1>3, <1>4, <1>5 DEF branches

\* The array instructions stay in their activation, or end the process.
LEMMA ArraysContinue ==
  ASSUME status = "run" => IsActivation(frame), arrays
  PROVE  Halts \/ Continues
<1>1. CASE newarray
  BY <1>1, GotoContinues, CrashHalts DEF newarray, Fetch, Advance, Terminal
<1>2. CASE multianewarray
  BY <1>2, GotoContinues, CrashHalts DEF multianewarray, Fetch, Advance, Terminal
<1>3. CASE iaload
  BY <1>3, GotoContinues, CrashHalts DEF iaload, Fetch, Advance, WildAccess, Terminal
<1>4. CASE iastore
  BY <1>4, GotoContinues, CrashHalts DEF iastore, Fetch, Advance, WildAccess, Terminal
<1>5. CASE aaload
  BY <1>5, GotoContinues, CrashHalts DEF aaload, Fetch, Advance, WildAccess, Terminal
<1> QED BY <1>1, <1>2, <1>3, <1>4, <1>5 DEF arrays

\* Field accesses stay in their activation, loop for ever or end the process.
LEMMA FieldsContinue ==
  ASSUME status = "run" => IsActivation(frame), fields
  PROVE  Halts \/ Continues
<1>1. CASE static_lookup_fails
  BY <1>1, CrashHalts DEF static_lookup_fails, Fetch, Halts, vars, Terminal, Resolved
<1>2. CASE getstatic
  BY <1>2, GotoContinues DEF getstatic, Fetch, Advance, FieldAccess, Resolved
<1>3. CASE putstatic
  BY <1>3, GotoContinues DEF putstatic, Fetch, Advance, FieldAccess, Resolved
<1>4. CASE field_lookup_fails
  BY <1>4, CrashHalts DEF field_lookup_fails, Fetch, Halts, vars, Terminal, WildAccess
<1>5. CASE getfield
  BY <1>5, GotoContinues DEF getfield, Fetch, Advance, Addressed
<1>6. CASE putfield
  BY <1>6, GotoContinues DEF putfield, Fetch, Advance, Addressed
<1> QED BY <1>1, <1>2, <1>3, <1>4, <1>5, <1>6 DEF fields

-----------------------------------------------------------------------------
\* An activation g of c.name, called by via from the frame that stays behind.
Enters(c, name, via) ==
    /\ status = "run"
    /\ IsActivation(frame')
    /\ frame'.clazz = c /\ frame'.meth = name /\ frame'.via = via /\ frame'.pc = 0
    /\ \E f : /\ Same(f, frame) /\ f.pc = frame.pc
              /\ callers' = Append(callers, f)
    /\ UNCHANGED <<prog, status, stage, booted>>

Adds(c) == /\ status = "run" /\ frame.pc \in DOMAIN code /\ ins.arg.clazz = c /\ ins.op \in Resolving
            /\ ~Loaded(c) /\ c \in DOMAIN prog.classes /\ stage # "natives"
            /\ class_heap' = Append(class_heap, c)
            /\ class_names' = Append(class_names, <<prog.prefix, c>>)
            /\ UNCHANGED <<prog, status, stage, booted>>

LoadsClass == /\ Adds(ins.arg.clazz)
              /\ \/ UNCHANGED <<frame, callers>>
                 \/ find_method(ins.arg.clazz, "<clinit>") /\ Enters(ins.arg.clazz, "<clinit>", "clinit")

Invokes == /\ frame.pc \in DOMAIN code /\ ins.op \in {"invokestatic", "invokespecial", "invokevirtual"}
           /\ Loaded(ins.arg.clazz) /\ find_method(ins.arg.clazz, ins.arg.name)
           /\ UNCHANGED <<class_heap, class_names>>
           /\ Enters(ins.arg.clazz, ins.arg.name, ins.op)

Resumes == /\ status = "run" /\ callers # <<>>
           /\ Same(frame', caller) /\ callers' = drop(callers, 1)
           /\ UNCHANGED <<prog, status, stage, booted, class_heap, class_names>>

\* A nested execute() starts a new activation at pc 0.
LEMMA CallEnters ==
  ASSUME IsActivation(frame), status = "run", NEW c, NEW name, NEW locals, NEW via, NEW stack,
         Call(c, name, locals, via, stack)
  PROVE  Enters(c, name, via)
BY DEF Call, Enters, Activation, IsActivation, Same

\* The look-up under two names finds the classes in the class heap.
LEMMA LoadedIsFound ==
  ASSUME NamesOK, IsSequence(class_heap), NEW c
  PROVE  Loaded(c) <=> Found(c)
<1>1. DOMAIN class_heap = 1 .. Len(class_heap)
  BY DEF IsSequence
<1>2. ASSUME Found(c)
      PROVE  Loaded(c)
  <2>1. PICK i \in 1 .. Len(class_heap), d \in {"", prog.prefix} : class_names[i] = <<d, c>>
    BY <1>2 DEF Found, find_class_from_heap, NamesOK
  <2>2. PICK e : class_names[i] = <<e, class_heap[i]>>
    BY DEF NamesOK
  <2>3. c = class_heap[i]
    <3>1. <<d, c>> = <<e, class_heap[i]>>
      BY <2>1, <2>2
    <3> QED BY <3>1
  <2> QED BY <1>1, <2>1, <2>3 DEF Loaded, NamesOK
<1> QED BY <1>1, <1>2 DEF Loaded, Found, find_class_from_heap, NamesOK

\* Loading a class adds it to the class heap and may run its <clinit>.
LEMMA LoadClassLoads ==
  ASSUME status = "run" => IsActivation(frame), NamesOK, IsSequence(class_heap), load_class
  PROVE  Halts \/ LoadsClass
<1> DEFINE c == ins.arg.clazz
<1>1. status = "run" /\ frame.pc \in DOMAIN code /\ ins.op \in Resolving /\ ~Loaded(c)
  BY LoadedIsFound DEF load_class, Fetch, TargetFound
<1>2. ASSUME NEW how \in Terminal, Crash(how)
      PROVE  Halts
  BY <1>2, CrashHalts
<1>3. CASE /\ stage # "natives" /\ c \in DOMAIN prog.classes
           /\ add_class(c)
           /\ IF ins.op # "invokestatic" /\ find_method(c, "<clinit>")
              THEN \E u \in Uninitialised :
                     Call(c, "<clinit>", Fill(c, "<clinit>", u), "clinit", opst)
              ELSE UNCHANGED <<prog, status, stage, booted, frame, callers>>
  <2>1. class_heap' = Append(class_heap, c) /\ class_names' = Append(class_names, <<prog.prefix, c>>)
    BY <1>3 DEF add_class
  <2>2. CASE UNCHANGED <<prog, status, stage, booted, frame, callers>>
    BY <1>1, <1>3, <2>1, <2>2 DEF LoadsClass, Adds
  <2>3. CASE find_method(c, "<clinit>") /\ Enters(c, "<clinit>", "clinit")
    BY <1>1, <1>3, <2>1, <2>3 DEF LoadsClass, Adds, Enters
  <2> QED BY <1>1, <1>3, <2>2, <2>3, CallEnters
<1> QED BY <1>2, <1>3 DEF load_class, Terminal

\* new stays in its activation.
LEMMA NewContinues ==
  ASSUME status = "run" => IsActivation(frame), new
  PROVE  Halts \/ Continues
BY CrashHalts, GotoContinues DEF new, Resolved, Fetch, Terminal

\* An invoke instruction stays in its activation or calls the method it names.
LEMMA InvokesEnter ==
  ASSUME status = "run" => IsActivation(frame), NamesOK, IsSequence(class_heap), invokes
  PROVE  Halts \/ Continues \/ Invokes
<1>1. CASE invoke_fails
  BY <1>1, CrashHalts DEF invoke_fails, Terminal
<1>2. CASE invokestatic
  BY <1>2, CallEnters, LoadedIsFound DEF invokestatic, Invoke, Resolved, TargetFound, Fetch, Invokes
<1>3. CASE invokespecial
  BY <1>3, CallEnters, LoadedIsFound DEF invokespecial, Invoke, Resolved, TargetFound, Fetch, Invokes
<1>4. CASE invokevirtual
  BY <1>4, CallEnters, LoadedIsFound DEF invokevirtual, Invoke, Resolved, TargetFound, Fetch, Invokes
<1>5. CASE native_access_fails
  BY <1>5, CrashHalts DEF native_access_fails, WildAccess, Terminal
<1> NativeCall => status = "run"
  BY DEF NativeCall, Invoke, Resolved, Fetch
<1>6. CASE native_void
  BY <1>6, GotoContinues DEF native_void, Advance
<1>7. CASE native_value
  BY <1>7, GotoContinues DEF native_value, Advance
<1>8. CASE native_string
  BY <1>8, GotoContinues, CrashHalts DEF native_string, Terminal
<1>9. CASE invokedynamic
  BY <1>9, GotoContinues, CrashHalts DEF invokedynamic, Fetch, WildAccess, Terminal
<1> QED BY <1>1, <1>2, <1>3, <1>4, <1>5, <1>6, <1>7, <1>8, <1>9 DEF invokes

\* The caller goes on where it was.
LEMMA ResumeResumes ==
  ASSUME IsActivation(caller), status = "run", callers # <<>>, NEW stack, NEW len, Resume(stack, len)
  PROVE  Resumes
BY DEF Resume, Resumes, Same, IsActivation

\* A return gives control to the caller, or to main().
LEMMA ReturnsResume ==
  ASSUME status = "run" /\ callers # <<>> => IsActivation(caller), returns
  PROVE  Halts \/ Resumes \/ return_to_main
<1>1. CASE wrong_return
  BY <1>1, CrashHalts DEF wrong_return, Terminal
<1>2. CASE return_from_clinit
  BY <1>2, ResumeResumes DEF return_from_clinit, Fetch
<1>3. CASE return_from_special
  BY <1>3, ResumeResumes DEF return_from_special, Fetch
<1>4. CASE return_value
  BY <1>4, ResumeResumes DEF return_value, Fetch
<1> QED BY <1>1, <1>2, <1>3, <1>4 DEF returns

\* Every step is of one of these kinds.
LEMMA StepKinds ==
  ASSUME status = "run" => IsActivation(frame),
         status = "run" /\ callers # <<>> => IsActivation(caller),
         NamesOK, IsSequence(class_heap), [Next]_vars
  PROVE  \/ Halts \/ Continues \/ LoadsClass \/ Invokes \/ Resumes \/ return_to_main
         \/ native_clinit \/ add_main_class \/ call_main
<1>1. CASE main
  BY <1>1, CrashHalts DEF main, shutdown, Terminal
<1>2. CASE execute
  <2>1. CASE no_case \/ no_return
    BY <2>1, CrashHalts DEF no_case, no_return, Halts, vars, Terminal
  <2>2. CASE load_class
    BY <2>2, LoadClassLoads
  <2>3. CASE new
    BY <2>3, NewContinues
  <2>4. CASE invokes
    BY <2>4, InvokesEnter
  <2>5. CASE returns
    BY <2>5, ReturnsResume
  <2> QED BY <1>2, <2>1, <2>2, <2>3, <2>4, <2>5, PushesContinue, StoresContinue, OperatorsContinue,
             BranchesContinue, ArraysContinue, FieldsContinue DEF execute
<1>3. CASE ended \/ UNCHANGED vars
  BY <1>3 DEF ended, Halts, vars
<1> QED BY <1>1, <1>2, <1>3 DEF Next
-----------------------------------------------------------------------------
\* What a step does to the activations.  The first n suspended ones and the
\* one they call are left, but for their progress.
Kept(n) ==
    /\ \A i \in 0 .. n : Same(Called(i)', Called(i))
    /\ \A i \in 1 .. n : callers'[i] = callers[i]

AllActivations == \A i \in 0 .. Len(callers) : IsActivation(Called(i))

\* A step inside the innermost activation keeps all of them.
LEMMA ContinueKeeps ==
  ASSUME IsSequence(callers), AllActivations, Continues
  PROVE  Kept(Len(callers))
<1>1. Len(callers) \in Nat
  BY DEF IsSequence
<1>2. ASSUME NEW i \in 0 .. Len(callers)
      PROVE  Same(Called(i)', Called(i))
  <2>1. CASE i = Len(callers)
    BY <2>1 DEF Continues, Called
  <2>2. CASE i # Len(callers)
    <3>1. Called(i)' = Called(i)
      BY <2>2 DEF Continues, Called
    <3> QED BY <3>1 DEF AllActivations, Same
  <2> QED BY <2>1, <2>2
<1> QED BY <1>1, <1>2 DEF Kept, Continues

\* A return keeps all activations but the innermost.
LEMMA ResumeKeeps ==
  ASSUME IsSequence(callers), AllActivations, Resumes
  PROVE  /\ IsSequence(callers')
         /\ Len(callers) \in Nat /\ Len(callers') = Len(callers) - 1
         /\ Kept(Len(callers'))
<1>1. Len(callers) \in Nat /\ Len(callers) # 0
  BY DEF IsSequence, Resumes
<1>2. /\ IsSequence(callers')
      /\ Len(callers') = Len(callers) - 1
      /\ \A i \in 1 .. Len(callers) - 1 : callers'[i] = callers[i]
  <2>1. 1 \in 0 .. Len(callers) /\ callers' = drop(callers, 1)
    BY <1>1 DEF Resumes
  <2> QED BY <2>1, DropElements
<1>3. ASSUME NEW i \in 0 .. Len(callers')
      PROVE  Same(Called(i)', Called(i))
  <2>1. CASE i = Len(callers')
    BY <1>1, <1>2, <2>1 DEF Resumes, Called, caller, peek
  <2>2. CASE i # Len(callers')
    <3>1. Called(i)' = Called(i)
      BY <1>1, <1>2, <2>2 DEF Called
    <3> QED BY <1>1, <1>2, <3>1 DEF AllActivations, Same
  <2> QED BY <2>1, <2>2
<1> QED BY <1>1, <1>2, <1>3 DEF Kept

\* A call keeps all activations and puts one more on top.
LEMMA EnterKeeps ==
  ASSUME IsSequence(callers), AllActivations,
         NEW c, NEW name, NEW via, Enters(c, name, via)
  PROVE  /\ IsSequence(callers')
         /\ Len(callers) \in Nat /\ Len(callers') = Len(callers) + 1
         /\ Kept(Len(callers))
         /\ \A i : i = Len(callers) + 1 => Called(i)' = frame'
         /\ Same(callers'[Len(callers')], frame)
         /\ callers'[Len(callers')].pc = frame.pc
<1>1. PICK f : /\ Same(f, frame) /\ f.pc = frame.pc
               /\ callers' = Append(callers, f)
  BY DEF Enters
<1>2. /\ IsSequence(callers')
      /\ Len(callers) \in Nat
      /\ Len(callers') = Len(callers) + 1
      /\ \A i \in 1 .. Len(callers) : callers'[i] = callers[i]
      /\ callers'[Len(callers) + 1] = f
  BY <1>1, AppendElements
<1>3. ASSUME NEW i \in 0 .. Len(callers)
      PROVE  Same(Called(i)', Called(i))
  <2>1. CASE i = Len(callers)
    BY <1>1, <1>2, <2>1 DEF Called
  <2>2. CASE i # Len(callers)
    <3>1. Called(i)' = Called(i)
      BY <1>2, <2>2 DEF Called
    <3> QED BY <1>2, <3>1 DEF AllActivations, Same
  <2> QED BY <2>1, <2>2
<1>4. \A i : i = Len(callers) + 1 => Called(i)' = frame'
  BY <1>2 DEF Called
<1> QED BY <1>1, <1>2, <1>3, <1>4 DEF Kept

-----------------------------------------------------------------------------
\* The inductive invariant.  Of the class heap: it holds classes of the program,
\* only native ones until main() adds its own.
HeapInv ==
    /\ \E n \in DOMAIN Programs : prog = Programs[n]
    /\ IsSequence(class_heap)
    /\ \A i \in 1 .. Len(class_heap) : class_heap[i] \in DOMAIN prog.classes
    /\ stage = "natives" => \A i \in 1 .. Len(class_heap) : class_heap[i] \in prog.natives
    /\ stage # "natives" => Loaded(prog.main)
    /\ booted \in 0 .. Len(class_heap)

\* Of the names: a class is found under one of the two it is looked for under.
NamesInv == IsSequence(class_names) /\ NamesOK

\* Of the activations: each runs a method of a loaded class; main() is in
\* control when there is none.
Known(f) ==
    /\ IsActivation(f) /\ Loaded(f.clazz) /\ find_method(f.clazz, f.meth)
    /\ f.via = "main" => f.meth \in {"<clinit>", MainMethod}

InMain == frame = Idle /\ callers = <<>>
InMethods == \A i \in 0 .. Len(callers) : Known(Called(i))

ActivationsInv ==
    /\ IsSequence(callers)
    /\ InMain \/ InMethods
    /\ status = "boot" => InMain
    /\ status = "run" => InMethods

InitializedOnce ==
    \A i, j \in 0 .. Len(callers) : \A c :
        (Initializes(Called(i), c) /\ Initializes(Called(j), c)) => i = j

ClassInv ==
    /\ HeapInv /\ NamesInv /\ LoadedOnce
    /\ ActivationsInv /\ CallersWait /\ InitializedOnce

\* The kinds of steps, in a state that satisfies the invariant.
LEMMA InvStepKinds ==
  ASSUME ActivationsInv, HeapInv, NamesInv, [Next]_vars
  PROVE  \/ Halts \/ Continues \/ LoadsClass \/ Invokes \/ Resumes \/ return_to_main
         \/ native_clinit \/ add_main_class \/ call_main
<1>1. Len(callers) \in Nat
  BY DEF ActivationsInv, IsSequence
<1>2. ASSUME status = "run"
      PROVE  IsActivation(frame) /\ AllActivations /\ (callers # <<>> => IsActivation(caller))
  <2>1. \A i \in 0 .. Len(callers) : IsActivation(Called(i))
    BY <1>2 DEF ActivationsInv, InMethods, Known
  <2>2. Called(Len(callers)) = frame
    BY DEF Called
  <2>3. callers # <<>> => Len(callers) # 0
    BY DEF ActivationsInv, IsSequence
  <2>4. callers # <<>> => Called(Len(callers) - 1) = caller
    BY <1>1, <2>3 DEF Called, caller, peek
  <2> QED BY <1>1, <2>1, <2>2, <2>3, <2>4 DEF AllActivations
<1> QED BY <1>2, StepKinds DEF HeapInv, NamesInv

-----------------------------------------------------------------------------
\* What is left of the invariant by the activations that are kept.
LEMMA KeptKnown ==
  ASSUME NEW n \in Nat, Len(callers) \in Nat, n <= Len(callers), Kept(n), InMethods, prog' = prog,
         \A c : Loaded(c) => Loaded(c)'
  PROVE  \A i \in 0 .. n : Known(Called(i))'
<1> TAKE i \in 0 .. n
<1>1. Known(Called(i)) /\ Same(Called(i)', Called(i))
  BY DEF InMethods, Kept
<1>2. PICK c : c = Called(i).clazz
  OBVIOUS
<1>3. Loaded(c)'
  BY <1>1, <1>2 DEF Known
<1> QED BY <1>1, <1>2, <1>3 DEF Known, Same, find_method, Class

\* Activations that are kept still wait for the ones they called.
LEMMA KeptWait ==
  ASSUME NEW n \in Nat, Len(callers) \in Nat, n <= Len(callers), Kept(n), CallersWait, prog' = prog
  PROVE  \A i \in 1 .. n : Calls(callers[i], Called(i))'
<1> TAKE i \in 1 .. n
<1>1. Calls(callers[i], Called(i)) /\ callers'[i] = callers[i] /\ Same(Called(i)', Called(i))
  BY DEF CallersWait, Kept
<1> QED BY <1>1 DEF Calls, Same, Method, Class

\* Activations that are kept still initialise different classes.
LEMMA KeptOnce ==
  ASSUME NEW n \in Nat, Len(callers) \in Nat, n <= Len(callers), Kept(n), InitializedOnce
  PROVE  \A i, j \in 0 .. n : \A c :
           (Initializes(Called(i), c) /\ Initializes(Called(j), c))' => i = j
<1> TAKE i, j \in 0 .. n
<1> TAKE c
<1>1. Same(Called(i)', Called(i)) /\ Same(Called(j)', Called(j))
  BY DEF Kept
<1>2. (Initializes(Called(i), c) /\ Initializes(Called(j), c)) => i = j
  BY DEF InitializedOnce
<1> QED BY <1>1, <1>2 DEF Initializes, Same

\* add_class loads one class.
LEMMA AppendLoads ==
  ASSUME IsSequence(class_heap), NEW c, class_heap' = Append(class_heap, c)
  PROVE  /\ IsSequence(class_heap')
         /\ Len(class_heap) \in Nat /\ Len(class_heap') = Len(class_heap) + 1
         /\ \A i \in 1 .. Len(class_heap) : class_heap'[i] = class_heap[i]
         /\ class_heap'[Len(class_heap) + 1] = c
         /\ \A d : Loaded(d)' <=> (Loaded(d) \/ d = c)
<1>1. /\ IsSequence(class_heap')
      /\ Len(class_heap) \in Nat /\ Len(class_heap') = Len(class_heap) + 1
      /\ \A i \in 1 .. Len(class_heap) : class_heap'[i] = class_heap[i]
      /\ class_heap'[Len(class_heap) + 1] = c
  BY AppendElements
<1>2. /\ DOMAIN class_heap = 1 .. Len(class_heap)
      /\ DOMAIN class_heap' = 1 .. Len(class_heap')
  BY <1>1 DEF IsSequence
<1> QED BY <1>1, <1>2 DEF Loaded

\* The names of the classes that are not loaded now stay.
LEMMA NamesKept ==
  ASSUME NamesInv, UNCHANGED <<prog, class_heap, class_names>>
  PROVE  NamesInv'
BY DEF NamesInv, NamesOK

\* add_class keeps a class under the name the handlers try last.
LEMMA NamesAppended ==
  ASSUME NamesInv, IsSequence(class_heap), prog' = prog, NEW c,
         class_heap' = Append(class_heap, c), class_names' = Append(class_names, <<prog.prefix, c>>)
  PROVE  NamesInv'
<1>1. PICK name : name = <<prog.prefix, c>>
  OBVIOUS
<1>2. /\ Len(class_heap) \in Nat /\ Len(class_heap') = Len(class_heap) + 1
      /\ \A i \in 1 .. Len(class_heap) : class_heap'[i] = class_heap[i]
      /\ class_heap'[Len(class_heap) + 1] = c
  BY AppendElements
<1>3. /\ IsSequence(class_names') /\ Len(class_names') = Len(class_names) + 1
      /\ \A i \in 1 .. Len(class_names) : class_names'[i] = class_names[i]
      /\ class_names'[Len(class_names) + 1] = name
  BY <1>1, AppendElements DEF NamesInv
<1>4. ASSUME NEW i \in 1 .. Len(class_heap')
      PROVE  class_names'[i] \in {<<"", class_heap'[i]>>, <<prog.prefix, class_heap'[i]>>}
  <2>1. CASE i = Len(class_heap) + 1
    BY <1>1, <1>2, <1>3, <2>1 DEF NamesInv, NamesOK
  <2>2. CASE i # Len(class_heap) + 1
    <3>1. i \in 1 .. Len(class_heap)
      BY <1>2, <2>2
    <3> QED BY <1>2, <1>3, <3>1 DEF NamesInv, NamesOK
  <2> QED BY <2>1, <2>2
<1> QED BY <1>2, <1>3, <1>4 DEF NamesInv, NamesOK

\* main() calls execute().
LEMMA EnterInv ==
  ASSUME callers = <<>>, NEW c, NEW name \in {"<clinit>", MainMethod}, NEW locals,
         Enter(c, name, locals), Loaded(c)', find_method(c, name)
  PROVE  ActivationsInv' /\ CallersWait' /\ InitializedOnce'
<1>1. /\ callers' = <<>> /\ IsSequence(callers') /\ Len(callers') = 0
      /\ frame' = Activation(c, name, locals, "main") /\ status' = "run"
      /\ prog' = prog
  <2> IsSequence(<<>>) /\ Len(<<>>) = 0
    BY DEF IsSequence
  <2> QED BY DEF Enter
<1>2. \A i \in 0 .. Len(callers') : i = 0 /\ Called(i)' = frame'
  BY <1>1 DEF Called
<1>3. Known(frame)'
  BY <1>1 DEF Known, Activation, IsActivation, find_method, Class
<1>4. ActivationsInv'
  BY <1>1, <1>2, <1>3 DEF ActivationsInv, InMethods
<1>5. CallersWait'
  BY <1>1 DEF CallersWait
<1>6. InitializedOnce'
  BY <1>2 DEF InitializedOnce
<1> QED BY <1>4, <1>5, <1>6

-----------------------------------------------------------------------------
\* main() calls execute(): EnterInv.  execute() calls itself: the class is
\* loaded, and no activation initialises it yet.
LEMMA NestedInv ==
  ASSUME ActivationsInv, InMethods, CallersWait, InitializedOnce,
         NEW c, NEW name, NEW via \in {"clinit", "invokestatic", "invokespecial", "invokevirtual"},
         Enters(c, name, via), find_method(c, name), Loaded(c)',
         \A d : Loaded(d) => Loaded(d)',
         ins.op \in Resolving /\ ins.arg.clazz = c,
         IF via = "clinit" THEN name = "<clinit>" /\ ~Loaded(c)
         ELSE name # "<clinit>" /\ ins.op = via /\ ins.arg.name = name
  PROVE  ActivationsInv' /\ CallersWait' /\ InitializedOnce'
<1> DEFINE n == Len(callers)
<1>1. IsSequence(callers) /\ n \in Nat /\ AllActivations
  BY DEF ActivationsInv, IsSequence, InMethods, Known, AllActivations
<1>2. /\ IsSequence(callers') /\ Len(callers') = n + 1 /\ Kept(n)
      /\ \A i : i = n + 1 => Called(i)' = frame'
      /\ Same(callers'[n + 1], frame) /\ callers'[n + 1].pc = frame.pc
  <2>1. /\ IsSequence(callers') /\ Len(callers') = n + 1 /\ Kept(n)
        /\ \A i : i = n + 1 => Called(i)' = frame'
        /\ Same(callers'[Len(callers')], frame) /\ callers'[Len(callers')].pc = frame.pc
    BY <1>1, EnterKeeps
  <2> QED BY <2>1
<1>3. /\ prog' = prog /\ status = "run" /\ status' = "run"
      /\ IsActivation(frame') /\ frame'.clazz = c /\ frame'.meth = name /\ frame'.via = via
  BY DEF Enters
<1>4. ActivationsInv'
  <2>1. Known(frame)'
    BY <1>3 DEF Known, find_method, Class
  <2>2. \A i \in 0 .. n : Known(Called(i))'
    BY <1>1, <1>2, <1>3, KeptKnown
  <2>3. \A i \in 0 .. n + 1 : Known(Called(i))'
    <3> TAKE i \in 0 .. n + 1
    <3>1. CASE i = n + 1
      BY <1>2, <2>1, <3>1 DEF Known, find_method, Class, Loaded
    <3> QED BY <1>1, <2>2, <3>1
  <2> QED BY <1>2, <1>3, <2>3 DEF ActivationsInv, InMethods
<1>5. CallersWait'
  <2>1. \A i \in 1 .. n : Calls(callers[i], Called(i))'
    BY <1>1, <1>2, <1>3, KeptWait
  <2>2. Calls(frame, frame')
    BY <1>3 DEF Calls, code, ins
  <2>3. ASSUME NEW i \in 1 .. n + 1
        PROVE  Calls(callers[i], Called(i))'
    <3>1. CASE i = n + 1
      <4>1. /\ callers'[i].clazz = frame.clazz /\ callers'[i].meth = frame.meth
            /\ callers'[i].pc = frame.pc /\ Called(i)' = frame'
        BY <1>2, <3>1 DEF Same
      <4>2. Method(callers[i].clazz, callers[i].meth)' = Method(frame.clazz, frame.meth)
        BY <1>3, <4>1 DEF Method, Class
      <4> QED BY <2>2, <4>1, <4>2 DEF Calls
    <3> QED BY <1>1, <2>1, <3>1
  <2> QED BY <1>2, <2>3 DEF CallersWait
<1>6. InitializedOnce'
  <2>1. \A i, j \in 0 .. n : \A d :
          (Initializes(Called(i), d) /\ Initializes(Called(j), d))' => i = j
    BY <1>1, <1>2, KeptOnce
  <2>2. ASSUME NEW i \in 0 .. n, NEW d, Initializes(Called(i), d)'
        PROVE  ~(frame'.meth = "<clinit>" /\ frame'.clazz = d)
    <3>1. Same(Called(i)', Called(i)) /\ Known(Called(i))
      BY <1>2 DEF Kept, InMethods
    <3>2. Loaded(d)
      BY <2>2, <3>1 DEF Known, Initializes, Same
    <3> QED BY <1>3, <3>2
  <2>3. ASSUME NEW i \in 0 .. n + 1, NEW j \in 0 .. n + 1, NEW d,
               Initializes(Called(i), d)', Initializes(Called(j), d)'
        PROVE  i = j
    <3>1. CASE i \in 0 .. n /\ j \in 0 .. n
      BY <2>1, <2>3, <3>1
    <3>2. CASE i \in 0 .. n /\ j = n + 1
      BY <1>2, <2>2, <2>3, <3>2 DEF Initializes
    <3>3. CASE i = n + 1 /\ j \in 0 .. n
      BY <1>2, <2>2, <2>3, <3>3 DEF Initializes
    <3> QED BY <1>1, <3>1, <3>2, <3>3
  <2> QED BY <1>2, <2>3 DEF InitializedOnce
<1> QED BY <1>4, <1>5, <1>6

\* The code that runs is code of the program.
LEMMA RunningCode ==
  ASSUME HeapInv, NEW f, Known(f)
  PROVE  Method(f.clazz, f.meth) \in Methods(prog)
<1>1. f.clazz \in DOMAIN prog.classes
  BY DEF HeapInv, Known, Loaded, IsSequence
<1> QED BY <1>1 DEF Known, find_method, Class, Method, Methods

\* No invoke instruction calls a <clinit>.
LEMMA InvokedName ==
  ASSUME HeapInv, Known(frame), Invokes
  PROVE  ins.arg.name # "<clinit>"
<1>1. code \in {Method(frame.clazz, frame.meth).code} /\ Method(frame.clazz, frame.meth) \in Methods(prog)
  BY RunningCode DEF code
<1>2. PICK p \in DOMAIN Programs : prog = Programs[p]
  BY DEF HeapInv
<1> QED BY <1>1, <1>2, ProgramsAssumption DEF Invokes, ins

-----------------------------------------------------------------------------
\* The invariant holds at the start.
LEMMA InitInv ==
  ASSUME Init
  PROVE  ClassInv
<1>1. PICK p \in DOMAIN Programs : prog = Programs[p]
  BY DEF Init
<1>2. /\ status = "boot" /\ stage = "natives" /\ booted = 0
      /\ frame = Idle /\ callers = <<>>
  BY DEF Init
<1>3. prog.natives \subseteq DOMAIN prog.classes /\ Cardinality(prog.natives) \in Nat
  BY <1>1, ProgramsAssumption, FS_CardinalityType
<1>4. /\ class_heap \in [1 .. Cardinality(prog.natives) -> prog.natives]
      /\ \A i, j \in DOMAIN class_heap : class_heap[i] = class_heap[j] => i = j
  BY DEF Init, Orders
<1>5. HeapInv /\ LoadedOnce
  <2>1. class_heap \in Seq(prog.natives) /\ DOMAIN class_heap = 1 .. Len(class_heap)
    BY <1>3, <1>4
  <2>2. /\ IsSequence(class_heap) /\ Len(class_heap) \in Nat
        /\ \A i \in 1 .. Len(class_heap) : class_heap[i] \in prog.natives
    BY <2>1, SequenceOfSet
  <2> QED BY <1>1, <1>2, <1>3, <1>4, <2>1, <2>2 DEF HeapInv, LoadedOnce
<1>8. NamesInv
  <2>1. class_names = [i \in DOMAIN class_heap |-> <<"", class_heap[i]>>]
    BY DEF Init
  <2>2. DOMAIN class_heap = 1 .. Len(class_heap) /\ Len(class_heap) \in Nat
    BY <1>5 DEF HeapInv, IsSequence
  <2>3. /\ class_names \in Seq({<<"", class_heap[i]>> : i \in 1 .. Len(class_heap)})
        /\ Len(class_names) = Len(class_heap)
        /\ \A i \in 1 .. Len(class_heap) : class_names[i] = <<"", class_heap[i]>>
    <3> DEFINE Names == {<<"", class_heap[i]>> : i \in 1 .. Len(class_heap)}
    <3>1. PICK n \in Nat : n = Len(class_heap)
      BY <2>2
    <3>2. \A i \in 1 .. n : <<"", class_heap[i]>> \in Names
      BY <3>1
    <3> HIDE DEF Names
    <3>3. class_names \in [1 .. n -> Names]
      BY <2>1, <2>2, <3>1, <3>2
    <3>4. class_names \in Seq(Names) /\ Len(class_names) = n
      BY <3>1, <3>3
    <3> QED BY <2>1, <2>2, <3>1, <3>4 DEF Names
  <2>4. IsSequence(class_names)
    BY <2>3, SequenceOfSet
  <2> QED BY <2>3, <2>4 DEF NamesInv, NamesOK
<1>6. IsSequence(<<>>) /\ Len(<<>>) = 0
  BY DEF IsSequence
<1>7. ActivationsInv /\ CallersWait /\ InitializedOnce
  BY <1>2, <1>6 DEF ActivationsInv, InMain, CallersWait, InitializedOnce
<1> QED BY <1>5, <1>7, <1>8 DEF ClassInv

\* A step that does not load classes nor call methods.
LEMMA KeepingInv ==
  ASSUME ClassInv, InMethods, IsSequence(callers'), Len(callers') \in Nat,
         Len(callers') <= Len(callers), Kept(Len(callers')),
         UNCHANGED <<prog, status, stage, booted, class_heap, class_names>>, status = "run"
  PROVE  ClassInv'
<1>1. Len(callers) \in Nat
  BY DEF ClassInv, ActivationsInv, IsSequence
<1>2. HeapInv' /\ LoadedOnce' /\ NamesInv'
  BY NamesKept DEF ClassInv, HeapInv, LoadedOnce, Loaded
<1>3. \A c : Loaded(c) => Loaded(c)'
  BY DEF Loaded
<1>4. PICK n \in Nat : n = Len(callers')
  OBVIOUS
<1>5. \A i \in 0 .. n : Known(Called(i))'
  BY <1>1, <1>3, <1>4, KeptKnown
<1>6. \A i \in 1 .. n : Calls(callers[i], Called(i))'
  BY <1>1, <1>4, KeptWait DEF ClassInv
<1>7. \A i, j \in 0 .. n : \A c :
        (Initializes(Called(i), c) /\ Initializes(Called(j), c))' => i = j
  BY <1>1, <1>4, KeptOnce DEF ClassInv
<1> QED BY <1>2, <1>4, <1>5, <1>6, <1>7
        DEF ClassInv, ActivationsInv, InMethods, CallersWait, InitializedOnce

\* The loading of a class preserves the invariant.
LEMMA LoadsClassInv ==
  ASSUME ClassInv, LoadsClass
  PROVE  ClassInv'
<1> DEFINE c == ins.arg.clazz
<1>1. Adds(c) /\ status = "run" /\ InMethods
  BY DEF LoadsClass, Adds, ClassInv, ActivationsInv
<1>2. /\ IsSequence(class_heap')
      /\ Len(class_heap) \in Nat /\ Len(class_heap') = Len(class_heap) + 1
      /\ \A i \in 1 .. Len(class_heap) : class_heap'[i] = class_heap[i]
      /\ class_heap'[Len(class_heap) + 1] = c
      /\ \A d : Loaded(d)' <=> (Loaded(d) \/ d = c)
  BY <1>1, AppendLoads DEF ClassInv, HeapInv, Adds
<1>3. \A i \in 1 .. Len(class_heap) : class_heap[i] # c
  BY <1>1 DEF Adds, Loaded, ClassInv, HeapInv, IsSequence
<1>4. HeapInv'
  BY <1>1, <1>2 DEF ClassInv, HeapInv, Adds
<1>5. LoadedOnce' /\ NamesInv'
  <2>1. LoadedOnce'
    BY <1>2, <1>3 DEF ClassInv, LoadedOnce
  <2> QED BY <1>1, <2>1, NamesAppended DEF ClassInv, HeapInv, Adds
<1>6. CASE UNCHANGED <<frame, callers>>
  <2>1. ActivationsInv'
    BY <1>1, <1>2, <1>6 DEF ClassInv, ActivationsInv, InMethods, Known, Adds, Called, find_method, Class
  <2>2. InitializedOnce'
    BY <1>1, <1>6 DEF ClassInv, InitializedOnce, Initializes, Called
  <2>3. ASSUME NEW i \in 1 .. Len(callers)
        PROVE  Calls(callers[i], Called(i))'
    <3>1. Calls(callers[i], Called(i)) /\ Called(i)' = Called(i)
      BY <1>6 DEF ClassInv, CallersWait, Called
    <3> QED BY <1>1, <1>6, <3>1 DEF Calls, Method, Class, Adds
  <2>4. CallersWait'
    BY <1>6, <2>3 DEF CallersWait
  <2> QED BY <1>4, <1>5, <2>1, <2>2, <2>4 DEF ClassInv
<1>7. CASE find_method(c, "<clinit>") /\ Enters(c, "<clinit>", "clinit")
  BY <1>1, <1>2, <1>4, <1>5, <1>7, NestedInv DEF ClassInv, Adds
<1> QED BY <1>6, <1>7 DEF LoadsClass

\* A method call preserves the invariant.
LEMMA InvokesInv ==
  ASSUME ClassInv, Invokes
  PROVE  ClassInv'
<1>1. /\ Enters(ins.arg.clazz, ins.arg.name, ins.op) /\ status = "run" /\ InMethods
      /\ UNCHANGED <<prog, stage, booted, class_heap, class_names>>
  BY DEF Invokes, Enters, ClassInv, ActivationsInv
<1>2. HeapInv' /\ LoadedOnce' /\ NamesInv'
  BY <1>1, NamesKept DEF ClassInv, HeapInv, LoadedOnce, Loaded
<1>3. \A d : Loaded(d) => Loaded(d)'
  BY <1>1 DEF Loaded
<1>4. Known(frame)
  <2>1. Len(callers) \in 0 .. Len(callers) /\ Called(Len(callers)) = frame
    BY DEF Called, ClassInv, ActivationsInv, IsSequence
  <2> QED BY <1>1, <2>1 DEF InMethods
<1>5. ins.arg.name # "<clinit>"
  BY <1>4, InvokedName DEF ClassInv
<1>6. /\ ins.op \in {"invokestatic", "invokespecial", "invokevirtual"} /\ ins.op \in Resolving
      /\ find_method(ins.arg.clazz, ins.arg.name) /\ Loaded(ins.arg.clazz)
  BY DEF Invokes, Resolving
<1>7. PICK c, name, via : c = ins.arg.clazz /\ name = ins.arg.name /\ via = ins.op
  OBVIOUS
<1>8. ActivationsInv' /\ CallersWait' /\ InitializedOnce'
  BY <1>1, <1>3, <1>5, <1>6, <1>7, NestedInv DEF ClassInv
<1> QED BY <1>2, <1>8 DEF ClassInv

\* The end of the process preserves the invariant.
LEMMA HaltsInv ==
  ASSUME ClassInv, Halts
  PROVE  ClassInv'
<1>1. HeapInv' /\ LoadedOnce' /\ InitializedOnce' /\ NamesInv'
  BY NamesKept DEF Halts, ClassInv, HeapInv, LoadedOnce, Loaded, InitializedOnce, Initializes, Called
<1>2. ActivationsInv'
  BY DEF Halts, ClassInv, ActivationsInv, InMain, InMethods, Known, Loaded, Called, Terminal,
         find_method, Class
<1>3. ASSUME NEW i \in 1 .. Len(callers)
      PROVE  Calls(callers[i], Called(i))'
  <2>1. Calls(callers[i], Called(i)) /\ Called(i)' = Called(i)
    BY DEF ClassInv, CallersWait, Called, Halts
  <2> QED BY <2>1 DEF Calls, Method, Class, Halts
<1>4. CallersWait'
  BY <1>3 DEF CallersWait, Halts
<1> QED BY <1>1, <1>2, <1>4 DEF ClassInv

\* main() runs the <clinit> of a class it has loaded.
LEMMA RunClinitInv ==
  ASSUME ActivationsInv, CallersWait, InitializedOnce, status = "boot",
         NEW c, RunClinit(c), Loaded(c)'
  PROVE  ActivationsInv' /\ CallersWait' /\ InitializedOnce' /\ prog' = prog
<1>1. callers = <<>> /\ Len(callers) = 0 /\ InMain
  BY DEF ActivationsInv, InMain
<1>2. CASE UNCHANGED <<prog, status, frame, callers>>
  <2>1. ActivationsInv'
    BY <1>1, <1>2 DEF ActivationsInv, InMain
  <2>2. CallersWait' /\ InitializedOnce'
    BY <1>1, <1>2 DEF CallersWait, InitializedOnce
  <2> QED BY <1>2, <2>1, <2>2
<1>3. ASSUME find_method(c, "<clinit>"), NEW locals, Enter(c, "<clinit>", locals)
      PROVE  ActivationsInv' /\ CallersWait' /\ InitializedOnce' /\ prog' = prog
  BY <1>1, <1>3, EnterInv DEF Enter
<1> QED BY <1>2, <1>3 DEF RunClinit

\* The steps of main(), and the return to it, preserve the invariant.
LEMMA MainInv ==
  ASSUME ClassInv, native_clinit \/ add_main_class \/ call_main \/ return_to_main
  PROVE  ClassInv'
<1>1. Len(class_heap) \in Nat /\ DOMAIN class_heap = 1 .. Len(class_heap)
  BY DEF ClassInv, HeapInv, IsSequence
<1>2. CASE native_clinit
  <2>1. /\ status = "boot" /\ stage' = stage /\ class_heap' = class_heap /\ class_names' = class_names
        /\ booted < Len(class_heap) /\ booted' = booted + 1 /\ RunClinit(class_heap[booted + 1])
    BY <1>2 DEF native_clinit
  <2>2. PICK c : c = class_heap[booted + 1]
    OBVIOUS
  <2>3. Loaded(c)'
    BY <1>1, <2>1, <2>2 DEF Loaded, ClassInv, HeapInv
  <2>4. ActivationsInv' /\ CallersWait' /\ InitializedOnce' /\ prog' = prog
    BY <2>1, <2>2, <2>3, RunClinitInv DEF ClassInv
  <2>5. HeapInv' /\ LoadedOnce' /\ NamesInv'
    BY <1>1, <2>1, <2>4, NamesKept DEF ClassInv, HeapInv, LoadedOnce, Loaded
  <2> QED BY <2>4, <2>5 DEF ClassInv
<1>3. CASE add_main_class
  <2>1. CASE Len(class_heap) < MaxClasses
    <3>1. /\ status = "boot" /\ stage = "natives" /\ stage' = "main_clinit"
          /\ class_heap' = Append(class_heap, prog.main) /\ booted' = booted
          /\ class_names' = Append(class_names, <<prog.prefix, prog.main>>)
          /\ RunClinit(prog.main)
      BY <1>3, <2>1 DEF add_main_class, add_class
    <3>2. PICK c : c = prog.main
      OBVIOUS
    <3>3. /\ IsSequence(class_heap') /\ Len(class_heap') = Len(class_heap) + 1
          /\ \A i \in 1 .. Len(class_heap) : class_heap'[i] = class_heap[i]
          /\ class_heap'[Len(class_heap) + 1] = c
          /\ \A d : Loaded(d)' <=> (Loaded(d) \/ d = c)
      BY <3>1, <3>2, AppendLoads DEF ClassInv, HeapInv
    <3>4. ActivationsInv' /\ CallersWait' /\ InitializedOnce' /\ prog' = prog
      BY <3>1, <3>2, <3>3, RunClinitInv DEF ClassInv
    <3>5. c \in DOMAIN prog.classes \ prog.natives
      BY <3>2, ProgramsAssumption DEF ClassInv, HeapInv
    <3>6. HeapInv' /\ LoadedOnce'
      BY <1>1, <3>1, <3>2, <3>3, <3>4, <3>5 DEF ClassInv, HeapInv, LoadedOnce
    <3>7. NamesInv'
      BY <3>1, <3>4, NamesAppended DEF ClassInv, HeapInv
    <3> QED BY <3>4, <3>6, <3>7 DEF ClassInv
  <2> QED BY <1>3, <2>1, CrashHalts, HaltsInv DEF add_main_class, Terminal
<1>4. CASE call_main
  <2>1. CASE find_method(prog.main, MainMethod)
    <3>1. PICK c : c = prog.main
      OBVIOUS
    <3>2. /\ stage = "main_clinit" /\ stage' = "main" /\ callers = <<>>
          /\ UNCHANGED <<booted, class_heap, class_names>>
          /\ Enter(c, MainMethod, Fill(c, MainMethod, Zeroed))
      BY <1>4, <2>1, <3>1 DEF call_main, ClassInv, ActivationsInv, InMain
    <3>3. Loaded(c)' /\ prog' = prog
      BY <3>1, <3>2 DEF ClassInv, HeapInv, Loaded, Enter
    <3>4. ActivationsInv' /\ CallersWait' /\ InitializedOnce'
      BY <2>1, <3>1, <3>2, <3>3, EnterInv
    <3>5. HeapInv' /\ LoadedOnce' /\ NamesInv'
      BY <3>2, <3>3, NamesKept DEF ClassInv, HeapInv, LoadedOnce, Loaded
    <3> QED BY <3>4, <3>5 DEF ClassInv
  <2> QED BY <1>4, <2>1, CrashHalts, HaltsInv DEF call_main, Terminal
<1>5. CASE return_to_main
  <2>1. /\ callers = <<>> /\ callers' = <<>> /\ frame' = Idle /\ status' = "boot"
        /\ UNCHANGED <<prog, stage, booted, class_heap, class_names>>
    BY <1>5 DEF return_to_main
  <2>2. HeapInv' /\ LoadedOnce' /\ NamesInv'
    BY <2>1, NamesKept DEF ClassInv, HeapInv, LoadedOnce, Loaded
  <2>3. ActivationsInv' /\ CallersWait' /\ InitializedOnce'
    BY <2>1 DEF ClassInv, ActivationsInv, InMain, CallersWait, InitializedOnce
  <2> QED BY <2>2, <2>3 DEF ClassInv
<1> QED BY <1>2, <1>3, <1>4, <1>5

\* Every step preserves the invariant.
LEMMA NextInv ==
  ASSUME ClassInv, [Next]_vars
  PROVE  ClassInv'
<1>1. Len(callers) \in Nat /\ IsSequence(callers)
  BY DEF ClassInv, ActivationsInv, IsSequence
<1>2. ASSUME status = "run"
      PROVE  InMethods /\ AllActivations
  BY <1>2 DEF ClassInv, ActivationsInv, InMethods, Known, AllActivations
<1>3. CASE Continues
  <2>1. /\ Kept(Len(callers)) /\ callers' = callers
        /\ UNCHANGED <<prog, status, stage, booted, class_heap, class_names>>
    BY <1>1, <1>2, <1>3, ContinueKeeps DEF Continues
  <2> QED BY <1>1, <1>2, <1>3, <2>1, KeepingInv DEF Continues
<1>4. CASE Resumes
  BY <1>1, <1>2, <1>4, ResumeKeeps, KeepingInv DEF Resumes
<1> QED BY <1>3, <1>4, InvStepKinds, HaltsInv, LoadsClassInv, InvokesInv, MainInv DEF ClassInv

\* The conjuncts of the invariant hold in all reachable states.
THEOREM ClassInvariant == Spec => []ClassInv
BY InitInv, NextInv, PTL DEF Spec

\* No class is ever in the class heap twice (add_class is only called after a
\* search, and main()'s own class is not one of the native ones).
THEOREM LoadedOnceHolds == Spec => []LoadedOnce
<1> ClassInv => LoadedOnce
  BY DEF ClassInv
<1> QED BY ClassInvariant, PTL

\* No class is initialised by two activations at a time.
THEOREM ClinitNotReenteredHolds == Spec => []ClinitNotReentered
<1>1. ASSUME ClassInv
      PROVE  ClinitNotReentered
  <2>1. \A f \in Activations : Loaded(f.clazz)
    BY <1>1 DEF Activations, ClassInv, ActivationsInv, InMain, InMethods, Known
  <2> QED BY <1>1, <2>1 DEF ClassInv, InitializedOnce, ClinitNotReentered
<1> QED BY <1>1, ClassInvariant, PTL

\* Every suspended activation is at the instruction that called the next one.
THEOREM CallersWaitHolds == Spec => []CallersWait
<1> ClassInv => CallersWait
  BY DEF ClassInv
<1> QED BY ClassInvariant, PTL

-----------------------------------------------------------------------------
(***************************************************************************)
(* The interpreter implements ClassLifecycle, under the refinement mapping *)
(* "state" of ClassLoading: each kind of step moves at most one class.     *)
(***************************************************************************)
\* Some activation initialises c.
Busy(c) == \E i \in 0 .. Len(callers) : Initializes(Called(i), c)

\* Busy(c) says of the list of activations what Phase says of the set.
LEMMA BusyActivations ==
  ASSUME ClassInv, NEW c
  PROVE  Busy(c) <=> \E f \in Activations : Initializes(f, c)
<1>1. CASE InMain
  <2>1. Called(0) = Idle /\ Len(callers) = 0 /\ Activations = {}
    BY <1>1 DEF InMain, Called, Activations
  <2>2. ~Initializes(Idle, c)
    BY DEF Idle, Activation, Initializes
  <2> QED BY <2>1, <2>2 DEF Busy
<1>2. CASE InMethods
  <2>1. Len(callers) \in 0 .. Len(callers) /\ Called(Len(callers)) = frame
    BY DEF ClassInv, ActivationsInv, IsSequence, Called
  <2>2. Known(frame)
    BY <1>2, <2>1 DEF InMethods
  <2>3. ASSUME frame = Idle
        PROVE  FALSE
    <3>1. frame.meth = "none" /\ frame.via = "main"
      BY <2>3 DEF Idle, Activation
    <3>2. "none" # "<clinit>" /\ "none" # MainMethod
      BY DEF MainMethod
    <3> QED BY <2>2, <3>1, <3>2 DEF Known
  <2> QED BY <2>3 DEF Activations, Busy
<1> QED BY <1>1, <1>2 DEF ClassInv, ActivationsInv

Described(c) ==
    IF ~Loaded(c) THEN "absent"
    ELSE IF Waiting(c) THEN "waiting"
    ELSE IF Busy(c) THEN "initializing"
    ELSE "ready"

\* The phase of a class in terms of Busy.
LEMMA PhaseOf ==
  ASSUME NEW c
  PROVE  [](ClassInv => Phase(c) = Described(c))
<1> ClassInv => Phase(c) = Described(c)
  BY BusyActivations DEF Phase, Described
<1> QED BY PTL

\* A class that is being initialised is loaded.
LEMMA BusyLoaded ==
  ASSUME ClassInv, NEW c, Busy(c)
  PROVE  Loaded(c) /\ InMethods
<1>1. PICK i \in 0 .. Len(callers) : Initializes(Called(i), c)
  BY DEF Busy
<1>2. ~InMain
  <2> SUFFICES ASSUME InMain PROVE FALSE
    OBVIOUS
  <2>1. i = 0 /\ Called(i) = Idle
    BY DEF InMain, Called
  <2> QED BY <1>1, <2>1 DEF Idle, Activation, Initializes
<1>3. InMethods
  BY <1>2 DEF ClassInv, ActivationsInv
<1> QED BY <1>1, <1>3 DEF InMethods, Known, Initializes

-----------------------------------------------------------------------------
\* A step that changes the phase of one class in the right way, or of none.
Moves(c) ==
    \/ Phase(c) \in {"absent", "waiting"} /\ Phase(c)' \in {"initializing", "ready"}
    \/ Phase(c) = "initializing" /\ Phase(c)' = "ready"
    \/ Phase(c)' = Phase(c)

\* A step that moves one class along and keeps the others is one of Lifecycle.
LEMMA MovesNext ==
  ASSUME NEW c, Moves(c), \A d : d # c => Phase(d)' = Phase(d)
  PROVE  [Lifecycle!Next]_state
<1>1. CASE c \in Classes /\ Phase(c)' # Phase(c)
  <2>1. state[c] = Phase(c) /\ state' = [state EXCEPT ![c] = Phase(c)']
    <3>1. \A d \in Classes : Phase(d)' = IF d = c THEN Phase(c)' ELSE Phase(d)
      OBVIOUS
    <3>2. state' = [d \in Classes |-> IF d = c THEN Phase(c)' ELSE Phase(d)]
      BY <3>1 DEF state
    <3> QED BY <1>1, <3>2 DEF state
  <2>2. CASE Phase(c) \in {"absent", "waiting"} /\ Phase(c)' = "initializing"
    BY <1>1, <2>1, <2>2 DEF Lifecycle!Next, Lifecycle!Start, Lifecycle!Become
  <2>3. CASE Phase(c) \in {"absent", "waiting"} /\ Phase(c)' = "ready"
    BY <1>1, <2>1, <2>3 DEF Lifecycle!Next, Lifecycle!Skip, Lifecycle!Become
  <2>4. CASE Phase(c) = "initializing" /\ Phase(c)' = "ready"
    BY <1>1, <2>1, <2>4 DEF Lifecycle!Next, Lifecycle!Finish, Lifecycle!Become
  <2> QED BY <1>1, <2>2, <2>3, <2>4 DEF Moves
<1>2. CASE ~(c \in Classes /\ Phase(c)' # Phase(c))
  <2>1. \A d \in Classes : Phase(d)' = Phase(d)
    BY <1>2
  <2>2. state' = state
    BY <2>1 DEF state
  <2> QED BY <2>2
<1> QED BY <1>1, <1>2

\* A step that keeps every class where it is stutters.
LEMMA SameNext ==
  ASSUME \A d : Phase(d)' = Phase(d)
  PROVE  [Lifecycle!Next]_state
BY DEF state

-----------------------------------------------------------------------------
\* The phases are a matter of the three predicates.
LEMMA BothPhases ==
  ASSUME ClassInv, ClassInv', NEW c
  PROVE  Phase(c) = Described(c) /\ (Phase(c) = Described(c))'
<1>1. [](ClassInv => Phase(c) = Described(c))
  BY PhaseOf
<1>2. (Phase(c) = Described(c))'
  BY <1>1, PTL
<1>3. Phase(c) = Described(c)
  BY <1>1, PTL
<1> QED BY <1>2, <1>3

\* When nothing it depends on has changed a phase is the same.
LEMMA SamePhase ==
  ASSUME ClassInv, ClassInv', NEW c,
         Loaded(c)' <=> Loaded(c), Waiting(c)' <=> Waiting(c), Busy(c)' <=> Busy(c)
  PROVE  Phase(c)' = Phase(c)
BY BothPhases DEF Described

\* Without a change of the class heap nothing is loaded, nor waits, anew.
LEMMA HeapPhases ==
  ASSUME UNCHANGED <<stage, booted, class_heap>>, NEW c
  PROVE  (Loaded(c)' <=> Loaded(c)) /\ (Waiting(c)' <=> Waiting(c))
BY DEF Loaded, Waiting

\* The activations that are kept initialise what they did.
LEMMA KeptBusy ==
  ASSUME NEW n \in Nat, Kept(n), n <= Len(callers), Len(callers) \in Nat,
         NEW i \in 0 .. n, NEW c
  PROVE  Initializes(Called(i), c)' <=> Initializes(Called(i), c)
BY DEF Kept, Same, Initializes

\* While main() is in control no class is being initialised.
LEMMA MainIdle ==
  ASSUME ClassInv, status = "boot", NEW c
  PROVE  ~Busy(c)
<1>1. Len(callers) = 0 /\ Called(0) = Idle
  BY DEF ClassInv, ActivationsInv, InMain, Called
<1> QED BY <1>1 DEF Busy, Initializes, Idle, Activation

-----------------------------------------------------------------------------
\* The end of the process is a stutter of Lifecycle.
LEMMA HaltsRefines ==
  ASSUME ClassInv, ClassInv', Halts
  PROVE  [Lifecycle!Next]_state
<1>1. ASSUME NEW c
      PROVE  Phase(c)' = Phase(c)
  <2>1. Busy(c)' <=> Busy(c)
    BY DEF Halts, Busy, Called, Initializes
  <2> QED BY <2>1, HeapPhases, SamePhase DEF Halts
<1> QED BY <1>1, SameNext

\* A step inside one activation is a stutter of Lifecycle.
LEMMA ContinuesRefines ==
  ASSUME ClassInv, ClassInv', Continues
  PROVE  [Lifecycle!Next]_state
<1>1. /\ IsSequence(callers) /\ Len(callers) \in Nat /\ AllActivations
      /\ callers' = callers /\ UNCHANGED <<stage, booted, class_heap>>
  BY DEF Continues, ClassInv, ActivationsInv, IsSequence, InMethods, Known, AllActivations
<1>2. ASSUME NEW c
      PROVE  Phase(c)' = Phase(c)
  <2>1. Busy(c)' <=> Busy(c)
    BY <1>1, ContinueKeeps, KeptBusy DEF Busy
  <2> QED BY <1>1, <2>1, HeapPhases, SamePhase
<1> QED BY <1>2, SameNext

\* A return finishes the class whose <clinit> returns, if it was one.
LEMMA ResumesRefines ==
  ASSUME ClassInv, ClassInv', Resumes
  PROVE  [Lifecycle!Next]_state
<1>1. /\ IsSequence(callers) /\ Len(callers) \in Nat /\ AllActivations
      /\ UNCHANGED <<stage, booted, class_heap>>
  BY DEF Resumes, ClassInv, ActivationsInv, IsSequence, InMethods, Known, AllActivations
<1>2. PICK n \in Nat : n = Len(callers') /\ Len(callers) = n + 1 /\ Kept(n)
  BY <1>1, ResumeKeeps
<1>3. ASSUME NEW c
      PROVE  /\ Busy(c)' => Busy(c)
             /\ Busy(c) => (Busy(c)' \/ Initializes(frame, c))
  <2>1. \A i \in 0 .. n : Initializes(Called(i), c)' <=> Initializes(Called(i), c)
    BY <1>1, <1>2, KeptBusy
  <2>2. Called(n + 1) = frame
    BY <1>2 DEF Called
  <2> QED BY <1>2, <2>1, <2>2 DEF Busy
<1> DEFINE c == frame.clazz
<1>4. ASSUME NEW d, d # c
      PROVE  Phase(d)' = Phase(d)
  BY <1>1, <1>3, <1>4, HeapPhases, SamePhase DEF Initializes
<1>5. PICK e : e = c
  OBVIOUS
<1>6. Moves(e)
  BY <1>1, <1>3, BothPhases, HeapPhases DEF Moves, Described
<1> QED BY <1>4, <1>5, <1>6, MovesNext

\* A return to main() finishes the class whose <clinit> returns, if it was one.
LEMMA ReturnToMainRefines ==
  ASSUME ClassInv, ClassInv', return_to_main
  PROVE  [Lifecycle!Next]_state
<1>1. UNCHANGED <<stage, booted, class_heap>> /\ Len(callers) = 0 /\ callers' = <<>> /\ frame' = Idle
  <2>1. Len(<<>>) = 0
    OBVIOUS
  <2> QED BY <2>1 DEF return_to_main
<1>2. ASSUME NEW c
      PROVE  ~Busy(c)' /\ (Busy(c) => Initializes(frame, c))
  <2>1. Called(0) = frame /\ Called(0)' = Idle /\ Len(callers') = 0
    BY <1>1 DEF Called
  <2> QED BY <1>1, <2>1 DEF Busy, Initializes, Idle, Activation
<1> DEFINE c == frame.clazz
<1>3. ASSUME NEW d, d # c
      PROVE  Phase(d)' = Phase(d)
  BY <1>1, <1>2, <1>3, HeapPhases, SamePhase DEF Initializes
<1>4. PICK e : e = c
  OBVIOUS
<1>5. Moves(e)
  BY <1>1, <1>2, BothPhases, HeapPhases DEF Moves, Described
<1> QED BY <1>3, <1>4, <1>5, MovesNext

\* A call makes busy the class whose <clinit> it calls, and no other.
LEMMA EntersBusy ==
  ASSUME ClassInv, NEW c, NEW name, NEW via, Enters(c, name, via), NEW d
  PROVE  Busy(d)' <=> (Busy(d) \/ (name = "<clinit>" /\ c = d))
<1> DEFINE n == Len(callers)
<1>1. IsSequence(callers) /\ n \in Nat /\ AllActivations
  BY DEF Enters, ClassInv, ActivationsInv, IsSequence, InMethods, Known, AllActivations
<1>2. Len(callers') = n + 1 /\ Kept(n) /\ \A i : i = n + 1 => Called(i)' = frame'
  BY <1>1, EnterKeeps
<1>3. \A i \in 0 .. n : Initializes(Called(i), d)' <=> Initializes(Called(i), d)
  BY <1>1, <1>2, KeptBusy
<1>4. \A i : i = n + 1 => (Initializes(Called(i), d)' <=> (name = "<clinit>" /\ c = d))
  BY <1>2 DEF Initializes, Enters
<1> QED BY <1>1, <1>2, <1>3, <1>4 DEF Busy

\* A method call is a stutter: no method named by an invoke is a <clinit>.
LEMMA InvokesRefines ==
  ASSUME ClassInv, ClassInv', Invokes
  PROVE  [Lifecycle!Next]_state
<1>1. /\ Enters(ins.arg.clazz, ins.arg.name, ins.op) /\ InMethods
      /\ UNCHANGED <<stage, booted, class_heap>>
  BY DEF Invokes, Enters, ClassInv, ActivationsInv
<1>2. Known(frame)
  <2>1. Len(callers) \in 0 .. Len(callers) /\ Called(Len(callers)) = frame
    BY DEF Called, ClassInv, ActivationsInv, IsSequence
  <2> QED BY <1>1, <2>1 DEF InMethods
<1>3. ins.arg.name # "<clinit>"
  BY <1>2, InvokedName DEF ClassInv
<1>4. ASSUME NEW d
      PROVE  Phase(d)' = Phase(d)
  <2>1. Busy(d)' <=> Busy(d)
    BY <1>1, <1>3, EntersBusy
  <2> QED BY <1>1, <2>1, HeapPhases, SamePhase
<1> QED BY <1>4, SameNext

\* Loading starts the class, or makes it ready at once if it has no <clinit>
\* (or invokestatic loads it).
LEMMA LoadsClassRefines ==
  ASSUME ClassInv, ClassInv', LoadsClass
  PROVE  [Lifecycle!Next]_state
<1>1. PICK c : c = ins.arg.clazz
  OBVIOUS
<1>2. /\ Adds(c) /\ ~Loaded(c) /\ stage # "natives" /\ stage' = stage
      /\ UNCHANGED <<frame, callers>> \/ Enters(c, "<clinit>", "clinit")
      /\ \A d : Loaded(d)' <=> (Loaded(d) \/ d = c)
  BY <1>1, AppendLoads DEF LoadsClass, Adds, ClassInv, HeapInv
<1>3. \A d : ~Waiting(d) /\ ~Waiting(d)'
  BY <1>2 DEF Waiting
<1>4. ASSUME NEW d, d # c
      PROVE  Busy(d)' <=> Busy(d)
  <2>1. CASE UNCHANGED <<frame, callers>>
    BY <2>1 DEF Busy, Called, Initializes
  <2>2. CASE Enters(c, "<clinit>", "clinit")
    BY <1>4, <2>2, EntersBusy
  <2> QED BY <1>2, <2>1, <2>2
<1>5. ASSUME NEW d, d # c
      PROVE  Phase(d)' = Phase(d)
  BY <1>2, <1>3, <1>4, <1>5, SamePhase
<1>6. Moves(c)
  BY <1>2, <1>3, BothPhases DEF Moves, Described
<1> QED BY <1>5, <1>6, MovesNext

\* What main() runs initialises at most the class it is about.
LEMMA RunBusy ==
  ASSUME ClassInv, status = "boot", NEW c, RunClinit(c), NEW d
  PROVE  ~Busy(d) /\ (Busy(d)' => d = c)
<1>1. ~Busy(d) /\ callers = <<>> /\ Len(callers) = 0
  BY MainIdle DEF ClassInv, ActivationsInv, InMain
<1>2. CASE UNCHANGED <<prog, status, frame, callers>>
  BY <1>1, <1>2 DEF Busy, Called, Initializes
<1>3. ASSUME NEW locals, Enter(c, "<clinit>", locals)
      PROVE  Busy(d)' => d = c
  <2>1. Called(0)' = frame' /\ Len(callers') = 0 /\ frame'.clazz = c
    BY <1>1, <1>3 DEF Enter, Activation, Called
  <2> QED BY <2>1 DEF Busy, Initializes
<1> QED BY <1>1, <1>2, <1>3 DEF RunClinit

\* main() starts or skips the next native class.
LEMMA NativeClinitRefines ==
  ASSUME ClassInv, ClassInv', native_clinit
  PROVE  [Lifecycle!Next]_state
<1>1. PICK c : c = class_heap[booted + 1]
  OBVIOUS
<1>2. /\ status = "boot" /\ stage = "natives" /\ stage' = stage /\ class_heap' = class_heap
      /\ booted' = booted + 1 /\ RunClinit(c)
      /\ booted < Len(class_heap) /\ booted \in Nat /\ Len(class_heap) \in Nat
  BY <1>1 DEF native_clinit, ClassInv, HeapInv, IsSequence
<1>3. \A d : ~Busy(d) /\ (Busy(d)' => d = c)
  BY <1>2, RunBusy
<1>4. \A d : Loaded(d)' <=> Loaded(d)
  BY <1>2 DEF Loaded
<1>5. Waiting(c) /\ ~Waiting(c)'
  <2>1. Waiting(c)
    BY <1>1, <1>2 DEF Waiting
  <2>2. \A i \in booted + 2 .. Len(class_heap) : class_heap[i] # c
    BY <1>1, <1>2 DEF ClassInv, LoadedOnce
  <2> QED BY <1>2, <2>1, <2>2 DEF Waiting
<1>6. ASSUME NEW d, d # c
      PROVE  Waiting(d)' <=> Waiting(d)
  <2>1. \A i \in booted + 1 .. Len(class_heap) : class_heap[i] = d => i \in booted + 2 .. Len(class_heap)
    BY <1>1, <1>2, <1>6
  <2> QED BY <1>2, <2>1 DEF Waiting
<1>7. ASSUME NEW d, d # c
      PROVE  Phase(d)' = Phase(d)
  BY <1>3, <1>4, <1>6, <1>7, SamePhase
<1>8. Moves(c)
  BY <1>4, <1>5, BothPhases DEF Moves, Described
<1> QED BY <1>7, <1>8, MovesNext

\* main() loads the main class and starts it, if it has a <clinit>.
LEMMA AddMainClassRefines ==
  ASSUME ClassInv, ClassInv', add_main_class
  PROVE  [Lifecycle!Next]_state
<1>1. CASE Len(class_heap) < MaxClasses
  <2>1. PICK c : c = prog.main
    OBVIOUS
  <2>2. /\ status = "boot" /\ stage = "natives" /\ stage' = "main_clinit"
        /\ booted = Len(class_heap) /\ RunClinit(c) /\ class_heap' = Append(class_heap, c)
    BY <1>1, <2>1 DEF add_main_class, add_class
  <2>3. \A d : ~Busy(d) /\ (Busy(d)' => d = c)
    BY <2>2, RunBusy
  <2>4. \A d : Loaded(d)' <=> (Loaded(d) \/ d = c)
    BY <2>2, AppendLoads DEF ClassInv, HeapInv
  <2>5. ~Loaded(c)
    <3>1. prog.main \notin prog.natives
      BY ProgramsAssumption DEF ClassInv, HeapInv
    <3> QED BY <2>1, <2>2, <3>1 DEF ClassInv, HeapInv, Loaded, IsSequence
  <2>6. \A d : ~Waiting(d) /\ ~Waiting(d)'
    <3>1. Len(class_heap) \in Nat
      BY DEF ClassInv, HeapInv, IsSequence
    <3> QED BY <2>2, <3>1 DEF Waiting
  <2>7. ASSUME NEW d, d # c
        PROVE  Phase(d)' = Phase(d)
    BY <2>3, <2>4, <2>6, <2>7, SamePhase
  <2>8. Moves(c)
    BY <2>4, <2>5, <2>6, BothPhases DEF Moves, Described
  <2> QED BY <2>7, <2>8, MovesNext
<1> QED BY <1>1, CrashHalts, HaltsRefines DEF add_main_class, Terminal

\* The call of main(String[]) is a stutter.
LEMMA CallMainRefines ==
  ASSUME ClassInv, ClassInv', call_main
  PROVE  [Lifecycle!Next]_state
<1>1. CASE find_method(prog.main, MainMethod)
  <2>1. /\ status = "boot" /\ stage # "natives" /\ stage' # "natives" /\ class_heap' = class_heap
        /\ callers' = <<>> /\ frame'.meth = MainMethod
    BY <1>1 DEF call_main, Enter, Activation, ClassInv, ActivationsInv, InMain
  <2>2. ASSUME NEW d
        PROVE  Phase(d)' = Phase(d)
    <3>1. Called(0)' = frame' /\ Len(callers') = 0
      BY <2>1 DEF Called
    <3>2. MainMethod # "<clinit>"
      BY DEF MainMethod
    <3>3. ~Busy(d)
      BY <2>1, MainIdle
    <3>4. ~Initializes(Called(0), d)'
      BY <2>1, <3>1, <3>2 DEF Initializes
    <3>5. ~Busy(d)'
      BY <3>1, <3>4 DEF Busy
    <3> QED BY <2>1, <3>3, <3>5, SamePhase DEF Loaded, Waiting
  <2> QED BY <2>2, SameNext
<1> QED BY <1>1, CrashHalts, HaltsRefines DEF call_main, Terminal

-----------------------------------------------------------------------------
\* Before anything runs the native classes wait and the others are absent.
LEMMA InitRefines ==
  ASSUME Init
  PROVE  Lifecycle!Init
<1>1. frame = Idle /\ stage = "natives" /\ booted = 0
  BY DEF Init
<1>2. ClassInv
  BY InitInv
<1>3. DOMAIN class_heap = 1 .. Len(class_heap)
  BY <1>2 DEF ClassInv, HeapInv, IsSequence
<1>4. \A c : Phase(c) \in {"absent", "waiting"}
  BY <1>1, <1>3 DEF Phase, Loaded, Waiting
<1> QED BY <1>4 DEF Lifecycle!Init, Lifecycle!TypeOK, Lifecycle!States, state

\* The interpreter implements the life of a class: whatever order the
\* initialisers come to use each other's classes in, each class is loaded once
\* and initialised at most once, and stays ready.
THEOREM LifecycleImplemented == Spec => LifecycleSpec
<1>1. ASSUME ClassInv, ClassInv', [Next]_vars
      PROVE  [Lifecycle!Next]_state
  BY <1>1, InvStepKinds, HaltsRefines, ContinuesRefines, ResumesRefines, ReturnToMainRefines,
     InvokesRefines, LoadsClassRefines, NativeClinitRefines, AddMainClassRefines, CallMainRefines
     DEF ClassInv
<1> QED BY <1>1, InitRefines, ClassInvariant, PTL DEF Spec, LifecycleSpec, Lifecycle!Spec
=============================================================================

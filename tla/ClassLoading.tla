---------------------------- MODULE ClassLoading ----------------------------
(***************************************************************************)
(* The life of classes in the interpreter.  main() loads the native ones,  *)
(* every other class is loaded in the middle of the instruction that needs *)
(* it, whose handler runs the <clinit> of the new class before it goes on. *)
(* That <clinit> may do the same, or come back to a class the initialiser  *)
(* of which is still suspended below it; nothing but the place where the   *)
(* handlers call add_class keeps it from being initialised again.          *)
(*                                                                         *)
(* Nothing is assumed here of the code of the programs, but that the class *)
(* on the command line is not one of those under java/ and that no invoke  *)
(* instruction names <clinit> (which the JVM specification forbids).  A    *)
(* class is in the heap under a name that depends on where it was read     *)
(* from, and is looked for under two.                                      *)
(***************************************************************************)
EXTENDS Interpreter

Methods(program) ==
    UNION {{program.classes[c].methods[m] : m \in DOMAIN program.classes[c].methods} :
             c \in DOMAIN program.classes}

\* Some instruction of the program assigns a string to a field of that name.
TakesString(f) ==
    \E m \in Methods(prog) : \E q \in DOMAIN m.code :
        m.code[q].op = "putfield" /\ m.code[q].arg.name = f /\ m.code[q].arg.desc = "String"

ASSUME ProgramsAssumption ==
    \A n \in DOMAIN Programs : LET p == Programs[n] IN
        /\ IsFiniteSet(p.natives)
        /\ p.natives \subseteq DOMAIN p.classes
        /\ p.main \in DOMAIN p.classes \ p.natives
        /\ \A m \in Methods(p) : \A q \in DOMAIN m.code :
             m.code[q].op \in {"invokestatic", "invokespecial", "invokevirtual"}
               => m.code[q].arg.name # "<clinit>"

\* The innermost activation and the suspended ones.
Called(i) == IF i = Len(callers) THEN frame ELSE callers[i + 1]
Activations == IF frame = Idle THEN {} ELSE {Called(i) : i \in 0 .. Len(callers)}

Initializes(f, c) == f.meth = "<clinit>" /\ f.clazz = c

Loaded(c) == \E i \in DOMAIN class_heap : class_heap[i] = c

\* Every loaded class is kept under one of the names it is looked for under.
NamesOK ==
    /\ Len(class_names) = Len(class_heap)
    /\ \A i \in 1 .. Len(class_heap) :
         class_names[i] \in {<<"", class_heap[i]>>, <<prog.prefix, class_heap[i]>>}

-----------------------------------------------------------------------------
\* No class is in the class heap twice, under one name or under two: a second
\* copy would have static fields of its own and run its <clinit> again (the
\* six copies of the look-up under the bare and the prefixed name, add_class).
LoadedOnce == \A i, j \in 1 .. Len(class_heap) : class_heap[i] = class_heap[j] => i = j

\* The code that runs belongs to loaded classes, and no class is initialised
\* by two activations at the same time, although <clinit> bodies trigger the
\* loading of other classes, which may in turn use the first.
ClinitNotReentered ==
    /\ \A f \in Activations : Loaded(f.clazz)
    /\ \A i, j \in 0 .. Len(callers) : \A c \in DOMAIN prog.classes :
         (Initializes(Called(i), c) /\ Initializes(Called(j), c)) => i = j

\* Every suspended activation is at an instruction that calls the next one: an
\* invoke that names it, or any that has to load its class and runs its
\* <clinit>.  The handler goes on from there (pc += 3, or the same again) when
\* the nested execute() returns.
Calls(f, g) ==
    LET i == Method(f.clazz, f.meth).code[f.pc]
    IN  /\ i.op \in Resolving /\ i.arg.clazz = g.clazz
        /\ IF g.via = "clinit" THEN g.meth = "<clinit>"
           ELSE i.op = g.via /\ i.arg.name = g.meth

CallersWait == \A i \in 1 .. Len(callers) : Calls(callers[i], Called(i))

-----------------------------------------------------------------------------
Classes == UNION {DOMAIN Programs[n].classes : n \in DOMAIN Programs}

\* The abstract state of a class: main() has not come to a native class yet,
\* or an activation initialises the class.
Waiting(c) == stage = "natives" /\ \E i \in booted + 1 .. Len(class_heap) : class_heap[i] = c

Phase(c) ==
    IF ~Loaded(c) THEN "absent"
    ELSE IF Waiting(c) THEN "waiting"
    ELSE IF \E f \in Activations : Initializes(f, c) THEN "initializing"
    ELSE "ready"

state == [c \in Classes |-> Phase(c)]

Lifecycle == INSTANCE ClassLifecycle

\* A class is loaded once and initialised at most once, by one activation of
\* its <clinit>, whatever the order in which the initialisers come to use each
\* other's classes; a class that was ready is never initialised afterwards.
LifecycleSpec == Lifecycle!Spec
=============================================================================

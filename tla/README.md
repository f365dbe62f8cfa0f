# A TLA+ development of PitifulVM

PitifulVM is a small Java virtual machine in C: it loads the class files under
`java/` and the one on its command line, interprets the bytecode of `main`, and
loads further classes as instructions name them. It checks almost nothing at
run time. It has no verifier, no bounds checks and no garbage collector, so
whatever it does right depends on agreements between handlers that may be a
thousand lines and several nested calls apart. This directory states those
agreements, checks them with TLC on small programs and proves the main ones
with TLAPS for all programs.

Paths and line numbers are those of the repository (`jvm.c:698`).

## Inventory

| Component | State | Operations | Correct when |
|---|---|---|---|
| Operand stack, `stack.c` | entries with a tag and a 64-bit union, `size`, `max_size` | `push_*`, `pop_int`, `pop_ref`, `top`, `pop_to_local` | no push leaves the allocated entries; each entry is read as what it was pushed as; integers fit their tags |
| Interpreter, `execute()` of `jvm.c` | per activation: method, class, `pc`, operand stack, locals | one `case` per opcode; recursive calls for methods and `<clinit>` | each handler leaves pc, stack and locals as the next instruction needs them, across nested calls; no assertion fails; programs end |
| Start-up and shutdown, `main()` of `jvm.c` | `prefix`, progress of the native loop | load, initialise, run `main`, free | each initialiser runs at most once; everything is freed once |
| Class heap, `class_heap.c` | loaded classes in loading order | `add_class`, `find_class_from_heap`, `load_native_class`, `free_class_heap` | a class is loaded once, initialised once |
| Object heap, `object_heap.c` | registered blocks | `create_*`, `find_field_addr`, `free_object_heap` | pointers reach live blocks, each block has one owner that frees it |
| Native methods, `native.c` | what is left of the input | `void_native_method`, `ptr_native_method` | results have the type the caller pushes, and are those of Java |
| Class file parser, `java_file.c` | the offset in the file; none after loading | `get_class`, the look-ups by index, `find_method`, `find_field`, `get_number_of_parameters` | what it builds is what the file says, and references resolve to what they name |
| Class library, `java/` | `System.out`, `System.in` | Java stubs of the native methods | |
| Tests and build | | `tests/*.java`, compared with a real JVM | |

**Interaction.** Everything runs in one thread of one process. A handler of
`execute()` that meets a class that is not loaded calls the parser, `add_class`,
and then `execute()` again for its `<clinit>`; invocations call `execute()` for
the callee. In the nested call the class and object heaps change under the
suspended handlers, which then go on with their own `pc` and operand stack.
Results come back as a tagged entry the caller pushes. Nothing is ever removed
from either heap before `main()` ends.

**What is hard.** Not concurrency but re-entrance: initialisers load classes
whose initialisers use classes that are being initialised. Not failure handling
but its absence: a wrong tag, a pop too few or a stray pointer is noticed much
later or never. The limits (100 classes, 5000 objects, `max_stack`) are never
compared with. Not parsing as such but its cursor: every index in a class file
depends on each constant, attribute and length before it having been passed
over by exactly its size. `PROJECT.json` lists the hazards at the lines where they bite.

## Modules

| Module | What it is |
|---|---|
| `OperandStack` | `stack.c` and `stack.h`, with the integer widths as constants |
| `Interpreter` | `execute()` and `main()`, the heaps and native results: the state machine |
| `Verifier` | the precondition: what a class file must be like for this VM |
| `ClassLifecycle` | abstract specification: what becomes of a class |
| `ClassLoading` | invariants of loading and initialisation, and the refinement of `ClassLifecycle` |
| `HeapSafety` | liveness of pointers, ownership of blocks |
| `TypeSafety` | type invariant, typed operands, stack bounds, assertions |
| `JavaMachine` | abstract specification: a Java virtual machine, as far as the supported opcodes go |
| `JavaRefinement` | the refinement of `JavaMachine` by `Interpreter` |
| `Claims` | what comments of the source say that the code does not do |
| `ClassFiles` | notation for writing small programs, and the class library |
| `MCInterpreter`, `MCAnyProgram`, `MCClaims` | the programs TLC runs |
| `ClassFileReader` | `get_class()` over the bytes of a file, the look-ups, `add_class()` and `free_class_heap()` for one class |
| `ClassFormat` | reference: what a class file says, and the bytes that say it |
| `ClassReading` | what the rest of the VM relies on when `get_class()` has returned |
| `CStrings` | the loops over C strings: concatenation, `compareTo`, `readLine`, the scan of a descriptor |
| `StringsLikeJava` | what Java says of them |
| `MCClassFiles`, `MCStrings` | the class files and the strings TLC runs |
| `ClassLoadingProofs`, `TypeSafetyProofs`, `HeapSafetyProofs`, `JavaProofs` | the proofs about the interpreter |
| `ClassReadingProofs`, `ReadsBackProofs`, `StringsProofs` | the proofs about the class file reader and the loops over strings |
| `SequenceLemmas` | what these need of sequences: concatenations, suffixes, induction over a set of numbers |

### How the model corresponds to the code

`frame` is the activation of the innermost `execute()`: its class and method,
`pc`, `op_stack`, `locals`, and `via`, which call in the C code it will return
to. `callers` is the C stack: the activations below. An activation stays at the
pc of the instruction that called, as in the code, where `pc += 3` follows the
nested `execute()`. `status` is who is in control (`boot`: `main()`, `run`:
`execute()`) or how the process ended: `exit`, `abort` (an assertion),
`error_exit` (`exit(1)`), `input_error` (the assertion on `scanf`), `segv` (a
null pointer), `fpe` (a trapped division), `undefined` (a wild access, a freed
block, a write past an allocation). `stage` and `booted` are the progress of
`main()`. `class_heap`, `class_names`, `object_heap` and `statics` are the
globals; `memory` holds the blocks `malloc` gave for Java objects. A class is
kept under a name that depends on where its file was, a directory and the name
of the class; `Found` is the look-up under the bare name and then under the one
with `prefix`.

There is one action per opcode handler (opcodes that differ in a constant
share one), and it models the whole handler. Two things are told apart that
are one handler in the code:

* *Class resolution* (`load_class`). The handlers of `getstatic`, `putstatic`,
  `new` and the invocations begin with the same forty lines. Up to the nested
  `execute()` of a `<clinit>` they have changed nothing but the heaps, so the
  action leaves the activation at the instruction, and when the initialiser has
  returned it is dispatched again, now with the class loaded. The effect is
  that of going on after the call. The six copies of the lines are one
  definition (`TargetFound` for the look-up, `load_class` for the rest), which
  looks at the opcode where a copy differs.
* *Returns*. `return_value`, `return_from_clinit`, ... are the return handler
  together with the rest of the handler that called.

A pointer is 0, the number of a block, or any other integer for a stray
address; a dereference that does not reach a block of the right kind and index
ends the process as `segv` or `undefined`. So do arguments that do not fit into
`own_locals` (`Room`: `max_locals` entries, or 20 for a native method). Memory the code does not initialise
(static fields, locals of an initialiser, array elements) has the tag `UNINIT`,
or a value of `Junk`. Results of native methods are any value of
`NativeResults`. A string is a block without content: texts are those of
`CStrings`. Instructions are decoded: `code` is a function from a pc to an
opcode and its argument. The places where the decoding itself is wrong
(`tableswitch`) are modelled by what they read.

The integer types are given by half their range (`ByteHalf` ... `LongHalf`), so
that the proofs hold for 2^7 ... 2^63 and TLC checks wrap-around with
2, 8, 128 and 32768.

`ClassFileReader` reads a file byte by byte. `file` is what `fopen()` found,
`pos` what `ftell()` returns, and `phase` the function and loop that runs, so
that an action is one function up to its loop, or one turn of a loop; `left`,
`attributes` and `arguments` are the loop counters. `cp` and `clazz` are the
structures as far as they are filled. `live` has one element for each block
allocated, and `to_free` what `free_class_heap()` still has to free, in its
order; a `free()` of a block that is not live ends as `undefined`. All numbers
are put together from bytes, in base `Base` (256 in the code), and those that
are kept in 16 or 32 bits wrap around. Two expressions of the code read and
change the same thing in an order C leaves open (`read_u2()` at
`java_file.c:13`, the pool at `java_file.c:250`); the model has the order the
compilers of the Makefile choose. The slot behind a `long` has a tag from
`JunkTags`, for what `malloc()` left there.

`CStrings` is one call and its answer. A string is the sequence of its bytes
before the zero. `phase` and `idx` are the loop that runs and its index;
`op_stack`, `all_string`, `max_len`, `new_str`, `num_params` and `result` are
the variables of those names in the code. A copy past the length computed
before, or a word that with its zero does not fit into the buffer, ends as
`undefined`. `Interpreter` takes each of these loops as one step, with any
string or number as its answer.

## The precondition

Most of what the VM does is right only for class files that `javac` produced.
`Verifier` states what that means here: each instruction is annotated with the
types of its operands and locals (the type map of the `StackMapTable`
attribute, which the VM skips), and `Verified(program)` is the local check of a
type-checking verifier. Restrictions that Java does not have, but this VM
needs, are marked `(VM)`: they are the exact places where the VM falls short.
Among them: a `long` parameter must be the last one; no array of references
as a parameter; no static `long` field; no inherited field or method; no
`tableswitch` at a pc divisible by four; native methods only those `native.c`
knows, with fewer than 20 parameters; the opcode must have a `case`.

`ClassLoading` needs none of this. It assumes only that the main class is not
one of the native ones and that no instruction invokes `<clinit>`, so its
theorems hold for programs that are wrong or unsupported in
any other way, up to the point where the process ends.

## Java as the abstract specification

`tests/` compares the output of this VM with that of a real one.
`JavaMachine` is what it is compared with: operands and variables are plain
values without tags, a `long` takes two variables, objects have no addresses,
there is no class heap, `invokevirtual` selects the method by the class of the
object, and a class is initialised, after its super class, by the first
instruction that needs it. An exception is never caught. The mapping of
`JavaRefinement` drops the tags, gives each entry the value its type in the
type map can see, takes the blocks of `memory` for the objects, and the
classes whose `<clinit>` has been entered for those that have begun. So
`ImplementsJava` relates each handler to an independent definition of its
instruction, and goes wrong when a handler computes another value, calls
another method, puts an argument elsewhere, initialises a class at another
time, or ends the process where Java does not throw.

Java says more than `JavaMachine` in three places: what was never assigned is
0, native methods return something definite, and the argument of `main` is not
null. In the other direction, the VM departs from Java on programs that
`Verifier` accepts. `CommonGround` of `JavaRefinement` is the complete list: a
condition on states which says that what comes next is none of these.

* *Numbers* (`NumbersAgree`). `i2c` and static `char` fields keep eight bits and
  a sign (`jvm.c:538`, run `int_to_char`), static `boolean` fields more than one
  bit; `MIN / -1` ends the process (`jvm.c:582`; the program `overflow` of
  `any_program` has it); `tableswitch` misreads an upper bound.
* *Objects* (`ObjectsAgree`). A negative size and the heap's 5000 entries are
  compared with nothing; the dimensions of an array are swapped unless they are
  equal (run `dimensions`); a null string in a concatenation is a null pointer
  in C; a field of a super class is not part of the object (run
  `inherited_field`); a reference to a block of another kind, which `Verifier`
  does not exclude, is not found out.
* *Classes* (`ClassesAgree`, `MainAgrees`). The super class of a class is not
  initialised with it (`jvm.c:728`); neither `invokestatic` (`jvm.c:121`) nor the
  use of a native class before `main()` comes to it initialises anything; no
  other class can be loaded until then; a 101st class does not fit; strings and
  bootstrap arguments may be freed twice at the end.
* *Calls* (`CallsAgree`). `invokevirtual` calls the method of the static class
  (`jvm.c:1432`, run `dispatch`), and runs it on a null receiver (`jvm.c:1443`);
  a `long` that is not the last parameter takes one slot instead of two; a
  static native method that returns a `char` returns eight bits of it.

That the list is complete is a theorem (`ImplementsJavaHolds`), and that it
leaves enough is what `interpreter` checks: its programs stay inside
`CommonGround` in every state. Of the departures themselves `ImplementsJava`
says nothing: that `MIN / -1` traps, that `invokestatic` initialises nothing and
that a method runs on a null receiver are modelled, and no property rules them
out.

## What is checked

| Run | What it runs over | Properties | Distinct states |
|---|---|---|---|
| `interpreter` | 18 verified programs after `tests/*.java` | `TypeOK`, `OperandsTyped`, `StackInBounds`, `NoAssertionFails`, `PointersLive`, `StaticReadsLive`, `CommonGround`, `Terminates`, `ImplementsJava` | 7824 |
| `any_program` | some 40 programs outside the subset or at the limits | `LoadedOnce`, `ClinitNotReentered`, `CallersWait`, `OwnedOnce`, `LifecycleSpec` | 640 |
| `class_files` | 11 classes as files, five of them also cut off after every byte, and 4 altered files | `TypeOK`, `ReadsBack`, `ReferencesResolve`, `MethodsFound`, `FreedOnce`, `WholeFilesLoad` | 40619 |
| `strings` | all short calls of the four functions | `TypeOK`, `ConcatenatesLikeJava`, `ComparesLikeJava`, `ReadsLines`, `ParametersCounted` | 29859 |

Of the interpreter:

* `TypeOK`: every variable has its type; every integer on an operand stack and
  in a local fits the C type its tag names.
* `OperandsTyped`: the running activation, and every suspended one with the
  result it waits for, has the operands and locals its code expects. This is
  what makes `pop_int` and `pop_ref`, which trust the tag or nothing, right.
* `StackInBounds`: no push runs past `max_stack`, which the pushes do not look at.
* `NoAssertionFails`: no `assert` of `jvm.c` fails and `exit(1)` is not reached.
  The one of `native.c` fails at the end of the input (`input_error`), which no
  program can prevent.
* `PointersLive`: every reference on a stack, in a local variable, a field or a
  row table is null or a live block.
* `StaticReadsLive`: what is read from a static reference field has been
  assigned. `get_class()` leaves static fields uninitialised, so this is all
  that keeps their junk off the stack; it is a hypothesis of the proof of
  `PointersLive`, and holds of the programs of this run because each initialises
  the static references it reads, which goes wrong when an initialiser is not
  run.
* `Terminates`: the programs end. They contain the loops, recursion and switches
  of the tests, so a handler that loses a counter or a pc shows here. In
  `countdown` the counter came in as a parameter, so that `iinc` works on a
  variable `pop_to_local` has tagged as a `long`.
* `ImplementsJava`: every step is one `JavaMachine` may take.
* `CommonGround`: no step that is ahead is one of the departures from Java. It
  is the hypothesis of the proof of `ImplementsJava`, and goes wrong when, say,
  a search misses a class that is loaded, so that it is loaded once more in the
  wrong place.
* `LoadedOnce`, `ClinitNotReentered`, `CallersWait`: no class twice, under its
  bare name or with the directory of the main class; no class
  initialised by two activations; every suspended activation waits at the
  instruction that called the next.
* `LifecycleSpec`: the interpreter implements `ClassLifecycle`, by the mapping
  `state` of `ClassLoading`: each class goes from absent or waiting to
  initializing to ready, or straight to ready, and never back.
* `OwnedOnce`: every block has exactly one owner, an entry of `object_heap` or
  the array it is a row of; and `free_object_heap()` comes to it in no other
  way, unless some instruction assigns a string to a field that is the first of
  a class (`StringsFirst`): that string is freed with the object, and again
  (`object_heap.c:147`).

Of the class file reader:

* `ReadsBack`: a class that is returned is the one the file was written from:
  names, interfaces, fields, methods, code and bootstrap methods. It holds for
  truncated files too: `fseek()` succeeds past the end of a file, so that a
  file cut off inside the last attribute loads, but never as another class.
* `ReferencesResolve`: each constant an instruction can name resolves to the
  names, the text or the bootstrap method it stands for, and an index that
  stands for nothing of the kind (no member, no class, no string, no call site)
  fails an assertion or ends at a null pointer,
  the second slot of a `long` included, whatever tag its memory holds.
* `MethodsFound`: a reference to a method of the class itself finds that one of
  the overloaded methods that has the descriptor.
* `FreedOnce`: `free_class_heap()` frees what `get_class()` and `add_class()`
  allocated, all of it, and nothing twice. The premise, one argument for each
  bootstrap method, is what string concatenation has and lambda expressions
  have not (`class_heap.c:101`); and no method may take its name from the slot
  behind a `long`, which could end the list of methods before its end
  (`class_heap.c:86`), so that the code of the others is never freed.
* `WholeFilesLoad`: a whole and supported file is loaded in the end.
* `TypeOK` has the two bounds a file can break: fewer constants than a `u2`
  counts, and none behind the last.

Of the strings:

* `ConcatenatesLikeJava`: the result is the recipe with each placeholder
  replaced by its operand, the buffer is exactly filled, and the operands below
  stay where they are. The code pops the operands last first and puts them in
  from the end of its array.
* `ComparesLikeJava`: two strings that differ within the shorter one compare as
  in Java, and a string that is not empty equals itself. When one is the
  beginning of the other the answer is 0, and when one is empty whatever the
  variable held (`native.c:81`); Java's is the difference of the lengths.
* `ReadsLines`: as long as each line is one word shorter than the buffer,
  `readLine` returns one line after the other. A longer word is written past
  the buffer by its zero, and white space splits a line (`native.c:33`): a
  blank, a tab or any other of the bytes for which `isspace()` holds.
* `ParametersCounted`: each parameter counts once, whatever class names it is
  spelt with; an array of strings counts 18, the number `Interpreter` uses.

Each of these properties is violated by a plausible slip in one mapped
definition; the modules keep those mutants beside the definitions
(`istore_peeks`, `Call_advanced`, ...), where nothing else uses them.

**Bounds.** A TLC run of the interpreter is a set of programs, all checked in
one state space. A program has no input but native results and uninitialised memory, both
nondeterministic here, so an exploration covers all its behaviours. The
18 programs use every opcode with a `case`, nested calls three deep, two
initialisers at once, all six comparisons on values at the edges of int and
long, and every kind of field, array and native result the subset has.
`any_program` sets `MaxClasses` to 5 and `MaxObjects` to 3 so that both heaps
fill up, and covers what `interpreter` cannot: rings and chains of
initialisers, missing files and methods, too few local variables for the
arguments, every assertion, unsupported opcodes,
null and stray pointers, misaligned switches, double frees at shutdown.
Together the two runs take every branch of every action. Nothing else is
bounded: the state spaces are finite because the programs are.

`class_files` has 32 values for a byte instead of 256, which shortens nothing
but the texts: a `u2` has two digits and a `u4` four, and the code compares
bytes with nothing but tags, at most 18, and the bytes of names. The largest
file has constants of all eleven tags, a `long` before, between and behind
those that are referred to, overloaded methods, a native one, attributes of no
interest before and after Code and BootstrapMethods, and two bootstrap
methods, so that each loop makes no, one and several turns in some file. That
file, three smaller ones (a lambda, one method, one field) and one with a
constant of an unknown tag are cut off after every byte; the others have what no compiler writes (a name that is not a text, two Codes in a
method), a pool that counts 0 or ends inside a `long`, and names that refer to
the second slot of one.

`strings` has every recipe of at most three characters, with every choice for
each operand from an empty string, another string, null, a negative int and a
`long` of three digits, with and without an operand below; all pairs of
strings of at most three from three letters; all inputs of three lines from seven
kinds, one with a blank and one with a tab, with a buffer of 4 instead of 50; all descriptors of three parameters
from five kinds. The loops of these functions keep nothing from one turn to
the next but an index and a counter, so that three turns show what they do.
All bytes are ASCII: the code subtracts `char`s, which have a sign.

**Fairness.** Only `Terminates`, `WholeFilesLoad` and one claim need it:
`FairSpec` adds `WF_vars(main \/ execute)` to the interpreter and
`WF_vars(Step)` to the class file reader. The VM is one thread that never
blocks except in `scanf`, so that it takes another step whenever it can is what the operating
system provides. Handlers that loop for ever without changing anything
(`no_case`, the search for a field) are stuttering steps; weak fairness does
not make them go on. No program of `interpreter` reaches one.

Deadlock is checked in all runs: a state without a step would be a state the
model forgot. `ended` lets a finished process stutter.

## What does not hold

Eight runs end in a counterexample. Each checks what a comment or an assertion
in the source says of one piece of code (`Claims`, and `MethodsHaveCode` in
`ClassReading`), with one small program or the class files above.

| Run | Comment or assertion | What happens |
|---|---|---|
| `dispatch` | `jvm.c:1380` "dispatch based on class" | the method of the static class is called; no virtual dispatch |
| `dimensions` | `object_heap.c:51` "first dimension size" | `new int[2][3]` has 3 rows of 2 |
| `int_to_char` | `jvm.c:535` "Convert int to char" | 8 bits with a sign are kept |
| `inherited_field` | `jvm.c:1029` "find from super class" | the loop repeats the search that failed, for ever |
| `parameters` | `java_file.c:81` "number of integer parameters" | `[Ljava/lang/String;` counts as 18 |
| `table` | `jvm.c:650` "Access jump table by index and jump" | at a pc divisible by 4 the operands are read one word early |
| `objects` | `object_heap.c:5` "max contain 5000 object" | nothing compares; the next one is written past the end |
| `missing_code` | `java_file.c:413` "Missing method code" | `access_flags \| ACC_NATIVE` is never 0: a method without code is loaded |

`any_program` reaches more that no comment speaks of, each an outcome
`undefined`, `segv` or an endless loop in the model: a string that is the first
field of an object is freed twice at shutdown (`object_heap.c:148`), and so are
the arguments of a bootstrap method with more than one (`class_heap.c:101`);
`invokestatic` loads a class but never initialises it (`jvm.c:121`); a native
initialiser that needs a class outside `java/` dereferences the null `prefix`;
a static field two super classes up is searched for ever.

## What is proved

All theorems are of `Spec`, without fairness, for every value of the constants
that satisfies the named assumptions. TLC evaluates each of them on the runs of
the module that has it.

* Of the interpreter: `WidthsAssumption` (the widths are positive and ordered),
  `BoundsAssumption` (limits are naturals), `WorldAssumption` (junk exists, and
  is integers), `ProgramsAssumption` (above), evaluated by both of its runs;
  `VerifiedPrograms`, for `TypeSafety` and the heap, and `WordsAssumption`, for
  `JavaProofs` (a `long` is a whole number of `int`s), by `interpreter`.
* Of the reader: `BaseAssumption` (the tags fit a byte) and `FilesAssumption` (a
  file is made of bytes). Nothing is assumed of what the bytes say; the theorems
  of `ReadsBackProofs` are about the files that are `Genuine` (below).
* Of the strings: that a call has bytes for strings and operands for its
  placeholders (`StringsAssumption`, `ConcatAssumption`, `CompareAssumption`,
  `ReadAssumption`), that an input is lines with their ends
  (`LinesAssumption`) and a descriptor types in parentheses
  (`DescriptorAssumption`).

| Theorem | Module | States |
|---|---|---|
| `LoadedOnceHolds`, `ClinitNotReenteredHolds`, `CallersWaitHolds` | `ClassLoadingProofs` | the invariants of the same names |
| `LifecycleImplemented` | `ClassLoadingProofs` | `Spec => LifecycleSpec` |
| `TypeOKHolds`, `OperandsTypedHolds`, `StackInBoundsHolds`, `NoAssertionFailsHolds` | `TypeSafetyProofs` | the invariants of the same names |
| `OwnedOnceHolds` | `HeapSafetyProofs` | `OwnedOnce`, for verified programs; of a string in a first field only that it has one owner |
| `PointersLiveHolds` | `HeapSafetyProofs` | `PointersLive`, where `FieldsAgree` and `[]StaticReadsLive` hold |
| `ImplementsJavaHolds` | `JavaProofs` | `Spec /\ []CommonGround => ImplementsJava`, where `FieldsAgree` holds |
| `ReaderTypeOK`, `FreedOnceHolds` | `ClassReadingProofs` | `TypeOK` and `FreedOnce` of `ClassReading` |
| `ReadsBackHolds`, `ReferencesResolveHolds`, `MethodsFoundHolds` | `ReadsBackProofs` | `ReadsBack`, `ReferencesResolve` and `MethodsFound`, where the file is `Genuine` |
| `StringsTypeOK`, `ConcatenatesHolds`, `ComparesHolds`, `ReadsLinesHolds`, `ParametersCountedHolds` | `StringsProofs` | `TypeOK`, `ConcatenatesLikeJava`, `ComparesLikeJava`, `ReadsLines`, `ParametersCounted` |

**Classes.** None of the three invariants is inductive. That an initialiser is
not entered again follows from its class being in the heap already, which needs
that every activation runs code of a loaded class, which needs that an
instruction that calls has resolved its class; and that a class main() still
has to initialise is not being initialised needs to know what main() has done.
`ClassInv` is the conjunction that closes this circle: `HeapInv` (the class heap
is a sequence of known classes, the main class is absent until main() adds it),
`NamesInv` (each class is kept under one of the two names it is looked for
under, so that a search that finds nothing means that it is not there),
`LoadedOnce`, `ActivationsInv` (activations run loaded methods), `CallersWait`
and `InitializedOnce` (one activation per initialised class, and none for a
class that still waits). Steps are first sorted by what they do to the
activations: nine kinds (`Halts`, `Continues`, ...) for more than fifty
actions. Each kind is then shown to preserve `ClassInv`, and, for
`LifecycleImplemented`, to be a step or a stutter of `ClassLifecycle`.

**Types.** `SafeInv` adds to `ClassInv` that the heaps are well typed, that no
assertion has failed, and `ActivationsOK`: every activation runs a verified,
non-native method at one of its instructions; the running one has the operands
and locals of the type map; a suspended one has those of the instruction after
the call, less the result; and the bottom one was called by main(), so that it
returns nothing (`BottomOK`). The proof has one lemma per group of handlers
(`PushesSafe`, `IincSafe`, `PutfieldSafe`, ...), which combines the rule of the
instruction in `Verifier` with what the handler does. `StackInBounds` and
`OperandsTyped` follow: stacks have the height the type map says. That the
arguments of a call fit into `own_locals`, and that the pops find them, is
`ArgumentsHaveRoom`.

`SignedInRange` (`ClassLoadingProofs`) has the arithmetic: a conversion gives a
value in range.

**Heap.** `OwnedOnce` counts owners, and a count is awkward to carry through a
step. `OwnedInv` says instead that each block has an owner which is the only
one, and that what `object_heap` and the arrays of arrays point to is allocated;
so a new block cannot have an owner already. Handlers are sorted by what they do
to the heap: nothing, a write to a cell, a new entry, a new array with its
rows, of which `malloc` may have refused some. That nothing is freed with an
object (`FreedWithFirst`) is from `SafeInv`: a field holds a string only if some
instruction assigns one to a field of that name. `PointersInv` says that each entry
with the tag of a reference is a number of a block or 0. It needs
`SafeInv`, because the handlers of references look at no tags: that
`putfield` stores a reference where the field is one is what `OperandsTyped` says.
Two things that Java guarantees are hypotheses here. `Verifier` has one type for
all references, so that the class of the object a field is taken from is not
known; `FieldsAgree` says that fields of one name have one descriptor in all
classes of the program. And static fields are not initialised
(`StaticReadsLive`, above). TLC evaluates both on `interpreter`.

**Java.** `ImplementsJavaHolds` says that the departures listed above are all:
as long as none of them is ahead, every step of the interpreter is one that
`JavaMachine` may take. The refinement mapping reads types off the type map, so
the proof rests on `SafeInv`: what an entry stands for in Java is its value
because its tag is one the type map allows (`SeenOperand`), and that the C code
wraps and truncates is Java's arithmetic because of that (`CalculatedIs`,
`QuotientIs`, `AddedSeen`, where `iinc` changes the low word of a `long` local). There is one lemma
for each of Java's actions (`StoresRefine`, `MultianewarrayRefines`,
`LoadingRefines`, `ReturnsRefineJava`, ...), on top of a few about the shape of
a step: the running activation goes on (`ContinueIs`, `YieldIs`), blocks become
objects (`CreatesIs`, `CellIs`), an activation begins with the variables its
first instruction can use (`EntryIs`, `ParametersSeen`) and is gone back to
with those it had (`ResumedIs`, `CallerSeen`). `JavaInv` is what `SafeInv` does
not have: the classes that have statics are those in the heap, which makes
`load_class` Java's initialisation, and a field of an object holds a value that
fits its descriptor (`ObjectsFit`), so that `getfield` pushes what `putfield`
stored. The places where the handlers end the process are either excluded by
`Verifier` (`StaticLookupFinds`, `InvokesSucceed`) or throw in Java.

**Class file reader.** `ReadingInv` is the conjunction of `Typed` (what has been
read has the types of `java_file.h`), `Phased` (a loop that runs has turns left;
the pool has as many constants as were counted once its loop is over), `Held`
(until freeing begins, the blocks allocated are those that the structures read so
far account for: a function of `phase`, the pool and the class) and
`Freeing` (`to_free` lists the live blocks, none twice). `Held` is what makes
`Freeing` true at the step that begins it: `FreeOrder`, which follows the code of
`free_class_heap()`, is a concatenation of parts each of which lists blocks of
one kind (`ListsBoth`, `ListsKinds`, `ListsTables`), and together they are `Allocated`. After
that each `free()` takes the head of the list off both.

**What is read is what was written.** `ReadsBack` compares the class in memory
with the one the file was made from, at the end; nothing in it says why. The
invariant is `AgreeInv`: while `get_class()` reads a genuine file, `Agree` holds
of the class. It has a part for each table, which says how many of its entries
are read, by what is left of the loop (`Filled`), and that these agree; the
pool (`PoolUpto`) also says which slots are empty, those behind longs; methods
that the code is the one of the first `Code` among the attributes passed so far
(`CodeUpto`); and bootstrap methods that they are those of the first such
attribute. The last part is `Ahead`: from `pos` on the file has the encoding of
what is still to come, so that the next bytes are of the next entry. Each action
has a lemma: the bytes at `pos` are the first entry of what is ahead
(`RestFirst`), reading them inverts `U2`, `U4`, `Counted` and `Sized` (`ReadTwo`,
`ReadFour`, `ReadBytes`), and what follows them is ahead of the new `pos`. Since
`At` speaks of bytes only as far as the file goes, this holds of a file that was
cut off: a step either reads what is there or stops. `fseek()` is the exception:
it may go past the end, where nothing is said of bytes and every further read
stops. `IndexNext` and `IndexOrder` are about the gaps longs leave in the
numbering.

*Genuine* means two things. The file agrees with `Encode(d)` as far as it goes:
other files describe no class they could be compared with (`class_files` has
four). And `d` can be written at all (`Formed`): numbers fit their fields,
constants refer to constants of the right kind, and an attribute has the name
of a kind if and only if it is of the kind. That names of members are texts,
that tags are known and that a method has one `Code` is not part of it: where
these fail, the reader stops or takes the first, which the proof covers. TLC
evaluates `Formed` for each class of `class_files` (`ClassesFormed`).

**Strings.** `StringsInv` has one part for each function, which says what its
loops have done so far in terms of the call: `ConcatInv` how many operands are
popped, that they are in `all_string` in reverse, and that `max_len` is the
length of exactly those texts, and what the bytes copied so far are;
`CompareInv` that all bytes before `idx` agree; `ReadInv` that the input left is
that of the lines not yet returned; `CountInv` that the scan is at a type or
inside the name of one, with as many counted as types are behind it. All are
about sequences of any length, so that the proofs need what `SequenceLemmas`
has: the concatenation of the first k elements as a function of k
(`Concatenations`), and induction for a *set* of numbers (`SetInduction`, from
the well-foundedness of the naturals), since the library's induction over a
predicate is out of the provers' reach.

## What is only model-checked, and what is left out

* *Only model-checked:* `StaticReadsLive` and `CommonGround`, which are hypotheses
  about programs; that the altered files of `class_files`
  load, if at all, as the class they were made from; the
  liveness properties `Terminates` and `WholeFilesLoad` (liveness under fairness
  is out of the prover's reach); and the outcomes of programs outside the subset.
* *Composition:* `Interpreter` starts from decoded classes and takes strings for
  blocks. That `ClassFileReader` gives it those classes, and `CStrings` those
  counts, is by `ReadsBack`, `ReferencesResolve` and `ParametersCounted`, not by
  a module that has both: the product of a file's bytes and a program's
  behaviours shows nothing that neither of them shows.
* *Not modelled:* what is printed; `atoll` and the clock; the index of `charAt`,
  which is compared with no length; chars and booleans in a concatenation, which
  become numbers (`jvm.c:1266`); bytes from 128 on; a directory of the main
  class that is itself part of class names; failure of `malloc`; the memory of
  `execute()` itself. C's own stack is unbounded. The build has no run-time
  behaviour, beyond leaving assertions compiled in.
* *Loops inside handlers* of `Interpreter` are one step: scans of the heaps and
  of descriptors, and the string loops.

## Plan

1. Shutdown as a sequence of frees of both heaps, with the conditions under
   which nothing is freed twice.
2. One program for which a file under the directory of the main class has the
   name of a class under `java/`.

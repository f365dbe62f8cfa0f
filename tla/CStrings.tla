------------------------------ MODULE CStrings ------------------------------
(***************************************************************************)
(* The loops of the VM over zero-terminated strings, which Interpreter     *)
(* takes as one step or as any value: string concatenation (invokedynamic  *)
(* in jvm.c), the count of the parameters in a descriptor (java_file.c),   *)
(* and compareTo and readLine of native.c.                                 *)
(*                                                                         *)
(* A string is the sequence of its bytes before the zero, a text the bytes *)
(* of a constant.  Every behaviour is one call and its answer.             *)
(***************************************************************************)
EXTENDS Integers, Sequences, FiniteSets

CONSTANTS
    Calls,      \* what is called: [op, ...], see the first action of each
    Unassigned, \* what an int that was never assigned may hold
    Width       \* readLine's buffer, and the most scanf() reads: 50

ASSUME StringsAssumption ==
    /\ \A c \in Calls : c.op \in {"concat", "compareTo", "readLine", "parameters"}
    /\ Unassigned # {} /\ Unassigned \subseteq Int
    /\ Width \in Nat \ {0}

VARIABLES
    call,       \* the call
    phase,      \* the loop that runs, or how the call ended
    idx,        \* where it is
    op_stack,   \* the operands of a concatenation, the last one on top
    all_string, \* their texts, the first one taken from the stack first
    num_params, \* placeholders that are left, or parameters found
    max_len,    \* the length computed for the result
    new_str,    \* the result so far
    result,     \* the local variable of compareTo
    input,      \* what is left of the standard input
    lines       \* what readLine has returned

vars == <<call, phase, idx, op_stack, all_string, num_params, max_len, new_str, result, input, lines>>

NULL == <<-1>>
Ended == {"done", "segv", "abort", "undefined"}

-----------------------------------------------------------------------------
Zero == 48
Minus == 45
Placeholder == 1    \* \u0001 in a recipe
Blank == 32
Tab == 9
Newline == 10
CarriageReturn == 13

\* snprintf("%ld"): the digits of n, the last one last.
Digits(n) ==
    LET of[k \in 0 .. n] == (IF k < 10 THEN <<>> ELSE of[k \div 10]) \o <<Zero + (k % 10)>>
    IN  of[n]

Decimal(n) == IF n < 0 THEN <<Minus>> \o Digits(-n) ELSE Digits(n)

-----------------------------------------------------------------------------
\* Concatenation: [op, recipe, operands].  The recipe is the text of the one
\* bootstrap argument.
Placeholders(recipe) == Cardinality({k \in DOMAIN recipe : recipe[k] = Placeholder})

Byte == 1 .. 127
Operand == [type : {"REF"}, value : Seq(Byte) \cup {NULL}]
           \cup [type : {"BYTE", "SHORT", "INT", "LONG"}, value : Int]

\* javac gives each placeholder an operand.
ASSUME ConcatAssumption ==
    \A c \in Calls : c.op = "concat" =>
      /\ c.recipe \in Seq(Byte) /\ c.operands \in Seq(Operand)
      /\ Placeholders(c.recipe) <= Len(c.operands)

count_placeholders ==
    /\ phase = "concat"
    /\ num_params' = Placeholders(call.recipe)
    /\ phase' = IF num_params' = 0 THEN "constants" ELSE "operands"
    /\ UNCHANGED <<call, idx, op_stack, all_string, max_len, new_str, result, input, lines>>

operand == op_stack[Len(op_stack)]
IsNull(e) == e.type = "REF" /\ e.value = NULL

\* The text of the operand on top.  An operand is a number of any width, or a
\* reference; strlen(NULL) ends the process.
pop_operand ==
    /\ phase = "operands" /\ ~IsNull(operand)
    /\ LET text == IF operand.type = "REF" THEN operand.value ELSE Decimal(operand.value)
       IN  all_string' = Append(all_string, text) /\ max_len' = max_len + Len(text)
    /\ op_stack' = SubSeq(op_stack, 1, Len(op_stack) - 1)
    /\ phase' = IF Len(all_string') = num_params THEN "constants" ELSE phase
    /\ UNCHANGED <<call, idx, num_params, new_str, result, input, lines>>

null_operand ==
    /\ phase = "operands" /\ IsNull(operand)
    /\ phase' = "segv"
    /\ UNCHANGED <<call, idx, op_stack, all_string, num_params, max_len, new_str, result, input, lines>>

\* max_len += num_constant, and the buffer is allocated.
add_constants ==
    /\ phase = "constants"
    /\ max_len' = max_len + Len(call.recipe) - num_params
    /\ phase' = "copy" /\ idx' = 0
    /\ UNCHANGED <<call, op_stack, all_string, num_params, new_str, result, input, lines>>

\* A copy past the end of the buffer, which has room for max_len bytes.
Copied(text) ==
    /\ new_str' = new_str \o text /\ idx' = idx + 1
    /\ phase' = IF Len(new_str') > max_len THEN "undefined" ELSE phase

\* Mutant of copy_argument: the texts are used in the order they were popped.
copy_argument_forward ==
    /\ phase = "copy" /\ idx < Len(call.recipe) /\ call.recipe[idx + 1] = Placeholder
    /\ num_params' = num_params - 1
    /\ Copied(all_string[Len(all_string) - num_params'])
    /\ UNCHANGED <<call, op_stack, all_string, max_len, result, input, lines>>

\* strcat(new_str, all_string[--num_params]).
copy_argument ==
    /\ phase = "copy" /\ idx < Len(call.recipe) /\ call.recipe[idx + 1] = Placeholder
    /\ num_params' = num_params - 1
    /\ Copied(all_string[num_params' + 1])
    /\ UNCHANGED <<call, op_stack, all_string, max_len, result, input, lines>>

\* Mutant of copy_constant: every character of the recipe counts as an argument.
copy_constant_counted ==
    /\ phase = "copy" /\ idx < Len(call.recipe) /\ call.recipe[idx + 1] # Placeholder
    /\ num_params' = num_params - 1
    /\ Copied(<<call.recipe[idx + 1]>>)
    /\ UNCHANGED <<call, op_stack, all_string, max_len, result, input, lines>>

copy_constant ==
    /\ phase = "copy" /\ idx < Len(call.recipe) /\ call.recipe[idx + 1] # Placeholder
    /\ Copied(<<call.recipe[idx + 1]>>)
    /\ UNCHANGED <<call, op_stack, all_string, num_params, max_len, result, input, lines>>

push_result ==
    /\ phase = "copy" /\ idx = Len(call.recipe)
    /\ op_stack' = Append(op_stack, [type |-> "REF", value |-> new_str])
    /\ phase' = "done"
    /\ UNCHANGED <<call, idx, all_string, num_params, max_len, new_str, result, input, lines>>

-----------------------------------------------------------------------------
\* compareTo: [op, str, str2].  result is assigned in the loop only.
ASSUME CompareAssumption ==
    \A c \in Calls : c.op = "compareTo" => c.str \in Seq(Byte) /\ c.str2 \in Seq(Byte)
Shorter == IF Len(call.str) < Len(call.str2) THEN Len(call.str) ELSE Len(call.str2)

\* Mutant of compareTo: the last byte of the shorter string is not compared.
compareTo_short ==
    /\ phase = "compareTo"
    /\ IF idx < Shorter - 1
       THEN /\ result' = call.str[idx + 1] - call.str2[idx + 1]
            /\ idx' = idx + 1
            /\ phase' = IF result' # 0 THEN "done" ELSE phase
       ELSE phase' = "done" /\ UNCHANGED <<result, idx>>
    /\ UNCHANGED <<call, op_stack, all_string, num_params, max_len, new_str, input, lines>>

compareTo ==
    /\ phase = "compareTo"
    /\ IF idx < Shorter
       THEN /\ result' = call.str[idx + 1] - call.str2[idx + 1]
            /\ idx' = idx + 1
            /\ phase' = IF result' # 0 THEN "done" ELSE phase
       ELSE phase' = "done" /\ UNCHANGED <<result, idx>>
    /\ UNCHANGED <<call, op_stack, all_string, num_params, max_len, new_str, input, lines>>

-----------------------------------------------------------------------------
\* readLine: [op, input].  scanf("%50s") passes over blanks, which are the bytes
\* isspace() names, then takes what is not blank, at most Width bytes, and
\* stores a zero behind it.
Blanks == (Tab .. CarriageReturn) \cup {Blank}

ASSUME ReadAssumption == \A c \in Calls : c.op = "readLine" => c.input \in Seq(Byte)

Longest(n, Holds(_)) == CHOOSE k \in 0 .. n : Holds(k) /\ \A j \in 0 .. n : Holds(j) => j <= k

skipped == Longest(Len(input), LAMBDA k : \A j \in 1 .. k : input[j] \in Blanks)
\* Mutant of word: room for the zero is kept twice.
word_narrow ==
    LET rest == SubSeq(input, skipped + 1, Len(input))
        bound == IF Len(rest) < Width - 2 THEN Len(rest) ELSE Width - 2
    IN  SubSeq(rest, 1, Longest(bound, LAMBDA k : \A j \in 1 .. k : rest[j] \notin Blanks))

word == LET rest == SubSeq(input, skipped + 1, Len(input))
            bound == IF Len(rest) < Width THEN Len(rest) ELSE Width
        IN  SubSeq(rest, 1, Longest(bound, LAMBDA k : \A j \in 1 .. k : rest[j] \notin Blanks))

\* One call; the program calls again.
readLine ==
    /\ phase = "readLine" /\ word # <<>>
    /\ lines' = Append(lines, word)
    /\ input' = SubSeq(input, skipped + Len(word) + 1, Len(input))
    /\ phase' = IF Len(word) + 1 > Width THEN "undefined" ELSE phase
    /\ UNCHANGED <<call, idx, op_stack, all_string, num_params, max_len, new_str, result>>

\* assert(ret > 0): the input has ended.
end_of_input ==
    /\ phase = "readLine" /\ word = <<>>
    /\ phase' = "abort"
    /\ UNCHANGED <<call, idx, op_stack, all_string, num_params, max_len, new_str, result, input, lines>>

-----------------------------------------------------------------------------
\* get_number_of_parameters(): [op, descriptor], with a letter or a part of a
\* name that is read like one in each place.
letter(i) == call.descriptor[i + 1]
First(i, Is(_)) == CHOOSE j \in i .. Len(call.descriptor) - 1 :
                     Is(letter(j)) /\ \A k \in i .. j - 1 : ~Is(letter(k))

after_class(i) == IF letter(i) = "L" THEN First(i, LAMBDA c : c = ";") ELSE i

\* Mutant of after_dimensions: every dimension counts.
after_dimensions_each(i) == i

\* Behind the dimensions of an array is one letter: that of a class is taken
\* for a parameter, and so are those of its name that follow.
after_dimensions(i) ==
    IF letter(i) # "[" THEN i
    ELSE LET j == First(i, LAMBDA c : c # "[") IN IF letter(j) = ")" THEN j - 1 ELSE j

count_parameter ==
    /\ phase = "parameters" /\ letter(idx) # ")"
    /\ idx' = after_dimensions(after_class(idx)) + 1
    /\ num_params' = num_params + 1
    /\ UNCHANGED <<call, phase, op_stack, all_string, max_len, new_str, result, input, lines>>

parameters_counted ==
    /\ phase = "parameters" /\ letter(idx) = ")"
    /\ phase' = "done"
    /\ UNCHANGED <<call, idx, op_stack, all_string, num_params, max_len, new_str, result, input, lines>>

-----------------------------------------------------------------------------
Init ==
    /\ call \in Calls
    /\ phase = call.op
    /\ idx = IF call.op = "parameters" THEN 1 ELSE 0
    /\ op_stack = IF call.op = "concat" THEN call.operands ELSE <<>>
    /\ input = IF call.op = "readLine" THEN call.input ELSE <<>>
    /\ result \in Unassigned
    /\ num_params = 0 /\ max_len = 0
    /\ all_string = <<>> /\ new_str = <<>> /\ lines = <<>>

concatenate == \/ count_placeholders \/ pop_operand \/ null_operand \/ add_constants
               \/ copy_argument \/ copy_constant \/ push_result

Step == \/ concatenate \/ compareTo \/ readLine \/ end_of_input
        \/ count_parameter \/ parameters_counted

ended == phase \in Ended /\ UNCHANGED vars

Spec == Init /\ [][Step \/ ended]_vars
=============================================================================

-------------------------- MODULE StringsLikeJava --------------------------
(***************************************************************************)
(* What Java says of the strings CStrings works on.  A call says beside    *)
(* its C arguments what they stand for: the types of a descriptor, the     *)
(* lines of the input.                                                     *)
(***************************************************************************)
EXTENDS CStrings, SequencesExt

TypeOK ==
    /\ phase \in {"concat", "operands", "constants", "copy", "compareTo", "readLine", "parameters"}
                \cup Ended
    /\ {idx, num_params, max_len} \subseteq Nat /\ result \in Int
    /\ Len(all_string) <= num_params \/ phase \in {"copy"} \cup Ended
    /\ \A s \in {new_str, input} : \A k \in DOMAIN s : s[k] \in 1 .. 127

-----------------------------------------------------------------------------
\* Each placeholder of the recipe stands for the next operand, the first for
\* the one that was pushed first.
Text(e) == IF e.type = "REF" THEN e.value ELSE Decimal(e.value)

Java_concat ==
    LET recipe == call.recipe
        first == Len(call.operands) - Placeholders(recipe)
        nth(k) == Placeholders(SubSeq(recipe, 1, k))
    IN  FlattenSeq([k \in DOMAIN recipe |-> IF recipe[k] = Placeholder
                                            THEN Text(call.operands[first + nth(k)])
                                            ELSE <<recipe[k]>>])

\* A concatenation gives the string it gives in Java, whatever mixture of
\* numbers, strings and constants; it takes its own operands from the stack and
\* no other, never writes past the buffer whose length it computed before, and
\* fills it (invokedynamic).
ConcatenatesLikeJava ==
    call.op = "concat" =>
      /\ phase # "undefined"
      /\ phase = "done" =>
           /\ Len(new_str) = max_len
           /\ op_stack = Append(SubSeq(call.operands, 1, Len(call.operands) - Placeholders(call.recipe)),
                                [type |-> "REF", value |-> Java_concat])

Differ(s, t) == {k \in DOMAIN s \cap DOMAIN t : s[k] # t[k]}

\* Strings of which neither is the beginning of the other compare as in Java,
\* to the difference of the bytes that decide it; a string that is not empty
\* is equal to itself (compareTo).
ComparesLikeJava ==
    (call.op = "compareTo" /\ phase = "done") =>
      LET s == call.str
          t == call.str2
          k == CHOOSE k \in Differ(s, t) : \A j \in Differ(s, t) : k <= j
      IN  /\ Differ(s, t) # {} => result = s[k] - t[k]
          /\ s = t /\ s # <<>> => result = 0

\* The input is the lines, each with its end.
ASSUME LinesAssumption ==
    \A c \in Calls : c.op = "readLine" =>
      /\ c.lines \in Seq(Seq(Byte \ {Newline}))
      /\ c.input = FlattenSeq([k \in DOMAIN c.lines |-> Append(c.lines[k], Newline)])

OneWord(line) == Len(line) \in 1 .. Width - 1 /\ \A k \in DOMAIN line : line[k] \notin Blanks

\* As long as every line is one word that is shorter than the buffer, readLine
\* returns line after line, and nothing but the end of the input ends it.
ReadsLines ==
    (call.op = "readLine" /\ \A k \in DOMAIN call.lines : OneWord(call.lines[k])) =>
      /\ lines = SubSeq(call.lines, 1, Len(lines))
      /\ phase # "undefined"
      /\ phase = "abort" => lines = call.lines

String == <<"L", "j", "a", "v", "a", "/", "l", "a", "n", "g", "/", "S", "t", "r", "i", "n", "g", ";">>
ArrayOfStrings == <<"[">> \o String

BaseTypes == {"B", "C", "D", "F", "I", "J", "S", "Z"}

\* A number, a class, or an array of numbers of any dimension.
IsType(t) ==
    \/ /\ Len(t) >= 1 /\ t[Len(t)] \in BaseTypes
       /\ \A j \in 1 .. Len(t) - 1 : t[j] = "["
    \/ /\ Len(t) >= 2 /\ t[1] = "L" /\ t[Len(t)] = ";"
       /\ \A j \in 2 .. Len(t) - 1 : t[j] # ";"

\* Of the arrays of objects, the programs that are supported have those of
\* strings, main's argument.
ASSUME DescriptorAssumption ==
    \A c \in Calls : c.op = "parameters" =>
      /\ c.types \in Seq(Seq(STRING))
      /\ \A k \in DOMAIN c.types : IsType(c.types[k]) \/ c.types[k] = ArrayOfStrings
      /\ c.descriptor = <<"(">> \o FlattenSeq(c.types) \o <<")">>

\* Each parameter of a descriptor counts once, whatever classes and arrays of
\* numbers it names; an array of strings counts as 18, the number Interpreter
\* takes (get_number_of_parameters).
ParametersCounted ==
    (call.op = "parameters" /\ phase = "done") =>
      num_params = Len(call.types)
                   + 17 * Cardinality({k \in DOMAIN call.types : call.types[k] = ArrayOfStrings})
=============================================================================

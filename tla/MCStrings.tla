----------------------------- MODULE MCStrings -----------------------------
(***************************************************************************)
(* Short calls of every kind, over a few letters.                          *)
(***************************************************************************)
EXTENDS StringsLikeJava

Short(S, n) == BoundedSeq(S, n)

\* Up to three placeholders and constants; under the operands, one that is not
\* theirs or none.
Entries == {[type |-> "REF", value |-> s] : s \in {<<>>, <<65, 66>>, NULL}}
           \cup {[type |-> "INT", value |-> -10], [type |-> "LONG", value |-> 305]}
Concats == UNION {{[op |-> "concat", recipe |-> r, operands |-> under \o s] :
                     s \in [1 .. Placeholders(r) -> Entries],
                     under \in {<<>>, <<[type |-> "REF", value |-> <<90>>]>>}} :
                  r \in Short({Placeholder, 67}, 3)}

Compares == {[op |-> "compareTo", str |-> s, str2 |-> t] :
               s \in Short({65, 67, 90}, 3), t \in Short({65, 67, 90}, 3)}

\* A buffer of 4: words that fit, one that fills it, two words on a line with a
\* blank or a tab between them, and an empty line.
Words == {<<65>>, <<66, 67>>, <<68, 69, 70>>, <<65, 66, 67, 68>>, <<65, Blank, 66>>,
          <<65, Tab, 66>>, <<>>}
Reads == {[op |-> "readLine", lines |-> ls,
           input |-> FlattenSeq([k \in DOMAIN ls |-> ls[k] \o <<Newline>>])] : ls \in Short(Words, 3)}

Types == {<<"I">>, <<"[", "[", "J">>, <<"L", "L", "/", "I", ";">>, String, ArrayOfStrings}
Descriptors == {[op |-> "parameters", types |-> ts,
                 descriptor |-> <<"(">> \o FlattenSeq(ts) \o <<")">>] : ts \in Short(Types, 3)}

MCCalls == Concats \cup Compares \cup Reads \cup Descriptors

\* -1, 0 and 1: what an int holds by chance.
MCUnassigned == {-1, 0, 1}
=============================================================================

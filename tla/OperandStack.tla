---------------------------- MODULE OperandStack ----------------------------
(***************************************************************************)
(* The typed operand stack and local variables of stack.c / stack.h.       *)
(*                                                                         *)
(* A stack_entry_t is a record [type, value].  The union behind "value" is *)
(* 64 bits wide; integers are kept as the signed number the member holds,  *)
(* pointers as block numbers (see Interpreter).  A stack_frame_t is the    *)
(* sequence of its live entries: size is its length, and max_size, which   *)
(* init_stack records and no push compares with anything, is the method's  *)
(* max_stack.                                                              *)
(*                                                                         *)
(* Each integer width is given by half its range (2^7, 2^15, 2^31, 2^63 in *)
(* the program), so that the wrap-around of a conversion can be checked on *)
(* small numbers and proved for the real ones.                             *)
(***************************************************************************)
EXTENDS Integers, Sequences

CONSTANTS ByteHalf, ShortHalf, IntHalf, LongHalf

ASSUME WidthsAssumption ==
    /\ {ByteHalf, ShortHalf, IntHalf, LongHalf} \subseteq Nat \ {0}
    /\ ByteHalf <= ShortHalf /\ ShortHalf <= IntHalf /\ IntHalf <= LongHalf

\* The value a C conversion to a signed type of range -half .. half-1 keeps.
Signed(v, half) == ((v + half) % (2 * half)) - half

SignedRange(half) == -half .. (half - 1)

EntryTypes == {"NONE", "BYTE", "SHORT", "INT", "LONG", "REF", "UNINIT"}

IntegerTypes == {"BYTE", "SHORT", "INT", "LONG"}

Entry == [type : EntryTypes, value : Int]

\* Half the range get_type_size and stack_to_int give an integer entry.
HalfOf(type) == CASE type = "BYTE"  -> ByteHalf
                  [] type = "SHORT" -> ShortHalf
                  [] type = "INT"   -> IntHalf
                  [] OTHER          -> LongHalf

-----------------------------------------------------------------------------
\* The push operations: the argument is converted to the parameter's type and
\* the entry takes its tag.  Nothing is compared with max_size.
Push(stack, type, v) == Append(stack, [type |-> type, value |-> v])

\* Mutant of push_int: the value is not narrowed.
push_int_wide(stack, v) == Push(stack, "INT", v)

push_byte(stack, v)  == Push(stack, "BYTE",  Signed(v, ByteHalf))
push_short(stack, v) == Push(stack, "SHORT", Signed(v, ShortHalf))
push_int(stack, v)   == Push(stack, "INT",   Signed(v, IntHalf))
push_long(stack, v)  == Push(stack, "LONG",  Signed(v, LongHalf))
push_ref(stack, p)   == Push(stack, "REF",   p)

\* The n-th entry from the top (n = 0 is top()), and the stack without its
\* topmost n entries.
peek(stack, n) == stack[Len(stack) - n]
top(stack)     == peek(stack, 0)
drop(stack, n) == SubSeq(stack, 1, Len(stack) - n)

\* stack_to_int reads the union member the entry's tag selects, as a signed
\* number; pop_int returns it widened to 64 bits.
stack_to_int(e) == Signed(e.value, HalfOf(e.type))

\* "int32_t op = pop_int(op_stack)".
int32(e) == Signed(stack_to_int(e), IntHalf)

\* A local variable is read through the member the opcode asks for, whatever
\* its tag says: int_value is the low half of long_value.
int_value(local)  == Signed(local.value, IntHalf)
long_value(local) == Signed(local.value, LongHalf)
ptr_value(local)  == local.value

\* Mutant of add_int_value: the sum is left in a copy of the variable.
add_int_value_lost(local, b) == local

\* "entry.int_value += b" on a local variable: the low 32 bits change; the tag
\* does not, and a LONG keeps its high half.
add_int_value(local, b) ==
    LET word == 2 * IntHalf
        low == int_value(local) + b
    IN  [local EXCEPT !.value = IF local.type = "LONG"
                                THEN Signed(@ - (@ % word) + (low % word), LongHalf)
                                ELSE Signed(low, IntHalf)]

\* pop_to_local: every integer becomes a 64-bit LONG, a reference is copied.
\* (The push operations give no other tag, so the assertion cannot fail.)
pop_to_local(e) ==
    IF e.type \in IntegerTypes
    THEN [type |-> "LONG", value |-> stack_to_int(e)]
    ELSE [type |-> "REF",  value |-> e.value]
=============================================================================

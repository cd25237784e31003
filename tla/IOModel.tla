------------------------------ MODULE IOModel ------------------------------
(***************************************************************************)
(* IOModel of src/brainfuck/model.cpp: the policy for standard input that  *)
(* the interpreter and the state graph share.  A model io is a record of   *)
(* its fields; NoValue is std::nullopt.                                    *)
(***************************************************************************)
EXTENDS Integers, Sequences

CONSTANTS
    NoValue,  \* std::nullopt
    MaxChar   \* 255, the largest io_char_t

ASSUME MaxCharAssumption == MaxChar \in Nat \ {0}
ASSUME NoValueAssumption == NoValue \notin Nat

Char == 0..MaxChar

(* The constructor without arguments.                                      *)
DefaultIOModel ==
    [chars_until_eof |-> NoValue, no_change_on_eof |-> FALSE,
     eof_char |-> 0, input |-> NoValue]

has_input(io) == io.input # NoValue

(* A model that the constructors, the setters and reads leave behind: the  *)
(* length is not set once the input is pinned, so the budget stays inside. *)
IsIOModel(io) ==
    /\ io \in [chars_until_eof : Nat \cup {NoValue}, no_change_on_eof : BOOLEAN,
               eof_char : Char, input : Seq(Char) \cup {NoValue}]
    /\ has_input(io) => io.chars_until_eof \in 0..Len(io.input)

(* The budget is the cursor into the pinned input.                         *)
set_input(io, bytes) ==
    [io EXCEPT !.chars_until_eof = Len(bytes), !.input = bytes]

set_chars_until_eof(io, n) == [io EXCEPT !.chars_until_eof = n]
set_eof_char(io, char) == [io EXCEPT !.eof_char = char]
set_no_change_on_eof(io, no_change) == [io EXCEPT !.no_change_on_eof = no_change]

(* std::min of the budget and the length of the pinned input.              *)
PinnedRemaining(io, chars_left) ==
    IF chars_left = NoValue \/ chars_left > Len(io.input) THEN Len(io.input)
    ELSE chars_left

(* Faulty variant: the budget is taken for the index.                      *)
PinnedByteFromEnd(io, remaining) == io.input[remaining]

(* bytes[input_index(remaining)]                                           *)
PinnedByte(io, remaining) == io.input[Len(io.input) - remaining + 1]

AtEof(io) == IF io.no_change_on_eof THEN << >> ELSE <<io.eof_char>>

AllPossibleChars == [i \in 1..(MaxChar + 1) |-> i - 1]

(* Faulty variant: one more character than the budget has.                 *)
get_possible_chars_beyond(io, chars_left) ==
    IF ~has_input(io) THEN AllPossibleChars
    ELSE LET remaining == PinnedRemaining(io, chars_left)
         IN  IF remaining > 0 THEN <<PinnedByte(io, remaining)>> ELSE AtEof(io)

get_possible_chars(io, chars_left) ==
    IF has_input(io)
    THEN LET remaining == PinnedRemaining(io, chars_left)
         IN  IF remaining > 0 THEN <<PinnedByte(io, remaining)>> ELSE AtEof(io)
    ELSE IF chars_left = NoValue \/ chars_left > 0 THEN AllPossibleChars
    ELSE AtEof(io)

(* The stateful variant: the characters, and the model it leaves behind.   *)
read_possible_chars(io) ==
    IF has_input(io)
    THEN LET remaining == PinnedRemaining(io, io.chars_until_eof)
         IN  IF remaining > 0
             THEN [chars |-> <<PinnedByte(io, remaining)>>,
                   io |-> [io EXCEPT !.chars_until_eof = remaining - 1]]
             ELSE [chars |-> AtEof(io), io |-> io]
    ELSE IF io.chars_until_eof = NoValue
    THEN [chars |-> AllPossibleChars, io |-> io]
    ELSE IF io.chars_until_eof > 0
    THEN [chars |-> AllPossibleChars,
          io |-> [io EXCEPT !.chars_until_eof = @ - 1]]
    ELSE [chars |-> AtEof(io), io |-> io]

(* The outcomes of read_next_char() when std::cin.get() returns an element *)
(* of stdin (NoValue: the end of the stream): the result and the model.    *)
read_next_char(io, stdin) ==
    LET budget == io.chars_until_eof
        Spent(left) == [io EXCEPT !.chars_until_eof = left]
        remaining == PinnedRemaining(io, budget)
    IN  IF budget = 0 \/ (has_input(io) /\ remaining = 0)
        THEN {[result |-> NoValue, io |-> io]}
        ELSE IF has_input(io)
        THEN {[result |-> PinnedByte(io, remaining), io |-> Spent(remaining - 1)]}
        ELSE {[result |-> byte,
               io |-> IF byte = NoValue \/ budget = NoValue THEN io
                      ELSE Spent(budget - 1)] : byte \in stdin}
=============================================================================

---------------------------- MODULE InputStream ----------------------------
(***************************************************************************)
(* The calls that a client makes on one IOModel: the setters, and the two  *)
(* readers that advance it, read_next_char() and read_possible_chars().    *)
(***************************************************************************)
EXTENDS IOModel

CONSTANTS
    Inputs,   \* byte strings that set_input() gets
    Budgets,  \* lengths that set_chars_until_eof() gets
    MaxReads  \* bound on the number of reads between two setter calls

ASSUME StreamAssumption ==
    /\ Inputs \subseteq Seq(Char)
    /\ Budgets \subseteq Nat
    /\ MaxReads \in Nat

VARIABLES
    io,     \* the IOModel
    limit,  \* history: its chars_until_eof at the last setter call
    reads   \* history: the results since then; NoValue is the end of the input

stream == <<io, limit, reads>>

StreamInit ==
    /\ \E eof_char \in Char, no_change \in BOOLEAN :
          io = set_no_change_on_eof(set_eof_char(DefaultIOModel, eof_char), no_change)
    /\ limit = NoValue
    /\ reads = << >>

Configure(model) ==
    /\ io' = model
    /\ limit' = model.chars_until_eof
    /\ reads' = << >>

(* "Do not call this after set_input()".                                   *)
SetCharsUntilEof ==
    /\ ~has_input(io)
    /\ \E n \in Budgets : Configure(set_chars_until_eof(io, n))

SetInput == \E bytes \in Inputs : Configure(set_input(io, bytes))

(* What a read offers the cell: the character, or what the end of the      *)
(* input leaves.                                                           *)
Offer(model, result) == IF result = NoValue THEN AtEof(model) ELSE <<result>>

(* Standard input does not end before the budget does.                     *)
ReadNextChar ==
    /\ Len(reads) < MaxReads
    /\ \E read \in read_next_char(io, Char) :
          /\ io' = read.io
          /\ reads' = Append(reads, Offer(io, read.result))
    /\ UNCHANGED limit

ReadPossibleChars ==
    /\ Len(reads) < MaxReads
    /\ io' = read_possible_chars(io).io
    /\ reads' = Append(reads, read_possible_chars(io).chars)
    /\ UNCHANGED limit

-----------------------------------------------------------------------------
(* However the two readers are mixed, they share one cursor: the k-th read *)
(* after the setters gets the k-th byte of a pinned input, or a character  *)
(* of a symbolic one as long as k is within the budget, and every later    *)
(* read gets the end of the input.                                         *)
ReadsInOrder ==
    \A k \in 1..Len(reads) :
        IF limit # NoValue /\ k > limit THEN reads[k] = AtEof(io)
        ELSE IF has_input(io) THEN reads[k] = <<io.input[k]>>
        ELSE reads[k] = AllPossibleChars \/ Len(reads[k]) = 1

(* The state graph asks get_possible_chars() with the budget of its own    *)
(* state, and counts that down: in every state of the model it expects     *)
(* what both stateful readers do, with the same budget left.               *)
GraphAgrees ==
    LET chars == get_possible_chars(io, io.chars_until_eof)
        possible == read_possible_chars(io)
        left == IF io.chars_until_eof # NoValue /\ io.chars_until_eof > 0
                THEN io.chars_until_eof - 1 ELSE io.chars_until_eof
    IN  /\ possible.chars = chars
        /\ possible.io.chars_until_eof = left
        /\ {read.io : read \in read_next_char(io, Char)} = {possible.io}
        /\ {Offer(io, read.result) : read \in read_next_char(io, Char)} =
              IF Len(chars) > 1 THEN {<<char>> : char \in Char} ELSE {chars}
=============================================================================

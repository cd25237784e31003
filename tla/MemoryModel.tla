----------------------------- MODULE MemoryModel -----------------------------
(***************************************************************************)
(* The pure transition helpers of MemoryModel (src/brainfuck/model.cpp),   *)
(* which the interpreter and the state graph share.  A model m is a record *)
(* of the tape size, the largest cell value and the tape mode.             *)
(***************************************************************************)
EXTENDS Integers

CONSTANT HalfWord   \* 2^63: size_t counts modulo 2 * HalfWord

ASSUME HalfWordAssumption == HalfWord \in Nat \ {0}

Word == 2 * HalfWord

(* The constructor and --memory-size refuse an empty tape; a cell has      *)
(* max_value + 1 values, and every cell width divides the word width.      *)
IsModel(m) ==
    /\ m.memory_size \in 1..(Word - 1)
    /\ m.max_value \in Nat
    /\ Word % (m.max_value + 1) = 0
    /\ m.wrapping \in BOOLEAN

(* Called before a program is parsed, when ptr is 0 and on the tape of any *)
(* size; a cell size is its largest value here.                            *)
set_memory_size(m, size) == [m EXCEPT !.memory_size = size]
set_cell_size(m, max_value) == [m EXCEPT !.max_value = max_value]
set_wrapping(m, wrapping) == [m EXCEPT !.wrapping = wrapping]

Cells(m) == 0..(m.memory_size - 1)
CellValues(m) == 0..m.max_value

-----------------------------------------------------------------------------
pointer_left(m, ptr) ==
    IF ptr > 0 THEN ptr - 1
    ELSE IF m.wrapping THEN m.memory_size - 1 ELSE 0

pointer_right(m, ptr) ==
    IF ptr + 1 < m.memory_size THEN ptr + 1
    ELSE IF m.wrapping THEN 0 ELSE m.memory_size - 1

next_value(m, value) == IF value >= m.max_value THEN 0 ELSE value + 1

prev_value(m, value) == IF value = 0 THEN m.max_value ELSE value - 1

(* The mask of a power of two minus one is a remainder.                    *)
normalize_value(m, value) == value % (m.max_value + 1)

(* delta is converted to an unsigned word, and the sum wraps as one.       *)
shift_value(m, value, delta) == normalize_value(m, (value + (delta % Word)) % Word)

-----------------------------------------------------------------------------
(* static_cast<int64_t> of an unsigned word.                               *)
Signed(x) == IF x < HalfWord THEN x ELSE x - Word

(* static_cast<uint64_t> of a signed word.                                 *)
Unsigned(x) == x % Word

(* The remainder of C++, which takes the sign of the dividend.             *)
Remainder(a, b) ==
    LET d == IF b < 0 THEN -b ELSE b
    IN  IF a < 0 THEN -((-a) % d) ELSE a % d

(* Faulty variant: the net move, clamped to the tape.                      *)
move_pointer_net(m, ptr, net, low, high) ==
    IF m.wrapping THEN (ptr + net) % m.memory_size
    ELSE IF ptr + net < 0 THEN 0
    ELSE IF ptr + net >= m.memory_size THEN m.memory_size - 1
    ELSE ptr + net

(* The pointer after a block of net moves; low and high are where it takes *)
(* the first and the last cell.  The callers keep ptr + net in range.      *)
move_pointer(m, ptr, net, low, high) ==
    LET size == Signed(m.memory_size)
        sum == Signed(ptr) + net
        moved == Remainder(sum, size)
    IN  IF m.wrapping
        THEN Unsigned(IF moved < 0 THEN moved + size ELSE moved)
        ELSE Unsigned(IF sum < Signed(low) THEN Signed(low)
                      ELSE IF sum > Signed(high) THEN Signed(high)
                      ELSE sum)
=============================================================================

------------------------------ MODULE Program ------------------------------
(***************************************************************************)
(* A parsed program (src/brainfuck/program.hpp) and its read-only queries. *)
(* A program prog is a record:                                             *)
(*   ops, the instructions; instruction pointers start at 1 and the end    *)
(*   point is Len(ops) + 1 (the code: 0 and ops->size());                  *)
(*   labels, the multimap, as a set of pairs <<pc, name>>;                 *)
(*   jumps, the jump targets of the brackets;                              *)
(*   blocks, the table that build_blocks() computes;                       *)
(*   memory_model and io_model.                                            *)
(*                                                                         *)
(* Partner and FoldedBlock describe the results of the parser and of       *)
(* build_blocks(); Parser and BlockTable are the loops that compute them.  *)
(***************************************************************************)
EXTENDS MemoryModel, SequencesExt, FiniteSetsExt

Instruction == {"left", "right", "inc", "dec", "get", "put", "fwd", "bwd"}
BlockKind == {"single", "values", "pointers"}

is_value_instruction(instr) == instr \in {"inc", "dec"}
is_pointer_instruction(instr) == instr \in {"left", "right"}

instr_count(prog) == Len(prog.ops)

is_end(prog, pc) == pc > instr_count(prog)

has_label(prog, label) == \E entry \in prog.labels : entry[2] = label

has_label_at(prog, pc, label) == <<pc, label>> \in prog.labels

jump_target(prog, pc) == prog.jumps[pc]

block_at(prog, pc) == prog.blocks[pc]

-----------------------------------------------------------------------------
Occurrences(ops, instr, S) == Cardinality({i \in S : ops[i] = instr})

(* Brackets that are open after the first n instructions.                  *)
Depth(ops, n) == Occurrences(ops, "fwd", 1..n) - Occurrences(ops, "bwd", 1..n)

Balanced(ops) ==
    /\ \A n \in 1..Len(ops) : Depth(ops, n) >= 0
    /\ Depth(ops, Len(ops)) = 0

(* The brackets at open and close belong together.                         *)
Encloses(ops, open, close) ==
    /\ open < close
    /\ ops[open] = "fwd"
    /\ ops[close] = "bwd"
    /\ Depth(ops, close) = Depth(ops, open - 1)
    /\ \A n \in open..(close - 1) : Depth(ops, n) > Depth(ops, close)

Brackets(ops) == {i \in 1..Len(ops) : ops[i] \in {"fwd", "bwd"}}

Partner(ops, pc) ==
    CHOOSE i \in 1..Len(ops) : Encloses(ops, pc, i) \/ Encloses(ops, i, pc)

(* Faulty variant: jumps go one too far.                                   *)
JumpTableBeyond(ops) == [pc \in Brackets(ops) |-> Partner(ops, pc) + 2]

(* Both jump targets are one past the partner instruction.                 *)
JumpTable(ops) == [pc \in Brackets(ops) |-> Partner(ops, pc) + 1]

-----------------------------------------------------------------------------
InstrClass(instr) ==
    IF is_value_instruction(instr) THEN "values"
    ELSE IF is_pointer_instruction(instr) THEN "pointers"
    ELSE "single"

(* Faulty variant: labels do not end a block.                              *)
StartsBlockUnlabelled(ops, labelled, pc) ==
    \/ pc = 1
    \/ pc = Len(ops) + 1
    \/ InstrClass(ops[pc]) = "single"
    \/ InstrClass(ops[pc]) # InstrClass(ops[pc - 1])

(* No run of one class can continue at pc.                                 *)
StartsBlock(ops, labelled, pc) ==
    \/ pc = 1
    \/ pc = Len(ops) + 1
    \/ pc \in labelled
    \/ InstrClass(ops[pc]) = "single"
    \/ InstrClass(ops[pc]) # InstrClass(ops[pc - 1])

BlockStart(ops, labelled, pc) ==
    Max({i \in 1..pc : StartsBlock(ops, labelled, i)})

BlockEnd(ops, labelled, pc) ==
    Min({i \in (pc + 1)..(Len(ops) + 1) : StartsBlock(ops, labelled, i)})

(* Where the moves from first to end - 1 take ptr on a tape that does not  *)
(* wrap.                                                                   *)
ClampedMoves(m, ops, first, end, ptr) ==
    LET clamping == [m EXCEPT !.wrapping = FALSE]
        at[pc \in first..end] ==
            IF pc = first THEN ptr
            ELSE IF ops[pc - 1] = "right" THEN pointer_right(clamping, at[pc - 1])
            ELSE pointer_left(clamping, at[pc - 1])
    IN  at[end]

(* The entry of the block table for pc: the block of the run around pc.    *)
FoldedBlock(ops, labelled, m, pc) ==
    LET first == BlockStart(ops, labelled, pc)
        end == BlockEnd(ops, labelled, pc)
        Net(plus, minus) == Occurrences(ops, plus, first..(end - 1))
                                - Occurrences(ops, minus, first..(end - 1))
        kind == InstrClass(ops[pc])
        last == m.memory_size - 1
    IN  [kind |-> kind,
         end |-> end,
         delta |-> CASE kind = "values" ->
                            Remainder(Net("inc", "dec"), m.max_value + 1)
                     [] kind = "pointers" -> Net("right", "left")
                     [] kind = "single" -> 0,
         low |-> IF kind = "pointers" THEN ClampedMoves(m, ops, first, end, 0) ELSE 0,
         high |-> IF kind = "pointers" THEN ClampedMoves(m, ops, first, end, last) ELSE last]

FoldedTable(ops, labelled, m) ==
    [pc \in 1..Len(ops) |-> FoldedBlock(ops, labelled, m, pc)]

(* The program that parse_from_istream() returns.                          *)
ParsedProgram(ops, labels, m, io) ==
    [ops |-> ops,
     labels |-> labels,
     jumps |-> JumpTable(ops),
     blocks |-> FoldedTable(ops, {label[1] : label \in labels}, m),
     memory_model |-> m,
     io_model |-> io]
=============================================================================

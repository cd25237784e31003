------------------------------- MODULE Kripke -------------------------------
(***************************************************************************)
(* The state graph of src/brainfuck/kripke.cpp: KState, KIterator and      *)
(* Kripke::observes().  The memory of a state is the function from cells   *)
(* to contents that its MemoryMap stands for.                              *)
(***************************************************************************)
EXTENDS Program, IOModel

Folding == {"none", "values", "pointers", "straight_line"}

(* A program that the parser returned, with models that were set up before.*)
(* The narrowest cells hold every character.                               *)
IsProgram(prog) ==
    /\ prog.ops \in Seq(Instruction)
    /\ Balanced(prog.ops)
    /\ IsModel(prog.memory_model)
    /\ prog.memory_model.max_value >= MaxChar
    /\ IsIOModel(prog.io_model)
    /\ prog = ParsedProgram(prog.ops, prog.labels, prog.memory_model, prog.io_model)

(* The values of a KState; an input budget is never more than it was.      *)
KState(prog) ==
    [pc : 1..(instr_count(prog) + 1),
     mem_ptr : Cells(prog.memory_model),
     memory : [Cells(prog.memory_model) -> CellValues(prog.memory_model)],
     remaining : IF prog.io_model.chars_until_eof = NoValue THEN {NoValue}
                 ELSE 0..prog.io_model.chars_until_eof]

initial_state(prog) ==
    [pc |-> 1, mem_ptr |-> 0,
     memory |-> [cell \in Cells(prog.memory_model) |-> 0],
     remaining |-> prog.io_model.chars_until_eof]

(* MemoryMap::get(): a cell that is not stored holds zero.                 *)
Content(s, cell) == IF cell \in DOMAIN s.memory THEN s.memory[cell] ELSE 0

CurrentCell(s) == Content(s, s.mem_ptr)

-----------------------------------------------------------------------------
SingleBlock(pc) == [kind |-> "single", end |-> pc + 1, delta |-> 0, low |-> 0, high |-> 0]

(* Faulty variant: values folding folds pointer runs too.                  *)
FoldsAll(folding, kind) == folding # "pointers" \/ kind = "pointers"

Folds(folding, kind) ==
    \/ folding = "straight_line"
    \/ folding = "values" /\ kind # "pointers"
    \/ folding = "pointers" /\ kind = "pointers"

(* The block that one transition from pc applies.                          *)
ChosenBlock(prog, folding, pc) ==
    IF folding # "none" /\ Folds(folding, block_at(prog, pc).kind)
    THEN block_at(prog, pc)
    ELSE SingleBlock(pc)

Goto(s, pc) == [s EXCEPT !.pc = pc]
Point(s, ptr, pc) == [Goto(s, pc) EXCEPT !.mem_ptr = ptr]
Write(s, value, pc) == [Goto(s, pc) EXCEPT !.memory[s.mem_ptr] = value]

(* Faulty variant: a read behind the end of the input is a dead end.       *)
ReadSuccessorsDeadEnd(prog, s) ==
    LET chars == get_possible_chars(prog.io_model, s.remaining)
        budget == IF s.remaining # NoValue /\ s.remaining > 0
                  THEN s.remaining - 1 ELSE s.remaining
    IN  [i \in DOMAIN chars |->
            [Write(s, normalize_value(prog.memory_model, chars[i]), s.pc + 1)
                EXCEPT !.remaining = budget]]

(* The successors of a read, one per character it can deliver.  Only a     *)
(* read consumes the input budget.                                         *)
ReadSuccessors(prog, s) ==
    LET chars == get_possible_chars(prog.io_model, s.remaining)
        values == IF chars = << >> THEN <<CurrentCell(s)>>
                  ELSE [i \in DOMAIN chars |-> normalize_value(prog.memory_model, chars[i])]
        budget == IF s.remaining # NoValue /\ s.remaining > 0
                  THEN s.remaining - 1 ELSE s.remaining
    IN  [i \in DOMAIN values |->
            [Write(s, values[i], s.pc + 1) EXCEPT !.remaining = budget]]

(* The switch over a single instruction.                                   *)
SingleSuccessors(prog, s) ==
    LET m == prog.memory_model
        instr == prog.ops[s.pc]
        next == s.pc + 1
        cell == CurrentCell(s)
    IN  CASE instr = "left" -> <<Point(s, pointer_left(m, s.mem_ptr), next)>>
          [] instr = "right" -> <<Point(s, pointer_right(m, s.mem_ptr), next)>>
          [] instr = "inc" -> <<Write(s, next_value(m, cell), next)>>
          [] instr = "dec" -> <<Write(s, prev_value(m, cell), next)>>
          [] instr = "get" -> ReadSuccessors(prog, s)
          [] instr = "put" -> <<Goto(s, next)>>
          [] instr = "fwd" -> <<Goto(s, IF cell = 0 THEN jump_target(prog, s.pc) ELSE next)>>
          [] instr = "bwd" -> <<Goto(s, IF cell # 0 THEN jump_target(prog, s.pc) ELSE next)>>

(* The states a KIterator over s delivers, in its order.  The end point    *)
(* stutters.                                                               *)
Successors(prog, folding, s) ==
    IF is_end(prog, s.pc) THEN <<s>>
    ELSE LET m == prog.memory_model
             block == ChosenBlock(prog, folding, s.pc)
         IN  CASE block.kind = "values" ->
                     <<Write(s, shift_value(m, CurrentCell(s), block.delta), block.end)>>
               [] block.kind = "pointers" ->
                     <<Point(s, move_pointer(m, s.mem_ptr, block.delta, block.low, block.high),
                             block.end)>>
               [] block.kind = "single" -> SingleSuccessors(prog, s)

(* Faulty variant: the whole block is printed in every mode.               *)
step_end_of_block(prog, pc, folding) ==
    IF is_end(prog, pc) THEN pc ELSE block_at(prog, pc).end

(* The instruction behind the step that main.cpp prints for a state.       *)
step_end(prog, pc, folding) ==
    IF is_end(prog, pc) THEN pc
    ELSE LET block == block_at(prog, pc)
         IN  IF \/ folding = "straight_line"
                \/ folding = "values" /\ block.kind = "values"
                \/ folding = "pointers" /\ block.kind = "pointers"
             THEN block.end ELSE pc + 1

-----------------------------------------------------------------------------
(* The observed atom.  An observation is a record whose kind names the     *)
(* field of the code's Observation that has a value.                       *)
cell_test_holds(test, content) ==
    CASE test.op = "eq" -> content = test.value
      [] test.op = "gt" -> content > test.value
      [] test.op = "ge" -> content >= test.value
      [] test.op = "lt" -> content < test.value
      [] test.op = "le" -> content <= test.value

wrap_test_holds(prog, s, test) ==
    /\ s.mem_ptr = test.cell
    /\ ~is_end(prog, s.pc)
    /\ \/ /\ test.direction \in {"overflow", "both"}
          /\ prog.ops[s.pc] = "inc"
          /\ Content(s, test.cell) = prog.memory_model.max_value
       \/ /\ test.direction \in {"underflow", "both"}
          /\ prog.ops[s.pc] = "dec"
          /\ Content(s, test.cell) = 0

observes(prog, observation, s) ==
    CASE observation.kind = "visited_cell" -> s.mem_ptr = observation.cell
      [] observation.kind = "cell_test" ->
            /\ observation.on_halt => is_end(prog, s.pc)
            /\ cell_test_holds(observation, Content(s, observation.cell))
      [] observation.kind = "wrap_test" -> wrap_test_holds(prog, s, observation)
      [] observation.kind = "none" -> FALSE
=============================================================================

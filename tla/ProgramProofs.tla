---------------------------- MODULE ProgramProofs ----------------------------
(***************************************************************************)
(* program.cpp apart from build_blocks().                                  *)
(*                                                                         *)
(* Program::run() is a run of the unfolded state graph, for every program, *)
(* tape, input model and character set, as long as standard input does not *)
(* end before the budget does (the run interpreter_short_input shows that  *)
(* it is not one otherwise).                                               *)
(*                                                                         *)
(* Program::parse_from_istream() accepts exactly the balanced texts and    *)
(* returns their instructions, labels and jump targets, and the text that  *)
(* Program::print() writes parses back to them, for texts of any length.   *)
(***************************************************************************)
EXTENDS Parser, Interpreter, OperatorProofs

-----------------------------------------------------------------------------
(* The inductive invariant.  The input models of the program and of the    *)
(* execution differ in the budget only, and the pointer and the cells that *)
(* exist are on the tape.                                                  *)
SameInput == io = [prog.io_model EXCEPT !.chars_until_eof = io.chars_until_eof]

IInv ==
    /\ IsProgram(prog)
    /\ IsIOModel(io)
    /\ SameInput
    /\ ptr \in Cells(m)
    /\ DOMAIN memory \subseteq Cells(m)
    /\ eof = FALSE

-----------------------------------------------------------------------------
(* The pointer stays on the tape.                                          *)
LEMMA PointerMoves ==
    ASSUME NEW model, IsModel(model), NEW p \in Cells(model)
    PROVE  /\ pointer_left(model, p) \in Cells(model)
           /\ pointer_right(model, p) \in Cells(model)
    BY HalfWordAssumption DEF IsModel, Cells, pointer_left, pointer_right, Word

(* Another input model makes another program of the same text.             *)
LEMMA OtherInput ==
    ASSUME NEW p, IsProgram(p), NEW model, IsIOModel(model)
    PROVE  /\ IsProgram([p EXCEPT !.io_model = model])
           /\ [p EXCEPT !.io_model = model].io_model = model
           /\ [p EXCEPT !.io_model = model].memory_model = p.memory_model
           /\ [p EXCEPT !.io_model = model].ops = p.ops
  <1> DEFINE q == [p EXCEPT !.io_model = model]
  <1>1. p = ParsedProgram(p.ops, p.labels, p.memory_model, p.io_model)
    BY DEF IsProgram
  <1>2. /\ q.ops = p.ops
        /\ q.labels = p.labels
        /\ q.memory_model = p.memory_model
        /\ q.io_model = model
    BY <1>1 DEF ParsedProgram
  <1>3. q = ParsedProgram(p.ops, p.labels, p.memory_model, model)
    BY <1>1 DEF ParsedProgram
  <1>4. QED
    BY <1>2, <1>3 DEF IsProgram

(* What a read of standard input leaves: the cell's new content, if any,   *)
(* and the model with a budget that is one smaller unless it was exhausted.*)
LEMMA AfterRead ==
    ASSUME NEW model, IsIOModel(model), NEW read \in read_next_char(model, Char)
    PROVE  /\ IsIOModel(read.io)
           /\ read.io = [model EXCEPT !.chars_until_eof = read.io.chars_until_eof]
           /\ read.io.chars_until_eof =
                IF model.chars_until_eof # NoValue /\ model.chars_until_eof > 0
                THEN model.chars_until_eof - 1 ELSE model.chars_until_eof
           /\ read.result = NoValue =>
                /\ model.chars_until_eof = 0
                /\ get_possible_chars(model, model.chars_until_eof) = AtEof(model)
           /\ read.result # NoValue =>
                \E n \in DOMAIN get_possible_chars(model, model.chars_until_eof) :
                    get_possible_chars(model, model.chars_until_eof)[n] = read.result
  <1> DEFINE budget == model.chars_until_eof
             remaining == PinnedRemaining(model, budget)
             Spent(left) == [model EXCEPT !.chars_until_eof = left]
             chars == get_possible_chars(model, budget)
  <1>1. /\ model \in [chars_until_eof : Nat \cup {NoValue}, no_change_on_eof : BOOLEAN,
                      eof_char : Char, input : Seq(Char) \cup {NoValue}]
        /\ has_input(model) => budget \in 0..Len(model.input)
    BY DEF IsIOModel
  <1>2. NoValue \notin Nat /\ Char \subseteq Nat
    BY NoValueAssumption, MaxCharAssumption DEF Char
  <1>3. has_input(model) =>
          /\ model.input \in Seq(Char)
          /\ Len(model.input) \in Nat
          /\ remaining = budget
    BY <1>1, <1>2 DEF has_input, PinnedRemaining
  <1>4. ASSUME NEW left \in Nat, has_input(model) => left <= budget
        PROVE  /\ IsIOModel(Spent(left))
               /\ Spent(left).chars_until_eof = left
    BY <1>1, <1>3, <1>4 DEF IsIOModel, has_input
  <1>5. CASE budget = 0
    <2>1. read = [result |-> NoValue, io |-> model]
      BY <1>5 DEF read_next_char
    <2>2. chars = AtEof(model)
      BY <1>5, <1>2, <1>3 DEF get_possible_chars
    <2>3. [model EXCEPT !.chars_until_eof = model.chars_until_eof] = model
      BY <1>1
    <2>4. QED
      BY <2>1, <2>2, <2>3, <1>5
  <1>6. CASE budget # 0 /\ has_input(model)
    <2>1. budget \in Nat /\ budget > 0
      BY <1>6, <1>1, <1>3
    <2>2. read = [result |-> PinnedByte(model, budget), io |-> Spent(budget - 1)]
      BY <2>1, <1>3, <1>6 DEF read_next_char
    <2>3. chars = <<PinnedByte(model, budget)>>
      BY <2>1, <1>3, <1>6 DEF get_possible_chars
    <2>4. PinnedByte(model, budget) \in Char
      BY <2>1, <1>1, <1>3, <1>6 DEF PinnedByte
    <2>5. read.result # NoValue
      BY <2>2, <2>4, <1>2
    <2>6. 1 \in DOMAIN chars /\ chars[1] = read.result
      BY <2>2, <2>3
    <2>7. budget # NoValue
      BY <2>1, <1>2
    <2>8. /\ read.io = Spent(budget - 1)
          /\ IsIOModel(Spent(budget - 1))
          /\ Spent(budget - 1).chars_until_eof = budget - 1
      BY <2>1, <2>2, <1>4
    <2>9. QED
      BY <2>1, <2>5, <2>6, <2>7, <2>8
  <1>7. CASE budget # 0 /\ ~has_input(model)
    <2>1. PICK byte \in Char :
            read = [result |-> byte,
                    io |-> IF byte = NoValue \/ budget = NoValue THEN model
                           ELSE Spent(budget - 1)]
      BY <1>7 DEF read_next_char
    <2>2. byte # NoValue /\ read.result = byte
      BY <2>1, <1>2
    <2>3. chars = AllPossibleChars
      BY <1>7, <1>1 DEF get_possible_chars
    <2>4. byte + 1 \in DOMAIN chars /\ chars[byte + 1] = byte
      BY <2>3, MaxCharAssumption DEF AllPossibleChars, Char
    <2>5. CASE budget = NoValue
      <3>1. read.io = model /\ [model EXCEPT !.chars_until_eof = model.chars_until_eof] = model
        BY <2>1, <2>5, <1>1
      <3>2. QED
        BY <3>1, <2>2, <2>4, <2>5
    <2>6. CASE budget # NoValue
      <3>1. budget \in Nat /\ budget > 0 /\ budget - 1 \in Nat
        BY <2>6, <1>1, <1>7
      <3>2. /\ read.io = Spent(budget - 1)
            /\ IsIOModel(Spent(budget - 1))
            /\ Spent(budget - 1).chars_until_eof = budget - 1
        BY <2>1, <2>2, <2>6, <3>1, <1>4, <1>7
      <3>3. QED
        BY <3>1, <3>2, <2>2, <2>4, <2>6
    <2>7. QED
      BY <2>5, <2>6
  <1>8. QED
    BY <1>5, <1>6, <1>7

-----------------------------------------------------------------------------
LEMMA InitIInv == Init => IInv
  <1> SUFFICES ASSUME Init PROVE IInv
    OBVIOUS
  <1>1. IsProgram(prog) /\ IsIOModel(prog.io_model)
    BY InterpreterAssumption DEF Init, IsProgram
  <1>2. SameInput
    BY <1>1 DEF Init, SameInput, IsIOModel
  <1>3. 0 \in Cells(m)
    BY <1>1, HalfWordAssumption DEF IsProgram, IsModel, Cells, Word, m
  <1>4. DOMAIN memory \subseteq Cells(m)
    BY DEF Init
  <1>5. QED
    BY <1>1, <1>2, <1>3, <1>4 DEF Init, IInv

LEMMA NextIInv == ASSUME ~EndsEarly, IInv, [Next]_vars PROVE IInv'
  <1>1. /\ IsProgram(prog) /\ IsIOModel(io) /\ IsModel(m)
        /\ ptr \in Cells(m) /\ DOMAIN memory \subseteq Cells(m) /\ eof = FALSE
    BY DEF IInv, IsProgram, m
  <1>2. CASE Left
    BY <1>1, <1>2, PointerMoves DEF Left, IInv, SameInput, m
  <1>3. CASE Right
    BY <1>1, <1>3, PointerMoves DEF Right, IInv, SameInput, m
  <1>4. ASSUME NEW value, memory' = Stored(value), UNCHANGED <<prog, ptr>>
        PROVE  DOMAIN memory' \subseteq Cells(m)'
    BY <1>1, <1>4 DEF Stored, m
  <1>5. CASE Increment
    BY <1>1, <1>4, <1>5 DEF Increment, IInv, SameInput, m
  <1>6. CASE Decrement
    BY <1>1, <1>4, <1>6 DEF Decrement, IInv, SameInput, m
  <1>7. CASE Get
    <2>1. Stdin = Char
      BY <1>1 DEF Stdin
    <2>2. PICK read \in read_next_char(io, Char) :
            /\ io' = read.io
            /\ memory' = IF read.result # NoValue
                         THEN Stored(normalize_value(m, read.result))
                         ELSE IF ~io.no_change_on_eof
                         THEN Stored(normalize_value(m, io.eof_char))
                         ELSE memory
            /\ eof' = (eof \/ (read.result = NoValue /\ ~has_input(io)
                                 /\ io.chars_until_eof # 0))
      BY <1>7, <2>1 DEF Get
    <2>3. UNCHANGED <<prog, ptr>>
      BY <1>7 DEF Get
    <2>4. /\ IsIOModel(io')
          /\ io' = [io EXCEPT !.chars_until_eof = io'.chars_until_eof]
      BY <1>1, <2>2, AfterRead
    <2>5. [io EXCEPT !.chars_until_eof = io'.chars_until_eof]
            = [prog.io_model EXCEPT !.chars_until_eof = io'.chars_until_eof]
      BY DEF IInv, SameInput
    <2>6. SameInput'
      BY <2>3, <2>4, <2>5 DEF SameInput
    <2>7. DOMAIN memory' \subseteq Cells(m)'
      BY <1>1, <1>4, <2>2, <2>3 DEF m
    <2>8. eof' = FALSE
      BY <1>1, <2>2, AfterRead
    <2>9. QED
      BY <1>1, <2>3, <2>4, <2>6, <2>7, <2>8 DEF IInv, m
  <1>8. CASE Put
    BY <1>1, <1>8 DEF Put, IInv, SameInput, m
  <1>9. CASE Forward
    BY <1>1, <1>9 DEF Forward, IInv, SameInput, m
  <1>10. CASE Backward
    BY <1>1, <1>10 DEF Backward, IInv, SameInput, m
  <1>11. CASE RunAgain
    <2>1. /\ IsProgram(prog')
          /\ prog'.io_model = io
          /\ prog'.memory_model = prog.memory_model
      BY <1>1, <1>11, OtherInput DEF RunAgain
    <2>2. io' = [io EXCEPT !.chars_until_eof = io.chars_until_eof]
      BY <1>1, <1>11 DEF RunAgain, IsIOModel
    <2>3. SameInput'
      BY <1>11, <2>1, <2>2 DEF RunAgain, SameInput
    <2>4. ptr' \in Cells(m') /\ DOMAIN memory' \subseteq Cells(m')
      BY <1>1, <1>11, <2>1, HalfWordAssumption DEF RunAgain, m, Cells, IsModel, Word
    <2>5. QED
      BY <1>1, <1>11, <2>1, <2>3, <2>4 DEF RunAgain, IInv
  <1>12. CASE UNCHANGED vars
    BY <1>1, <1>12 DEF vars, IInv, SameInput, m
  <1>13. QED
    BY <1>2, <1>3, <1>5, <1>6, <1>7, <1>8, <1>9, <1>10, <1>11, <1>12 DEF Next

-----------------------------------------------------------------------------
(* The abstract specification speaks of the same state graph.              *)
LEMMA SameGraph ==
    ASSUME NEW p, NEW s
    PROVE  /\ Walk!Successors(p, "none", s) = Successors(p, "none", s)
           /\ Walk!is_end(p, s.pc) = is_end(p, s.pc)
           /\ Walk!initial_state(p) = initial_state(p)
  BY DEF Successors, ChosenBlock, SingleBlock, SingleSuccessors, ReadSuccessors,
         Folds, Content, CurrentCell, Goto, Point, Write, get_possible_chars,
         initial_state, is_end, instr_count,
         pointer_left, pointer_right, next_value, prev_value, normalize_value,
         jump_target, block_at, Cells, has_input, AllPossibleChars, AtEof,
         PinnedRemaining, PinnedByte, shift_value, move_pointer, Word, Signed,
         Unsigned, Remainder,
         Walk!Successors, Walk!ChosenBlock, Walk!SingleBlock, Walk!SingleSuccessors,
         Walk!ReadSuccessors, Walk!Folds, Walk!Content, Walk!CurrentCell, Walk!Goto,
         Walk!Point, Walk!Write, Walk!get_possible_chars, Walk!initial_state,
         Walk!is_end, Walk!instr_count, Walk!pointer_left, Walk!pointer_right,
         Walk!next_value, Walk!prev_value, Walk!normalize_value, Walk!jump_target,
         Walk!block_at, Walk!Cells, Walk!has_input, Walk!AllPossibleChars, Walk!AtEof,
         Walk!PinnedRemaining, Walk!PinnedByte, Walk!shift_value, Walk!move_pointer,
         Walk!Word, Walk!Signed, Walk!Unsigned, Walk!Remainder

(* Without folding a state's successors are those of its instruction.      *)
LEMMA Unfolded ==
    ASSUME NEW p, NEW s, ~is_end(p, s.pc)
    PROVE  Successors(p, "none", s) = SingleSuccessors(p, s)
  BY DEF Successors, ChosenBlock, SingleBlock

(* The memory of the mapped state.                                         *)
Tape == [cell \in Cells(m) |-> IF cell \in DOMAIN memory THEN memory[cell] ELSE 0]

LEMMA MappedTape ==
    /\ GraphState = State(ip, ptr, Tape, io.chars_until_eof)
    /\ GraphState' = State(ip', ptr', Tape', io'.chars_until_eof)
  BY DEF GraphState, Tape, State

(* The components of the mapped state.                                     *)
LEMMA Mapped ==
    ASSUME IInv
    PROVE  /\ GraphState.pc = ip
           /\ GraphState.mem_ptr = ptr
           /\ GraphState.remaining = io.chars_until_eof
           /\ CurrentCell(GraphState) = get_current_value
  BY DEF IInv, GraphState, CurrentCell, Content, get_current_value

(* A change of the pointer and the memory maps to the change of the state. *)
LEMMA MappedMove ==
    ASSUME IInv, UNCHANGED <<prog, memory, io>>
    PROVE  /\ GraphState' = Point(GraphState, ptr', ip')
           /\ ptr' = ptr => GraphState' = Goto(GraphState, ip')
  <1>1. Tape' = Tape /\ io'.chars_until_eof = io.chars_until_eof
    BY DEF Tape, m
  <1>2. QED
    BY <1>1, MappedTape, PointState, GotoState

LEMMA MappedWrite ==
    ASSUME IInv, NEW value, memory' = Stored(value), UNCHANGED <<prog, ptr>>
    PROVE  /\ GraphState' = Budget(Write(GraphState, value, ip'), io'.chars_until_eof)
           /\ io' = io => GraphState' = Write(GraphState, value, ip')
  <1>1. ptr \in Cells(m)
    BY DEF IInv
  <1>2. Tape' = [Tape EXCEPT ![ptr] = value]
    BY <1>1 DEF Stored, Tape, m
  <1>3. GraphState' = State(ip', ptr, [Tape EXCEPT ![ptr] = value], io'.chars_until_eof)
    BY <1>2, MappedTape
  <1>4. Write(GraphState, value, ip')
          = State(ip', ptr, [Tape EXCEPT ![ptr] = value], io.chars_until_eof)
    BY MappedTape, WriteState
  <1>5. QED
    BY <1>3, <1>4, BudgetState

(* Writing the current content back changes nothing.                       *)
LEMMA MappedKeep ==
    ASSUME IInv, UNCHANGED <<prog, ptr, memory>>
    PROVE  GraphState' = Budget(Write(GraphState, get_current_value, ip'), io'.chars_until_eof)
  <1>1. ptr \in Cells(m)
    BY DEF IInv
  <1>2. Tape' = [Tape EXCEPT ![ptr] = get_current_value]
    BY <1>1 DEF Tape, m, get_current_value
  <1>3. GraphState' = State(ip', ptr, [Tape EXCEPT ![ptr] = get_current_value],
                            io'.chars_until_eof)
    BY <1>2, MappedTape
  <1>4. Write(GraphState, get_current_value, ip')
          = State(ip', ptr, [Tape EXCEPT ![ptr] = get_current_value], io.chars_until_eof)
    BY MappedTape, WriteState
  <1>5. QED
    BY <1>3, <1>4, BudgetState

(* A step to a successor of the mapped state is a step of the graph.       *)
LEMMA MappedStep ==
    ASSUME IInv, ~is_end(prog, ip), prog' = prog,
           NEW n \in DOMAIN SingleSuccessors(prog, GraphState),
           GraphState' = SingleSuccessors(prog, GraphState)[n]
    PROVE  Walk!Step
  <1>1. GraphState.pc = ip
    BY Mapped
  <1>2. Walk!Successors(prog, "none", GraphState) = SingleSuccessors(prog, GraphState)
    BY <1>1, SameGraph, Unfolded
  <1>3. ~Walk!is_end(prog, GraphState.pc)
    BY <1>1, SameGraph
  <1>4. QED
    BY <1>2, <1>3 DEF Walk!Step

-----------------------------------------------------------------------------
LEMMA GetRefines == ASSUME ~EndsEarly, IInv, Get PROVE Walk!Step
  <1> DEFINE s == GraphState
             chars == get_possible_chars(prog.io_model, s.remaining)
             values == IF chars = << >> THEN <<CurrentCell(s)>>
                       ELSE [n \in DOMAIN chars |-> normalize_value(m, chars[n])]
             budget == IF s.remaining # NoValue /\ s.remaining > 0
                       THEN s.remaining - 1 ELSE s.remaining
             Offered(value) == Budget(Write(s, value, s.pc + 1), budget)
  <1>1. /\ ~is_end(prog, ip) /\ prog.ops[ip] = "get" /\ ip' = ip + 1
        /\ UNCHANGED <<prog, ptr>>
    BY DEF Get, At
  <1>2. PICK read \in read_next_char(io, Char) :
          /\ io' = read.io
          /\ memory' = IF read.result # NoValue
                       THEN Stored(normalize_value(m, read.result))
                       ELSE IF ~io.no_change_on_eof
                       THEN Stored(normalize_value(m, io.eof_char))
                       ELSE memory
    BY DEF Get, Stdin, IInv
  <1>3. /\ s.pc = ip /\ s.mem_ptr = ptr /\ s.remaining = io.chars_until_eof
        /\ CurrentCell(s) = get_current_value
    BY Mapped
  <1>4. /\ IsIOModel(io)
        /\ s.remaining = io.chars_until_eof
        /\ io' = read.io
    BY <1>2, <1>3 DEF IInv
  <1>5. io'.chars_until_eof = budget
    <2>1. read.io.chars_until_eof =
            IF io.chars_until_eof # NoValue /\ io.chars_until_eof > 0
            THEN io.chars_until_eof - 1 ELSE io.chars_until_eof
      BY <1>4, AfterRead
    <2>2. QED
      BY <1>4, <2>1
  <1>6. read.result = NoValue => get_possible_chars(io, s.remaining) = AtEof(io)
    BY <1>4, AfterRead
  <1>7. ASSUME read.result # NoValue
        PROVE  \E n \in DOMAIN get_possible_chars(io, s.remaining) :
                 get_possible_chars(io, s.remaining)[n] = read.result
    <2>1. \E n \in DOMAIN get_possible_chars(io, io.chars_until_eof) :
            get_possible_chars(io, io.chars_until_eof)[n] = read.result
      BY ZenonT(30), <1>4, <1>7, AfterRead
    <2>2. QED
      BY <1>4, <2>1
  <1>8. /\ io.no_change_on_eof = prog.io_model.no_change_on_eof
        /\ io.eof_char = prog.io_model.eof_char
        /\ io.input = prog.io_model.input
        /\ io.no_change_on_eof \in BOOLEAN
    BY DEF IInv, SameInput, IsProgram, IsIOModel
  <1>9. chars = get_possible_chars(io, s.remaining) /\ AtEof(io) = AtEof(prog.io_model)
    BY <1>8 DEF get_possible_chars, has_input, PinnedRemaining, PinnedByte, AtEof
  <1>10. SingleSuccessors(prog, s) = [n \in DOMAIN values |-> Offered(values[n])]
    BY <1>1, <1>3 DEF SingleSuccessors, ReadSuccessors, m, Budget
  <1>11. \E n \in DOMAIN values : GraphState' = Offered(values[n])
    <2>1. CASE read.result # NoValue
      <3>1. PICK n \in DOMAIN chars : chars[n] = read.result
        BY <1>7, <1>9, <2>1
      <3>2. chars # << >>
        BY <3>1
      <3>3. n \in DOMAIN values /\ values[n] = normalize_value(m, read.result)
        BY <3>1, <3>2
      <3>4. GraphState' = Offered(normalize_value(m, read.result))
        BY <1>1, <1>2, <1>3, <1>5, <2>1, MappedWrite
      <3>5. QED
        BY <3>3, <3>4
    <2>2. CASE read.result = NoValue /\ ~io.no_change_on_eof
      <3>1. chars = <<io.eof_char>>
        BY <1>6, <1>9, <2>2 DEF AtEof
      <3>2. 1 \in DOMAIN values /\ values[1] = normalize_value(m, io.eof_char)
        BY <3>1
      <3>3. GraphState' = Offered(normalize_value(m, io.eof_char))
        BY <1>1, <1>2, <1>3, <1>5, <2>2, MappedWrite
      <3>4. QED
        BY <3>2, <3>3
    <2>3. CASE read.result = NoValue /\ io.no_change_on_eof
      <3>1. chars = << >>
        BY <1>6, <1>9, <2>3 DEF AtEof
      <3>2. 1 \in DOMAIN values /\ values[1] = get_current_value
        BY <1>3, <3>1
      <3>3. memory' = memory
        BY <1>2, <2>3
      <3>4. GraphState' = Offered(get_current_value)
        BY <1>1, <1>3, <1>5, <3>3, MappedKeep
      <3>5. QED
        BY <3>2, <3>4
    <2>4. QED
      BY <2>1, <2>2, <2>3, <1>8
  <1>12. PICK n \in DOMAIN values : GraphState' = Offered(values[n])
    BY <1>11
  <1>13. /\ n \in DOMAIN SingleSuccessors(prog, s)
         /\ GraphState' = SingleSuccessors(prog, s)[n]
    BY <1>10, <1>12
  <1>14. QED
    BY <1>1, <1>13, MappedStep

(* The instructions that do not read have one successor.                   *)
LEMMA OneRefines ==
    ASSUME IInv, Left \/ Right \/ Increment \/ Decrement \/ Put \/ Forward \/ Backward
    PROVE  Walk!Step
  <1> DEFINE s == GraphState
  <1>1. /\ s.pc = ip /\ s.mem_ptr = ptr
        /\ CurrentCell(s) = get_current_value
    BY Mapped
  <1>2. ~is_end(prog, ip) /\ prog' = prog /\ io' = io
    BY DEF Left, Right, Increment, Decrement, Put, Forward, Backward, At
  <1>3. ASSUME SingleSuccessors(prog, s) = <<GraphState'>>
        PROVE  Walk!Step
    <2>1. /\ 1 \in DOMAIN SingleSuccessors(prog, s)
          /\ GraphState' = SingleSuccessors(prog, s)[1]
      BY <1>3
    <2>2. QED
      BY <1>2, <2>1, MappedStep
  <1>4. CASE Left
    <2>1. SingleSuccessors(prog, s) = <<Point(s, pointer_left(m, ptr), ip + 1)>>
      BY <1>1, <1>4 DEF Left, At, SingleSuccessors, m
    <2>2. GraphState' = Point(s, pointer_left(m, ptr), ip + 1)
      BY <1>4, MappedMove DEF Left
    <2>3. QED
      BY <1>3, <2>1, <2>2
  <1>5. CASE Right
    <2>1. SingleSuccessors(prog, s) = <<Point(s, pointer_right(m, ptr), ip + 1)>>
      BY <1>1, <1>5 DEF Right, At, SingleSuccessors, m
    <2>2. GraphState' = Point(s, pointer_right(m, ptr), ip + 1)
      BY <1>5, MappedMove DEF Right
    <2>3. QED
      BY <1>3, <2>1, <2>2
  <1>6. CASE Increment
    <2>1. SingleSuccessors(prog, s) = <<Write(s, next_value(m, get_current_value), ip + 1)>>
      BY <1>1, <1>6 DEF Increment, At, SingleSuccessors, m
    <2>2. GraphState' = Write(s, next_value(m, get_current_value), ip + 1)
      BY <1>6, MappedWrite DEF Increment
    <2>3. QED
      BY <1>3, <2>1, <2>2
  <1>7. CASE Decrement
    <2>1. SingleSuccessors(prog, s) = <<Write(s, prev_value(m, get_current_value), ip + 1)>>
      BY <1>1, <1>7 DEF Decrement, At, SingleSuccessors, m
    <2>2. GraphState' = Write(s, prev_value(m, get_current_value), ip + 1)
      BY <1>7, MappedWrite DEF Decrement
    <2>3. QED
      BY <1>3, <2>1, <2>2
  <1>8. CASE Put
    <2>1. SingleSuccessors(prog, s) = <<Goto(s, ip + 1)>>
      BY <1>1, <1>8 DEF Put, At, SingleSuccessors
    <2>2. GraphState' = Goto(s, ip + 1)
      BY <1>8, MappedMove DEF Put
    <2>3. QED
      BY <1>3, <2>1, <2>2
  <1>9. CASE Forward
    <2>1. SingleSuccessors(prog, s)
            = <<Goto(s, IF get_current_value = 0 THEN jump_target(prog, ip) ELSE ip + 1)>>
      BY <1>1, <1>9 DEF Forward, At, SingleSuccessors
    <2>2. GraphState' = Goto(s, IF get_current_value = 0 THEN jump_target(prog, ip) ELSE ip + 1)
      BY <1>9, MappedMove DEF Forward
    <2>3. QED
      BY <1>3, <2>1, <2>2
  <1>10. CASE Backward
    <2>1. SingleSuccessors(prog, s)
            = <<Goto(s, IF get_current_value # 0 THEN jump_target(prog, ip) ELSE ip + 1)>>
      BY <1>1, <1>10 DEF Backward, At, SingleSuccessors
    <2>2. GraphState' = Goto(s, IF get_current_value # 0 THEN jump_target(prog, ip) ELSE ip + 1)
      BY <1>10, MappedMove DEF Backward
    <2>3. QED
      BY <1>3, <2>1, <2>2
  <1>11. QED
    BY <1>4, <1>5, <1>6, <1>7, <1>8, <1>9, <1>10

(* Another call of run() starts another run with the budget that is left.  *)
LEMMA AgainRefines == ASSUME IInv, RunAgain PROVE Walk!Restart
  <1>1. Walk!is_end(prog, GraphState.pc)
    BY Mapped, SameGraph DEF RunAgain
  <1>2. GraphState.remaining = io.chars_until_eof
    BY Mapped
  <1>3. io = [prog.io_model EXCEPT !.chars_until_eof = GraphState.remaining]
    BY <1>2 DEF IInv, SameInput
  <1>4. prog' = [prog EXCEPT !.io_model.chars_until_eof = GraphState.remaining]
    BY <1>3 DEF RunAgain
  <1>5. /\ prog'.io_model = io
        /\ prog'.memory_model = prog.memory_model
    BY OtherInput DEF RunAgain, IInv
  <1>6. Tape' = [cell \in Cells(prog'.memory_model) |-> 0]
    BY DEF RunAgain, Tape, m
  <1>7. GraphState' = initial_state(prog')
    BY <1>5, <1>6, MappedTape DEF RunAgain, State, initial_state
  <1>8. Walk!Begin'
    BY <1>7, SameGraph DEF Walk!Begin
  <1>9. QED
    BY <1>1, <1>4, <1>8 DEF Walk!Restart

LEMMA InitRefines == ASSUME Init PROVE Walk!Begin
  <1>1. Tape = [cell \in Cells(prog.memory_model) |-> 0]
    BY DEF Init, Tape, m
  <1>2. GraphState = initial_state(prog)
    BY <1>1, MappedTape DEF Init, State, initial_state
  <1>3. QED
    BY <1>2, SameGraph DEF Walk!Begin

LEMMA NextRefines ==
    ASSUME ~EndsEarly, IInv, [Next]_vars
    PROVE  [Walk!Next \/ Walk!Restart]_Walk!vars
  <1>1. CASE Get
    BY <1>1, GetRefines DEF Walk!Next
  <1>2. CASE Left \/ Right \/ Increment \/ Decrement \/ Put \/ Forward \/ Backward
    BY <1>2, OneRefines DEF Walk!Next
  <1>3. CASE RunAgain
    BY <1>3, AgainRefines
  <1>4. CASE UNCHANGED vars
    <2>1. Tape' = Tape
      BY <1>4 DEF vars, Tape, m
    <2>2. UNCHANGED <<prog, GraphState>>
      BY <1>4, <2>1, MappedTape DEF vars
    <2>3. QED
      BY <2>2 DEF Walk!vars
  <1>5. QED
    BY <1>1, <1>2, <1>3, <1>4 DEF Next

-----------------------------------------------------------------------------
(* Every reachable state of the interpreter satisfies the invariant, if    *)
(* standard input lasts as long as the budget.                             *)
THEOREM Invariance == ASSUME ~EndsEarly PROVE Spec => []IInv
  <1>1. IInv /\ [Next]_vars => IInv'
    BY NextIInv
  <1>2. QED
    BY <1>1, InitIInv, PTL DEF Spec

(* If standard input lasts as long as the budget, Program::run(), called   *)
(* once or again, only produces runs of the unfolded state graph: whatever *)
(* an analysis establishes of all runs of the graph holds for every        *)
(* execution, of every program on every tape.                              *)
THEOREM Refines == ASSUME ~EndsEarly PROVE Spec => RefinesWalk
  <1>1. Init => Walk!Begin
    BY InitRefines
  <1>2. IInv /\ [Next]_vars => [Walk!Next \/ Walk!Restart]_Walk!vars
    BY NextRefines
  <1>3. QED
    BY <1>1, <1>2, Invariance, PTL DEF Spec, RefinesWalk, Walk!Runs


-----------------------------------------------------------------------------
(* The depth after n instructions depends on these alone.                  *)
LEMMA DepthPrefix ==
    ASSUME NEW a, NEW b, NEW n \in Nat, \A k \in 1..n : a[k] = b[k]
    PROVE  \A k \in 0..n : Depth(a, k) = Depth(b, k)
  <1> SUFFICES ASSUME NEW k \in 0..n PROVE Depth(a, k) = Depth(b, k)
    OBVIOUS
  <1>1. \A x : {j \in 1..k : a[j] = x} = {j \in 1..k : b[j] = x}
    OBVIOUS
  <1>2. QED
    BY <1>1 DEF Depth, Occurrences

LEMMA DepthAppend ==
    ASSUME NEW code \in Seq(Instruction), NEW x \in Instruction
    PROVE  /\ Append(code, x) \in Seq(Instruction)
           /\ Len(Append(code, x)) = Len(code) + 1
           /\ \A k \in 1..Len(code) : Append(code, x)[k] = code[k]
           /\ Append(code, x)[Len(code) + 1] = x
           /\ \A n \in 0..Len(code) : Depth(Append(code, x), n) = Depth(code, n)
           /\ Depth(Append(code, x), Len(code) + 1)
                = Depth(code, Len(code)) + (IF x = "fwd" THEN 1
                                            ELSE IF x = "bwd" THEN -1 ELSE 0)
  <1> DEFINE longer == Append(code, x)
  <1>1. /\ longer \in Seq(Instruction)
        /\ Len(longer) = Len(code) + 1
        /\ \A k \in 1..Len(code) : longer[k] = code[k]
        /\ longer[Len(code) + 1] = x
        /\ Len(code) \in Nat
    OBVIOUS
  <1> HIDE DEF longer
  <1>2. \A n \in 0..Len(code) : Depth(longer, n) = Depth(code, n)
    BY <1>1, DepthPrefix
  <1>3. Len(code) + 1 \in 1..Len(longer) /\ Len(code) \in 0..Len(code)
        /\ Len(code) + 1 - 1 = Len(code)
    BY <1>1
  <1>4. Depth(longer, Len(code) + 1)
          = Depth(longer, Len(code)) + (IF x = "fwd" THEN 1
                                        ELSE IF x = "bwd" THEN -1 ELSE 0)
    BY SMTT(30), <1>1, <1>3, DepthSteps
  <1>5. QED
    BY <1>1, <1>2, <1>3, <1>4 DEF longer

(* A bracket has at most one partner, which more instructions leave it.    *)
Paired(code, p, q) == Encloses(code, p, q) \/ Encloses(code, q, p)

LEMMA PairedUnique ==
    ASSUME NEW code \in Seq(Instruction), NEW p \in 1..Len(code),
           NEW q \in 1..Len(code), NEW r \in 1..Len(code),
           Paired(code, p, q), Paired(code, p, r)
    PROVE  q = r
  <1>1. \A k \in Nat : Depth(code, k) \in Int
    BY DepthSteps
  <1>2. p \in Nat /\ q \in Nat /\ r \in Nat /\ p - 1 \in Nat /\ q - 1 \in Nat /\ r - 1 \in Nat
    OBVIOUS
  <1>3. ASSUME Encloses(code, p, q), Encloses(code, p, r), q < r PROVE FALSE
    <2>1. q \in p..(r - 1)
      BY <1>2, <1>3 DEF Encloses
    <2>2. Depth(code, q) > Depth(code, r) /\ Depth(code, q) = Depth(code, r)
      BY <1>3, <2>1 DEF Encloses
    <2>3. QED
      BY <1>1, <1>2, <2>2
  <1>4. ASSUME Encloses(code, p, q), Encloses(code, p, r), r < q PROVE FALSE
    <2>1. r \in p..(q - 1)
      BY <1>2, <1>4 DEF Encloses
    <2>2. Depth(code, r) > Depth(code, q) /\ Depth(code, q) = Depth(code, r)
      BY <1>4, <2>1 DEF Encloses
    <2>3. QED
      BY <1>1, <1>2, <2>2
  <1>5. ASSUME Encloses(code, q, p), Encloses(code, r, p), q < r PROVE FALSE
    <2>1. r - 1 \in q..(p - 1)
      BY <1>2, <1>5 DEF Encloses
    <2>2. Depth(code, r - 1) > Depth(code, p) /\ Depth(code, r - 1) = Depth(code, p)
      BY <1>5, <2>1 DEF Encloses
    <2>3. QED
      BY <1>1, <1>2, <2>2
  <1>6. ASSUME Encloses(code, q, p), Encloses(code, r, p), r < q PROVE FALSE
    <2>1. q - 1 \in r..(p - 1)
      BY <1>2, <1>6 DEF Encloses
    <2>2. Depth(code, q - 1) > Depth(code, p) /\ Depth(code, q - 1) = Depth(code, p)
      BY <1>6, <2>1 DEF Encloses
    <2>3. QED
      BY <1>1, <1>2, <2>2
  <1>7. \/ Encloses(code, p, q) /\ Encloses(code, p, r)
        \/ Encloses(code, q, p) /\ Encloses(code, r, p)
    BY DEF Paired, Encloses
  <1>8. QED
    BY <1>2, <1>3, <1>4, <1>5, <1>6, <1>7

LEMMA PairedIsPartner ==
    ASSUME NEW code \in Seq(Instruction), NEW p \in 1..Len(code),
           NEW q \in 1..Len(code), Paired(code, p, q)
    PROVE  Partner(code, p) = q
  <1>1. Partner(code, p) \in 1..Len(code) /\ Paired(code, p, Partner(code, p))
    BY DEF Partner, Paired
  <1>2. QED
    BY <1>1, PairedUnique

LEMMA EnclosesAppend ==
    ASSUME NEW code \in Seq(Instruction), NEW x \in Instruction,
           NEW p \in 1..Len(code), NEW q \in 1..Len(code), Encloses(code, p, q)
    PROVE  Encloses(Append(code, x), p, q)
  <1>1. /\ \A k \in 1..Len(code) : Append(code, x)[k] = code[k]
        /\ \A n \in 0..Len(code) : Depth(Append(code, x), n) = Depth(code, n)
    BY DepthAppend
  <1>2. p - 1 \in 0..Len(code) /\ q \in 0..Len(code) /\ p..(q - 1) \subseteq 0..Len(code)
    OBVIOUS
  <1>3. QED
    BY <1>1, <1>2 DEF Encloses

LEMMA PairedAppend ==
    ASSUME NEW code \in Seq(Instruction), NEW x \in Instruction,
           NEW p \in 1..Len(code), NEW q \in 1..Len(code), Paired(code, p, q)
    PROVE  Paired(Append(code, x), p, q)
  BY EnclosesAppend DEF Paired

-----------------------------------------------------------------------------
(* StackInv and what it needs to be inductive: the stack holds places of   *)
(* instructions, no prefix closes more than it opens, and a bracket that   *)
(* has a target has a partner.                                             *)
StackOf(code, opened, targets) ==
    /\ code \in Seq(Instruction)
    /\ opened \in Seq(1..Len(code))
    /\ \A n \in 0..Len(code) : Depth(code, n) >= 0
    /\ \A k \in 1..Len(opened) :
          /\ code[opened[k]] = "fwd"
          /\ Depth(code, opened[k] - 1) = k - 1
          /\ \A n \in opened[k]..Len(code) : Depth(code, n) >= k
    /\ Len(opened) = Depth(code, Len(code))
    /\ DOMAIN targets = Brackets(code) \ ToSet(opened)
    /\ targets = [p \in DOMAIN targets |-> Partner(code, p) + 1]
    /\ \A p \in DOMAIN targets : \E q \in 1..Len(code) : Paired(code, p, q)

LEMMA StackEmpty == StackOf(<< >>, << >>, << >>)
  <1>1. << >> \in Seq(Instruction) /\ Len(<< >>) = 0 /\ 0 \in Nat
    OBVIOUS
  <1>2. Depth(<< >>, 0) = 0
    BY <1>1, DepthSteps
  <1>3. Brackets(<< >>) = {} /\ ToSet(<< >>) = {} /\ DOMAIN << >> = {}
    BY <1>1 DEF Brackets, ToSet
  <1>4. << >> = [p \in {} |-> Partner(<< >>, p) + 1]
    OBVIOUS
  <1>5. QED
    BY <1>1, <1>2, <1>3, <1>4 DEF StackOf

(* What another instruction leaves in place.                               *)
LEMMA StackKeeps ==
    ASSUME NEW code, NEW opened, NEW targets, StackOf(code, opened, targets),
           NEW x \in Instruction
    PROVE  /\ \A p \in DOMAIN targets :
                 /\ p \in 1..Len(code)
                 /\ \E q \in 1..Len(code) : Paired(Append(code, x), p, q)
                 /\ Partner(Append(code, x), p) = Partner(code, p)
           /\ \A k \in 1..Len(opened) :
                 /\ opened[k] \in 1..Len(code)
                 /\ Append(code, x)[opened[k]] = "fwd"
                 /\ Depth(Append(code, x), opened[k] - 1) = k - 1
                 /\ \A n \in opened[k]..Len(code) : Depth(Append(code, x), n) >= k
           /\ Brackets(Append(code, x))
                = Brackets(code) \cup (IF x \in {"fwd", "bwd"} THEN {Len(code) + 1} ELSE {})
  <1> DEFINE longer == Append(code, x)
  <1>1. code \in Seq(Instruction) /\ Len(code) \in Nat
    BY DEF StackOf
  <1>2. /\ longer \in Seq(Instruction)
        /\ Len(longer) = Len(code) + 1
        /\ \A k \in 1..Len(code) : longer[k] = code[k]
        /\ longer[Len(code) + 1] = x
        /\ \A n \in 0..Len(code) : Depth(longer, n) = Depth(code, n)
    BY <1>1, DepthAppend
  <1>3. ASSUME NEW p \in DOMAIN targets
        PROVE  /\ p \in 1..Len(code)
               /\ \E q \in 1..Len(code) : Paired(longer, p, q)
               /\ Partner(longer, p) = Partner(code, p)
    <2>1. p \in 1..Len(code)
      BY DEF StackOf, Brackets
    <2>2. PICK q \in 1..Len(code) : Paired(code, p, q)
      BY DEF StackOf
    <2>3. Paired(longer, p, q)
      BY <1>1, <2>1, <2>2, PairedAppend
    <2>4. p \in 1..Len(longer) /\ q \in 1..Len(longer)
      BY <1>1, <1>2, <2>1
    <2> HIDE DEF longer
    <2>5. Partner(longer, p) = q /\ Partner(code, p) = q
      BY <1>1, <1>2, <2>1, <2>2, <2>3, <2>4, PairedIsPartner
    <2>6. QED
      BY <2>1, <2>3, <2>5
  <1> HIDE DEF longer
  <1>4. ASSUME NEW k \in 1..Len(opened)
        PROVE  /\ opened[k] \in 1..Len(code)
               /\ longer[opened[k]] = "fwd"
               /\ Depth(longer, opened[k] - 1) = k - 1
               /\ \A n \in opened[k]..Len(code) : Depth(longer, n) >= k
    <2>1. opened[k] \in 1..Len(code)
      BY DEF StackOf
    <2>2. opened[k] - 1 \in 0..Len(code) /\ opened[k]..Len(code) \subseteq 0..Len(code)
      BY <1>1, <2>1
    <2>3. QED
      BY <1>2, <2>1, <2>2 DEF StackOf
  <1>5. Brackets(longer)
          = Brackets(code) \cup (IF x \in {"fwd", "bwd"} THEN {Len(code) + 1} ELSE {})
    BY <1>1, <1>2 DEF Brackets
  <1>6. QED
    BY <1>3, <1>4, <1>5 DEF longer

LEMMA SeqWider ==
    ASSUME NEW S, NEW T, S \subseteq T, NEW q \in Seq(S)
    PROVE  q \in Seq(T)
  <1>1. q \in [1..Len(q) -> S] /\ Len(q) \in Nat
    OBVIOUS
  <1>2. q \in [1..Len(q) -> T]
    BY <1>1
  <1>3. QED
    BY <1>1, <1>2

LEMMA StackPlain ==
    ASSUME NEW code, NEW opened, NEW targets, StackOf(code, opened, targets),
           NEW x \in Instruction \ {"fwd", "bwd"}
    PROVE  StackOf(Append(code, x), opened, targets)
  <1> DEFINE longer == Append(code, x)
  <1>1. code \in Seq(Instruction) /\ Len(code) \in Nat /\ x \in Instruction
    BY DEF StackOf
  <1>2. /\ longer \in Seq(Instruction)
        /\ Len(longer) = Len(code) + 1
        /\ \A n \in 0..Len(code) : Depth(longer, n) = Depth(code, n)
        /\ Depth(longer, Len(code) + 1) = Depth(code, Len(code)) + 0
    BY <1>1, DepthAppend
  <1>3. Depth(code, Len(code)) = Len(opened) /\ Len(opened) \in Nat
    BY DEF StackOf
  <1>4. Depth(longer, Len(longer)) = Len(opened)
    BY <1>2, <1>3
  <1>5. /\ \A p \in DOMAIN targets :
              /\ p \in 1..Len(code)
              /\ \E q \in 1..Len(code) : Paired(longer, p, q)
              /\ Partner(longer, p) = Partner(code, p)
        /\ \A k \in 1..Len(opened) :
              /\ opened[k] \in 1..Len(code)
              /\ longer[opened[k]] = "fwd"
              /\ Depth(longer, opened[k] - 1) = k - 1
              /\ \A n \in opened[k]..Len(code) : Depth(longer, n) >= k
        /\ Brackets(longer) = Brackets(code)
    <2>1. x \notin {"fwd", "bwd"}
      OBVIOUS
    <2>2. Brackets(longer)
            = Brackets(code) \cup (IF x \in {"fwd", "bwd"} THEN {Len(code) + 1} ELSE {})
      BY <1>1, StackKeeps
    <2>3. Brackets(longer) = Brackets(code)
      BY <2>1, <2>2
    <2>4. QED
      BY <1>1, <2>3, StackKeeps
  <1> HIDE DEF longer
  <1>6. opened \in Seq(1..Len(longer))
    <2>1. opened \in Seq(1..Len(code)) /\ 1..Len(code) \subseteq 1..Len(longer)
      BY <1>1, <1>2 DEF StackOf
    <2>2. QED
      BY <2>1, SeqWider
  <1>7. \A n \in 0..Len(longer) : Depth(longer, n) >= 0
    <2>1. \A n \in 0..Len(code) : Depth(code, n) >= 0
      BY DEF StackOf
    <2>2. QED
      BY <1>1, <1>2, <1>3, <1>4, <2>1
  <1>8. ASSUME NEW k \in 1..Len(opened), NEW n \in opened[k]..Len(longer)
        PROVE  Depth(longer, n) >= k
    <2>1. CASE n = Len(longer)
      BY <1>3, <1>4, <2>1
    <2>2. CASE n # Len(longer)
      BY <1>1, <1>2, <1>5, <2>2
    <2>3. QED
      BY <2>1, <2>2
  <1>9. targets = [p \in DOMAIN targets |-> Partner(longer, p) + 1]
    <2>1. targets = [p \in DOMAIN targets |-> Partner(code, p) + 1]
      BY DEF StackOf
    <2>2. QED
      BY <1>5, <2>1
  <1>10. \A p \in DOMAIN targets : \E q \in 1..Len(longer) : Paired(longer, p, q)
    BY <1>1, <1>2, <1>5
  <1>11. DOMAIN targets = Brackets(longer) \ ToSet(opened)
    BY <1>5 DEF StackOf
  <1>12. StackOf(longer, opened, targets)
    BY <1>2, <1>4, <1>5, <1>6, <1>7, <1>8, <1>9, <1>10, <1>11 DEF StackOf
  <1>13. QED
    BY <1>12 DEF longer

LEMMA StackOpen ==
    ASSUME NEW code, NEW opened, NEW targets, StackOf(code, opened, targets)
    PROVE  StackOf(Append(code, "fwd"), Append(opened, Len(code) + 1), targets)
  <1> DEFINE longer == Append(code, "fwd")
             top == Append(opened, Len(code) + 1)
  <1>1. code \in Seq(Instruction) /\ Len(code) \in Nat /\ "fwd" \in Instruction
    BY DEF StackOf, Instruction
  <1>2. /\ longer \in Seq(Instruction)
        /\ Len(longer) = Len(code) + 1
        /\ longer[Len(code) + 1] = "fwd"
        /\ \A n \in 0..Len(code) : Depth(longer, n) = Depth(code, n)
        /\ Depth(longer, Len(code) + 1) = Depth(code, Len(code)) + 1
    BY <1>1, DepthAppend
  <1>3. Depth(code, Len(code)) = Len(opened) /\ Len(opened) \in Nat
        /\ opened \in Seq(1..Len(code))
    BY DEF StackOf
  <1>4. Depth(longer, Len(longer)) = Len(opened) + 1
    BY <1>2, <1>3
  <1>5. /\ \A p \in DOMAIN targets :
              /\ p \in 1..Len(code)
              /\ \E q \in 1..Len(code) : Paired(longer, p, q)
              /\ Partner(longer, p) = Partner(code, p)
        /\ \A k \in 1..Len(opened) :
              /\ opened[k] \in 1..Len(code)
              /\ longer[opened[k]] = "fwd"
              /\ Depth(longer, opened[k] - 1) = k - 1
              /\ \A n \in opened[k]..Len(code) : Depth(longer, n) >= k
        /\ Brackets(longer) = Brackets(code) \cup {Len(code) + 1}
    BY <1>1, StackKeeps
  <1>6. /\ top \in Seq(1..Len(longer))
        /\ Len(top) = Len(opened) + 1
        /\ \A k \in 1..Len(opened) : top[k] = opened[k]
        /\ top[Len(opened) + 1] = Len(code) + 1
    <2>1. opened \in Seq(1..Len(code)) /\ 1..Len(code) \subseteq 1..Len(longer)
      BY <1>1, <1>2, <1>3
    <2>2. opened \in Seq(1..Len(longer)) /\ Len(code) + 1 \in 1..Len(longer)
      BY <1>1, <1>2, <2>1
    <2> HIDE DEF longer
    <2>3. QED
      BY <2>2
  <1> HIDE DEF longer, top
  <1>6a. /\ Len(top) = Len(opened) + 1
         /\ \A k \in 1..Len(opened) : top[k] = opened[k]
         /\ top[Len(opened) + 1] = Len(code) + 1
         /\ Len(opened) \in Nat /\ Len(code) \in Nat
    BY <1>1, <1>3, <1>6
  <1>7. \A n \in 0..Len(longer) : Depth(longer, n) >= 0
    <2>1. \A n \in 0..Len(code) : Depth(longer, n) >= 0
      BY <1>2 DEF StackOf
    <2>2. Depth(longer, Len(code) + 1) >= 0
      BY <1>2, <1>4, <1>6a
    <2>3. \A n \in 0..Len(longer) : n \in 0..Len(code) \/ n = Len(code) + 1
      BY <1>2, <1>6a
    <2>4. QED
      BY <2>1, <2>2, <2>3
  <1>8. ASSUME NEW k \in 1..Len(top)
        PROVE  /\ longer[top[k]] = "fwd"
               /\ Depth(longer, top[k] - 1) = k - 1
               /\ \A n \in top[k]..Len(longer) : Depth(longer, n) >= k
    <2>1. CASE k = Len(opened) + 1
      <3>1. top[k] = Len(code) + 1 /\ top[k] - 1 = Len(code)
        BY <1>6a, <2>1
      <3>2. Depth(longer, Len(code)) = Len(opened)
        BY <1>1, <1>2, <1>3
      <3>3. \A n \in top[k]..Len(longer) : n = Len(longer)
        BY <1>1, <1>2, <3>1
      <3>4. QED
        BY <1>2, <1>3, <1>4, <2>1, <3>1, <3>2, <3>3
    <2>2. CASE k # Len(opened) + 1
      <3>1. k \in 1..Len(opened) /\ top[k] = opened[k]
        BY <1>6a, <2>2
      <3>2. ASSUME NEW n \in opened[k]..Len(longer) PROVE Depth(longer, n) >= k
        <4>1. CASE n = Len(longer)
          BY <1>3, <1>4, <3>1, <4>1
        <4>2. CASE n # Len(longer)
          BY <1>1, <1>2, <1>5, <3>1, <4>2
        <4>3. QED
          BY <4>1, <4>2
      <3>3. QED
        BY <1>5, <3>1, <3>2
    <2>3. QED
      BY <2>1, <2>2
  <1>9. targets = [p \in DOMAIN targets |-> Partner(longer, p) + 1]
    <2>1. targets = [p \in DOMAIN targets |-> Partner(code, p) + 1]
      BY DEF StackOf
    <2>2. QED
      BY <1>5, <2>1
  <1>10. \A p \in DOMAIN targets : \E q \in 1..Len(longer) : Paired(longer, p, q)
    BY <1>1, <1>2, <1>5
  <1>11. DOMAIN targets = Brackets(longer) \ ToSet(top)
    <2>1. DOMAIN opened = 1..Len(opened) /\ DOMAIN top = 1..(Len(opened) + 1)
      BY <1>3, <1>6
    <2>2. ToSet(top) = ToSet(opened) \cup {Len(code) + 1}
      BY <1>3, <1>6, <2>1 DEF ToSet
    <2>3. Len(code) + 1 \notin Brackets(code)
      BY <1>1 DEF Brackets
    <2>4. DOMAIN targets = Brackets(code) \ ToSet(opened)
      BY DEF StackOf
    <2>5. QED
      BY <1>5, <2>2, <2>3, <2>4
  <1>12. StackOf(longer, top, targets)
    BY <1>2, <1>4, <1>6, <1>7, <1>8, <1>9, <1>10, <1>11 DEF StackOf
  <1>13. QED
    BY <1>12 DEF longer, top

(* A closing bracket is the partner of the one on top of the stack.        *)
LEMMA StackClose ==
    ASSUME NEW code, NEW opened, NEW targets, StackOf(code, opened, targets),
           opened # << >>
    PROVE  StackOf(Append(code, "bwd"), Front(opened),
                   [p \in DOMAIN targets \cup {Last(opened), Len(code) + 1} |->
                       IF p = Last(opened) THEN Len(code) + 2
                       ELSE IF p = Len(code) + 1 THEN Last(opened) + 1
                       ELSE targets[p]])
  <1> DEFINE longer == Append(code, "bwd")
             top == Front(opened)
             p0 == Last(opened)
             q0 == Len(code) + 1
             goals == [p \in DOMAIN targets \cup {p0, q0} |->
                          IF p = p0 THEN Len(code) + 2
                          ELSE IF p = q0 THEN p0 + 1 ELSE targets[p]]
  <1>1. code \in Seq(Instruction) /\ Len(code) \in Nat /\ "bwd" \in Instruction
    BY DEF StackOf, Instruction
  <1>2. /\ longer \in Seq(Instruction)
        /\ Len(longer) = Len(code) + 1
        /\ \A k \in 1..Len(code) : longer[k] = code[k]
        /\ longer[q0] = "bwd"
        /\ \A n \in 0..Len(code) : Depth(longer, n) = Depth(code, n)
        /\ Depth(longer, q0) = Depth(code, Len(code)) + (-1)
    BY <1>1, DepthAppend
  <1>3. Depth(code, Len(code)) = Len(opened) /\ opened \in Seq(1..Len(code))
    BY DEF StackOf
  <1>4. Len(opened) \in Nat /\ Len(opened) >= 1
    BY <1>3
  <1>5. /\ top \in Seq(1..Len(code))
        /\ Len(top) = Len(opened) - 1
        /\ \A k \in 1..(Len(opened) - 1) : top[k] = opened[k]
    BY <1>3, <1>4 DEF Front
  <1>6. /\ \A p \in DOMAIN targets :
              /\ p \in 1..Len(code)
              /\ \E q \in 1..Len(code) : Paired(longer, p, q)
              /\ Partner(longer, p) = Partner(code, p)
        /\ \A k \in 1..Len(opened) :
              /\ opened[k] \in 1..Len(code)
              /\ longer[opened[k]] = "fwd"
              /\ Depth(longer, opened[k] - 1) = k - 1
              /\ \A n \in opened[k]..Len(code) : Depth(longer, n) >= k
        /\ Brackets(longer) = Brackets(code) \cup {q0}
    BY <1>1, StackKeeps
  <1>7. Depth(longer, Len(longer)) = Len(top) /\ Len(longer) = q0
    BY <1>2, <1>3, <1>4, <1>5
  <1>8. p0 = opened[Len(opened)]
    BY DEF Last
  <1> HIDE DEF longer, top, p0, q0, goals
  <1>9. p0 \in 1..Len(code) /\ q0 = Len(code) + 1 /\ p0 < q0 /\ q0 - 1 = Len(code)
    <2>1. Len(opened) \in 1..Len(opened)
      BY <1>4
    <2>2. p0 \in 1..Len(code)
      BY <1>6, <1>8, <2>1
    <2>3. QED
      BY <1>1, <2>2 DEF q0
  <1>10. Encloses(longer, p0, q0)
    <2>1. Len(opened) \in 1..Len(opened)
      BY <1>4
    <2>2. /\ longer[p0] = "fwd" /\ Depth(longer, p0 - 1) = Len(opened) - 1
          /\ \A n \in p0..Len(code) : Depth(longer, n) >= Len(opened)
      BY <1>6, <1>8, <2>1
    <2>3. Depth(longer, q0) = Len(opened) - 1
      BY <1>4, <1>5, <1>7
    <2>4. \A n \in 0..Len(longer) : Depth(longer, n) \in Int
      BY <1>2, DepthSteps
    <2>5. ASSUME NEW n \in p0..(q0 - 1) PROVE Depth(longer, n) > Depth(longer, q0)
      <3>1. Depth(longer, n) >= Len(opened) /\ Depth(longer, n) \in Int
        BY <1>1, <1>2, <1>9, <2>2, <2>4
      <3>2. QED
        BY <1>4, <2>3, <3>1
    <2>6. QED
      BY <1>2, <1>9, <2>2, <2>3, <2>5 DEF Encloses
  <1>11. Partner(longer, p0) = q0 /\ Partner(longer, q0) = p0
    <2>1. p0 \in 1..Len(longer) /\ q0 \in 1..Len(longer)
      BY <1>1, <1>2, <1>9
    <2>2. Paired(longer, p0, q0) /\ Paired(longer, q0, p0)
      BY <1>10 DEF Paired
    <2>3. QED
      BY <1>2, <2>1, <2>2, PairedIsPartner
  <1>12. top \in Seq(1..Len(longer))
    <2>1. 1..Len(code) \subseteq 1..Len(longer)
      BY <1>1, <1>2
    <2>2. QED
      BY <1>5, <2>1, SeqWider
  <1>13. \A n \in 0..Len(longer) : Depth(longer, n) >= 0
    <2>1. \A n \in 0..Len(code) : Depth(code, n) >= 0
      BY DEF StackOf
    <2>2. Depth(longer, Len(longer)) >= 0
      BY <1>4, <1>5, <1>7
    <2>3. QED
      BY <1>1, <1>2, <2>1, <2>2
  <1>14. ASSUME NEW k \in 1..Len(top)
         PROVE  /\ k \in 1..Len(opened)
                /\ top[k] = opened[k]
                /\ longer[top[k]] = "fwd"
                /\ Depth(longer, top[k] - 1) = k - 1
                /\ \A n \in top[k]..Len(longer) : Depth(longer, n) >= k
    <2>1. k \in 1..Len(opened) /\ top[k] = opened[k]
      BY <1>4, <1>5
    <2>2. ASSUME NEW n \in top[k]..Len(longer) PROVE Depth(longer, n) >= k
      <3>1. CASE n = Len(longer)
        BY <1>4, <1>5, <1>7, <3>1
      <3>2. CASE n # Len(longer)
        BY <1>1, <1>2, <1>6, <2>1, <3>2
      <3>3. QED
        BY <3>1, <3>2
    <2>3. QED
      BY <1>6, <2>1, <2>2
  <1>15. ToSet(opened) = ToSet(top) \cup {p0}
    <2>1. DOMAIN opened = 1..Len(opened) /\ DOMAIN top = 1..(Len(opened) - 1)
      BY <1>3, <1>5
    <2>2. ToSet(opened) = {opened[k] : k \in 1..Len(opened)}
      BY <2>1 DEF ToSet
    <2>3. ToSet(top) = {opened[k] : k \in 1..(Len(opened) - 1)}
      BY <1>5, <2>1 DEF ToSet
    <2>4. 1..Len(opened) = 1..(Len(opened) - 1) \cup {Len(opened)}
      BY <1>4
    <2>5. QED
      BY <1>8, <2>2, <2>3, <2>4
  <1>16. p0 \notin ToSet(top) /\ q0 \notin ToSet(top)
    <2> SUFFICES ASSUME NEW k \in 1..Len(top) PROVE top[k] # p0 /\ top[k] # q0
      <3>1. DOMAIN top = 1..Len(top)
        BY <1>5
      <3>2. QED
        BY <3>1 DEF ToSet
    <2>1. top[k] # q0
      <3>1. top[k] \in 1..Len(code)
        BY <1>6, <1>14
      <3>2. QED
        BY <1>1, <1>9, <3>1
    <2>2. Depth(longer, top[k] - 1) = k - 1
      BY <1>14
    <2>3. Depth(longer, p0 - 1) = Len(opened) - 1
      BY <1>4, <1>6, <1>8
    <2>4. k - 1 # Len(opened) - 1
      BY <1>4, <1>5
    <2>5. QED
      BY <2>1, <2>2, <2>3, <2>4
  <1>17. DOMAIN goals = DOMAIN targets \cup {p0, q0}
    BY DEF goals
  <1>18. DOMAIN goals = Brackets(longer) \ ToSet(top)
    <2>1. DOMAIN targets = Brackets(code) \ ToSet(opened)
      BY DEF StackOf
    <2>2. p0 \in Brackets(code)
      <3>1. Len(opened) \in 1..Len(opened)
        BY <1>4
      <3>2. code[p0] = "fwd"
        BY <1>8, <3>1 DEF StackOf
      <3>3. QED
        BY <1>9, <3>2 DEF Brackets
    <2>3. QED
      BY <1>6, <1>15, <1>16, <1>17, <2>1, <2>2
  <1>19. ASSUME NEW p \in DOMAIN targets
         PROVE  p # p0 /\ p # q0 /\ targets[p] = Partner(longer, p) + 1
    <2>1. p \notin ToSet(opened)
      BY DEF StackOf
    <2>2. p # q0
      BY <1>1, <1>6, <1>9
    <2>3. targets = [p_1 \in DOMAIN targets |-> Partner(code, p_1) + 1]
      BY DEF StackOf
    <2>4. QED
      BY <1>6, <1>15, <2>1, <2>2, <2>3
  <1>20. goals = [p \in DOMAIN goals |-> Partner(longer, p) + 1]
    <2>1. q0 + 1 = Len(code) + 2 /\ p0 # q0
      BY <1>1, <1>9
    <2>2. ASSUME NEW p \in DOMAIN goals PROVE goals[p] = Partner(longer, p) + 1
      BY <1>11, <1>17, <1>19, <2>1, <2>2 DEF goals
    <2>3. goals = [p \in DOMAIN goals |-> goals[p]]
      BY DEF goals
    <2>4. QED
      BY <2>2, <2>3
  <1>21. \A p \in DOMAIN goals : \E q \in 1..Len(longer) : Paired(longer, p, q)
    <2>1. p0 \in 1..Len(longer) /\ q0 \in 1..Len(longer)
      BY <1>1, <1>2, <1>9
    <2>2. Paired(longer, p0, q0) /\ Paired(longer, q0, p0)
      BY <1>10 DEF Paired
    <2>3. 1..Len(code) \subseteq 1..Len(longer)
      BY <1>1, <1>2
    <2>4. QED
      BY <1>6, <1>17, <2>1, <2>2, <2>3
  <1>22. StackOf(longer, top, goals)
    BY <1>2, <1>7, <1>12, <1>13, <1>14, <1>18, <1>20, <1>21 DEF StackOf
  <1>23. QED
    BY <1>22 DEF longer, top, goals, p0, q0

-----------------------------------------------------------------------------
(* The inductive invariant of the tables: a parsed text has nothing open.  *)
TablesInv ==
    /\ StackOf(ops, open_brackets, jumps)
    /\ status = "parsed" => open_brackets = << >>

LEMMA TablesInit == ParseInit => TablesInv
  BY StackEmpty DEF ParseInit, TablesInv

LEMMA TablesNext == ASSUME TablesInv, [ParseNext]_scan PROVE TablesInv'
  <1>1. StackOf(ops, open_brackets, jumps)
    BY DEF TablesInv
  <1>2. ops \in Seq(Instruction) /\ pc = Len(ops) + 1 /\ pc + 1 = Len(ops) + 2
    BY <1>1 DEF StackOf, pc
  <1>3. CASE PushPlain
    <2>1. PICK x \in Instruction \ {"fwd", "bwd"} : ops' = Append(ops, x)
      BY <1>3 DEF PushPlain, Reads
    <2>2. StackOf(Append(ops, x), open_brackets, jumps)
      BY <1>1, StackPlain
    <2>3. QED
      BY <1>3, <2>1, <2>2 DEF PushPlain, Reads, TablesInv
  <1>4. CASE PushOpen
    <2>1. StackOf(Append(ops, "fwd"), Append(open_brackets, Len(ops) + 1), jumps)
      BY <1>1, StackOpen
    <2>2. QED
      BY <1>2, <1>4, <2>1 DEF PushOpen, Reads, TablesInv
  <1>5. CASE PushClose
    <2>1. open_brackets # << >>
      BY <1>5 DEF PushClose
    <2>2. StackOf(Append(ops, "bwd"), Front(open_brackets),
                  [p \in DOMAIN jumps \cup {Last(open_brackets), Len(ops) + 1} |->
                      IF p = Last(open_brackets) THEN Len(ops) + 2
                      ELSE IF p = Len(ops) + 1 THEN Last(open_brackets) + 1
                      ELSE jumps[p]])
      BY <1>1, <2>1, StackClose
    <2>3. jumps' = [p \in DOMAIN jumps \cup {Last(open_brackets), Len(ops) + 1} |->
                      IF p = Last(open_brackets) THEN Len(ops) + 2
                      ELSE IF p = Len(ops) + 1 THEN Last(open_brackets) + 1
                      ELSE jumps[p]]
      BY <1>2, <1>5 DEF PushClose
    <2>4. /\ ops' = Append(ops, "bwd") /\ open_brackets' = Front(open_brackets)
          /\ status' # "parsed"
      BY <1>5 DEF PushClose, Reads
    <2>5. StackOf(ops', open_brackets', jumps')
      BY <2>2, <2>3, <2>4
    <2>6. QED
      BY <2>4, <2>5 DEF TablesInv
  <1>6. CASE RejectClose
    BY <1>1, <1>6 DEF RejectClose, TablesInv
  <1>7. CASE ReadLabel
    BY <1>1, <1>7 DEF ReadLabel, Reads, TablesInv
  <1>8. CASE SkipComment
    BY <1>1, <1>8 DEF SkipComment, TablesInv
  <1>9. CASE Finish
    BY <1>1, <1>9 DEF Finish, TablesInv
  <1>10. CASE ParsePrinted
    BY <1>10, StackEmpty DEF ParsePrinted, TablesInv
  <1>11. CASE UNCHANGED scan
    BY <1>11 DEF scan, TablesInv
  <1>12. QED
    BY <1>3, <1>4, <1>5, <1>6, <1>7, <1>8, <1>9, <1>10, <1>11 DEF ParseNext

LEMMA TablesAlways == ParseSpec => []TablesInv
  <1>1. ParseInit => TablesInv
    BY TablesInit
  <1>2. TablesInv /\ [ParseNext]_scan => TablesInv'
    BY TablesNext
  <1>3. QED
    BY <1>1, <1>2, PTL DEF ParseSpec

LEMMA TablesGiveStack == TablesInv => StackInv
  <1> SUFFICES ASSUME TablesInv PROVE StackInv
    OBVIOUS
  <1>1. StackOf(ops, open_brackets, jumps)
    BY DEF TablesInv
  <1>2. \A p \in DOMAIN jumps : jumps[p] = Partner(ops, p) + 1
    BY <1>1 DEF StackOf
  <1>3. QED
    BY <1>1, <1>2 DEF StackOf, StackInv

(* In every text, of whatever length, the stack of the tokenizer holds     *)
(* between two characters exactly the brackets that are still open, and    *)
(* the jump table has the target of every other one.                       *)
THEOREM StackCorrect == ParseSpec => []StackInv
  BY TablesAlways, TablesGiveStack, PTL

(* What the rest of the program takes for granted of a parsed text: its    *)
(* brackets are balanced, and the jump table is that of Partner.           *)
Linked == status = "parsed" => Balanced(ops) /\ jumps = JumpTable(ops)

LEMMA TablesGiveLinks == TablesInv => Linked
  <1> SUFFICES ASSUME TablesInv, status = "parsed"
               PROVE  Balanced(ops) /\ jumps = JumpTable(ops)
    BY DEF Linked
  <1>1. StackOf(ops, << >>, jumps)
    BY DEF TablesInv
  <1>2. Balanced(ops)
    BY <1>1 DEF StackOf, Balanced
  <1>3. DOMAIN jumps = Brackets(ops)
    BY <1>1 DEF StackOf, ToSet
  <1>4. QED
    BY <1>1, <1>2, <1>3 DEF StackOf, JumpTable

(* A text that parse_from_istream() accepts is balanced, and its jump      *)
(* table is the one that every other theorem takes a program to have.      *)
THEOREM ParsedLinked == ParseSpec => []Linked
  BY TablesAlways, TablesGiveLinks, PTL

-----------------------------------------------------------------------------
(* The places of a finite set of naturals in their order.                  *)
Rank(S, k) == Cardinality({j \in S : j < k})

LEMMA RankSteps ==
    ASSUME NEW n \in Nat, NEW S \in SUBSET (1..n)
    PROVE  /\ Rank(S, 1) = 0
           /\ \A k \in Nat : Rank(S, k) \in Nat
           /\ \A k \in Nat : Rank(S, k + 1) = Rank(S, k) + (IF k \in S THEN 1 ELSE 0)
           /\ \A k \in Nat : k > n => Rank(S, k) = Cardinality(S)
  <1> DEFINE T(k) == {j \in S : j < k}
  <1>1. \A k : IsFiniteSet(T(k))
    <2>1. IsFiniteSet(1..n)
      BY FS_Interval
    <2>2. \A k : T(k) \in SUBSET (1..n)
      OBVIOUS
    <2> HIDE DEF T
    <2>3. QED
      BY <2>1, <2>2, FS_Subset
  <1>0. \A j \in S : j \in Nat /\ 1 <= j /\ j <= n
    OBVIOUS
  <1>2. T(1) = {}
    <2>1. \A j \in S : ~(j < 1)
      BY <1>0
    <2>2. QED
      BY <2>1
  <1>3. ASSUME NEW k \in Nat
        PROVE  T(k + 1) = T(k) \cup (IF k \in S THEN {k} ELSE {}) /\ k \notin T(k)
    <2>1. \A j \in S : j < k + 1 <=> j < k \/ j = k
      BY <1>0
    <2>2. ~(k < k)
      OBVIOUS
    <2>3. QED
      BY <2>1, <2>2
  <1>4. ASSUME NEW k \in Nat, k > n PROVE T(k) = S
    <2>1. \A j \in S : j < k
      BY <1>0, <1>4
    <2>2. QED
      BY <2>1
  <1>5. \A k : Rank(S, k) = Cardinality(T(k))
    BY DEF Rank
  <1> HIDE DEF T
  <1>6. \A k : Cardinality(T(k)) \in Nat
    BY <1>1, FS_CardinalityType
  <1>7. ASSUME NEW k \in Nat
        PROVE  Cardinality(T(k + 1)) = Cardinality(T(k)) + (IF k \in S THEN 1 ELSE 0)
    <2>1. CASE k \in S
      <3>1. T(k + 1) = T(k) \cup {k} /\ k \notin T(k) /\ IsFiniteSet(T(k))
        BY <1>1, <1>3, <2>1
      <3>2. QED
        BY <2>1, <3>1, FS_AddElement
    <2>2. CASE k \notin S
      <3>1. T(k + 1) = T(k)
        BY <1>3, <2>2
      <3>2. QED
        BY <1>6, <2>2, <3>1
    <2>3. QED
      BY <2>1, <2>2
  <1>8. Rank(S, 1) = 0
    BY <1>2, <1>5, FS_EmptySet
  <1>9. QED
    BY <1>4, <1>5, <1>6, <1>7, <1>8

LEMMA RankGrows ==
    ASSUME NEW n \in Nat, NEW S \in SUBSET (1..n), NEW k \in Nat
    PROVE  \A l \in Nat : k <= l =>
              /\ Rank(S, k) <= Rank(S, l)
              /\ k \in S /\ k < l => Rank(S, k) < Rank(S, l)
  <1> DEFINE Good(l) == /\ Rank(S, k) <= Rank(S, l)
                        /\ k \in S /\ k < l => Rank(S, k) < Rank(S, l)
             T == {l \in Nat : k <= l /\ ~Good(l)}
  <1> SUFFICES ASSUME T # {} PROVE FALSE
    OBVIOUS
  <1>1. PICK l \in T : \A h \in T : l <= h
    <2>1. T \in SUBSET Nat /\ T # {}
      OBVIOUS
    <2> HIDE DEF T
    <2>2. QED
      BY <2>1, LeastElement
  <1>2. l \in Nat /\ k <= l /\ ~Good(l)
    OBVIOUS
  <1>3. /\ \A h \in Nat : Rank(S, h) \in Nat
        /\ \A h \in Nat : Rank(S, h + 1) = Rank(S, h) + (IF h \in S THEN 1 ELSE 0)
    BY RankSteps
  <1>4. l # k
    BY <1>2, <1>3
  <1>5. l - 1 \in Nat /\ k <= l - 1 /\ l - 1 \notin T
    <2>1. l - 1 \in Nat /\ k <= l - 1 /\ ~(l <= l - 1)
      BY <1>2, <1>4
    <2> HIDE DEF T
    <2>2. QED
      BY <1>1, <2>1
  <1>6. Good(l - 1)
    BY <1>5
  <1>7. Rank(S, l) = Rank(S, l - 1) + (IF l - 1 \in S THEN 1 ELSE 0)
    <2>1. (l - 1) + 1 = l
      BY <1>2
    <2>2. QED
      BY <1>3, <1>5, <2>1
  <1>8. /\ Rank(S, l) \in Nat /\ Rank(S, l - 1) \in Nat /\ Rank(S, k) \in Nat
    BY <1>2, <1>3, <1>5
  <1>9. CASE k = l - 1
    BY <1>2, <1>6, <1>7, <1>8, <1>9
  <1>10. CASE k # l - 1
    <2>1. k < l - 1
      BY <1>2, <1>5, <1>10
    <2>2. QED
      BY <1>2, <1>6, <1>7, <1>8, <2>1
  <1>11. QED
    BY <1>9, <1>10

(* Every rank below the number of elements is that of exactly one.         *)
LEMMA RankTaken ==
    ASSUME NEW n \in Nat, NEW S \in SUBSET (1..n), NEW r \in Nat, r < Cardinality(S)
    PROVE  \E k \in S : Rank(S, k) = r
  <1>1. /\ \A h \in Nat : Rank(S, h) \in Nat
        /\ \A h \in Nat : Rank(S, h + 1) = Rank(S, h) + (IF h \in S THEN 1 ELSE 0)
        /\ Rank(S, n + 1) = Cardinality(S)
        /\ Rank(S, 1) = 0
    <2>1. n + 1 \in Nat /\ n + 1 > n
      OBVIOUS
    <2>2. QED
      BY <2>1, RankSteps
  <1> DEFINE T == {h \in Nat : 1 <= h /\ Rank(S, h) > r}
  <1>2. PICK l \in T : \A h \in T : l <= h
    <2>1. T \in SUBSET Nat
      OBVIOUS
    <2>2. n + 1 \in T
      BY <1>1
    <2> HIDE DEF T
    <2>3. QED
      BY <2>1, <2>2, LeastElement
  <1>3. l \in Nat /\ 1 <= l /\ Rank(S, l) > r
    OBVIOUS
  <1>4. l # 1
    BY <1>1, <1>3
  <1>5. l - 1 \in Nat /\ 1 <= l - 1 /\ l - 1 \notin T
    <2>1. l - 1 \in Nat /\ 1 <= l - 1 /\ ~(l <= l - 1)
      BY <1>3, <1>4
    <2> HIDE DEF T
    <2>2. QED
      BY <1>2, <2>1
  <1>6. Rank(S, l - 1) <= r /\ Rank(S, l - 1) \in Nat
    BY <1>1, <1>5
  <1>7. Rank(S, l) = Rank(S, l - 1) + (IF l - 1 \in S THEN 1 ELSE 0)
    <2>1. (l - 1) + 1 = l
      BY <1>3
    <2>2. QED
      BY <1>1, <1>5, <2>1
  <1>8. l - 1 \in S /\ Rank(S, l - 1) = r
    BY <1>3, <1>6, <1>7
  <1>9. QED
    BY <1>8

LEMMA RankUnique ==
    ASSUME NEW n \in Nat, NEW S \in SUBSET (1..n), NEW k \in S, NEW l \in S,
           Rank(S, k) = Rank(S, l)
    PROVE  k = l
  <1>1. k \in Nat /\ l \in Nat
    OBVIOUS
  <1>2. Rank(S, k) \in Nat
    BY <1>1, RankSteps
  <1>3. \A x \in S : \A y \in Nat : x <= y => (x < y => Rank(S, x) < Rank(S, y))
    BY RankGrows
  <1>4. k <= l \/ l <= k
    BY <1>1
  <1>5. CASE k <= l
    <2>1. k < l => Rank(S, k) < Rank(S, l)
      BY <1>1, <1>3, <1>5
    <2>2. QED
      BY <1>1, <1>2, <1>5, <2>1
  <1>6. CASE l <= k
    <2>1. l < k => Rank(S, l) < Rank(S, k)
      BY <1>1, <1>3, <1>6
    <2>2. QED
      BY <1>1, <1>2, <1>6, <2>1
  <1>7. QED
    BY <1>4, <1>5, <1>6

(* The elements of S in their order: the value of each at its rank.        *)
LEMMA Ranked ==
    ASSUME NEW n \in Nat, NEW S \in SUBSET (1..n), NEW k \in S
    PROVE  /\ Rank(S, k) + 1 \in 1..Cardinality(S)
           /\ (CHOOSE l \in S : Rank(S, l) = Rank(S, k)) = k
           /\ (CHOOSE l \in S : Rank(S, l + 1) = Rank(S, k) + 1) = k
  <1>1. k \in Nat /\ n + 1 \in Nat /\ k < n + 1
    OBVIOUS
  <1>2. Rank(S, k) \in Nat /\ Rank(S, n + 1) = Cardinality(S)
    BY <1>1, RankSteps
  <1>3. Rank(S, k) < Rank(S, n + 1)
    <2>1. k <= n + 1
      BY <1>1
    <2>2. \A y \in Nat : k <= y => (k < y => Rank(S, k) < Rank(S, y))
      BY <1>1, RankGrows
    <2>3. QED
      BY <1>1, <2>1, <2>2
  <1>4. Cardinality(S) \in Nat
    <2>1. IsFiniteSet(1..n)
      BY FS_Interval
    <2>2. QED
      BY <2>1, FS_Subset, FS_CardinalityType
  <1>5. Rank(S, k) + 1 \in 1..Cardinality(S)
    BY <1>2, <1>3, <1>4
  <1>6. \A l \in S : Rank(S, l) = Rank(S, k) => l = k
    BY RankUnique
  <1>7. \A l \in S : Rank(S, l + 1) = Rank(S, k) + 1 => l = k
    <2> SUFFICES ASSUME NEW l \in S, Rank(S, l + 1) = Rank(S, k) + 1 PROVE l = k
      OBVIOUS
    <2>1. l \in Nat
      OBVIOUS
    <2>2. Rank(S, l) \in Nat /\ Rank(S, l + 1) = Rank(S, l) + 1
      BY <2>1, RankSteps
    <2>3. QED
      BY <1>2, <1>6, <2>2
  <1>8. Rank(S, k + 1) = Rank(S, k) + 1
    BY <1>1, RankSteps
  <1>9. QED
    BY <1>5, <1>6, <1>7, <1>8

(* Nothing of S between k and l.                                           *)
LEMMA RankSkips ==
    ASSUME NEW n \in Nat, NEW S \in SUBSET (1..n), NEW k \in Nat, NEW l \in Nat,
           k <= l, \A j \in k..(l - 1) : j \notin S
    PROVE  Rank(S, l) = Rank(S, k)
  <1>1. \A j \in S : j \in Nat
    OBVIOUS
  <1>2. \A j \in S : j < l <=> j < k
    BY <1>1
  <1>3. {j \in S : j < l} = {j \in S : j < k}
    BY <1>2
  <1>4. QED
    BY <1>3 DEF Rank

-----------------------------------------------------------------------------
(* The characters of a text are strings; the provers do not see that a     *)
(* string constant is in STRING.                                           *)
Character == STRING \cup Instruction \cup {Separator, "newline"}

(* Code, LabelStarts and LabelOf of any text.                              *)
CodeIn(text) ==
    {k \in 1..Len(text) :
        text[k] \in Instruction /\ Occurrences(text, Separator, 1..k) % 2 = 0}

LabelsIn(text) ==
    {k \in 1..Len(text) :
        text[k] = Separator /\ Occurrences(text, Separator, 1..k) % 2 = 1}

NameEnd(text, k) ==
    Min({j \in (k + 1)..Len(text) : text[j] = Separator} \cup {Len(text) + 1})

LabelIn(text, k) ==
    <<Rank(CodeIn(text), k) + 1, SubSeq(text, k + 1, NameEnd(text, k) - 1)>>

(* What the tokenizer has read of a text when it is at character at, which *)
(* is outside of labels.                                                   *)
Scanned(text, at, code, names) ==
    /\ text \in Seq(Character)
    /\ at \in Nat \ {0}
    /\ at <= Len(text) => Occurrences(text, Separator, 1..(at - 1)) % 2 = 0
    /\ code \in Seq(Instruction)
    /\ Len(code) = Rank(CodeIn(text), at)
    /\ \A k \in CodeIn(text) : k < at => code[Rank(CodeIn(text), k) + 1] = text[k]
    /\ names \in Seq(Nat \X Seq(Character))
    /\ Len(names) = Rank(LabelsIn(text), at)
    /\ \A k \in LabelsIn(text) :
          k < at => names[Rank(LabelsIn(text), k) + 1] = LabelIn(text, k)

LEMMA NotSeparator == Separator \notin Instruction
  BY DEF Separator, Instruction

LEMMA ScanStart ==
    ASSUME NEW text \in Seq(Character)
    PROVE  Scanned(text, 1, << >>, << >>)
  <1>1. Len(text) \in Nat
    OBVIOUS
  <1>2. CodeIn(text) \in SUBSET (1..Len(text)) /\ LabelsIn(text) \in SUBSET (1..Len(text))
    BY DEF CodeIn, LabelsIn
  <1>3. Rank(CodeIn(text), 1) = 0 /\ Rank(LabelsIn(text), 1) = 0
    BY <1>1, <1>2, RankSteps
  <1>4. Occurrences(text, Separator, 1..(1 - 1)) % 2 = 0
    <2>1. Occurrences(text, Separator, 1..(1 - 1)) = 0
      BY OccurrencesNone
    <2>2. QED
      BY <2>1
  <1>5. \A k \in 1..Len(text) : ~(k < 1)
    OBVIOUS
  <1>6. /\ << >> \in Seq(Instruction) /\ << >> \in Seq(Nat \X Seq(Character))
        /\ Len(<< >>) = 0 /\ 1 \in Nat \ {0}
    OBVIOUS
  <1>7. QED
    BY <1>2, <1>3, <1>4, <1>5, <1>6 DEF Scanned

(* A character that is no separator.                                       *)
LEMMA ScanOne ==
    ASSUME NEW text, NEW at, NEW code, NEW names, Scanned(text, at, code, names),
           at <= Len(text), text[at] # Separator
    PROVE  /\ Len(text) \in Nat /\ at \in 1..Len(text) /\ at + 1 \in Nat \ {0}
           /\ CodeIn(text) \in SUBSET (1..Len(text)) /\ LabelsIn(text) \in SUBSET (1..Len(text))
           /\ Occurrences(text, Separator, 1..((at + 1) - 1)) % 2 = 0
           /\ at \in CodeIn(text) <=> text[at] \in Instruction
           /\ at \notin LabelsIn(text)
           /\ Rank(LabelsIn(text), at + 1) = Rank(LabelsIn(text), at)
           /\ Rank(CodeIn(text), at + 1)
                = Rank(CodeIn(text), at) + (IF text[at] \in Instruction THEN 1 ELSE 0)
           /\ Rank(CodeIn(text), at) \in Nat
           /\ \A k \in CodeIn(text) : k < at =>
                 Rank(CodeIn(text), k) \in Nat /\ Rank(CodeIn(text), k) < Rank(CodeIn(text), at)
  <1>1. Len(text) \in Nat /\ at \in 1..Len(text) /\ at \in Nat /\ 1 <= at
        /\ at + 1 \in Nat \ {0} /\ (at + 1) - 1 = at
    BY DEF Scanned
  <1>2. CodeIn(text) \in SUBSET (1..Len(text)) /\ LabelsIn(text) \in SUBSET (1..Len(text))
    BY DEF CodeIn, LabelsIn
  <1>3. Occurrences(text, Separator, 1..(at - 1)) % 2 = 0
    BY DEF Scanned
  <1>4. Occurrences(text, Separator, 1..(at - 1)) \in Nat
    BY <1>1, OccurrencesNat
  <1>5. Occurrences(text, Separator, 1..at) = Occurrences(text, Separator, 1..(at - 1)) + 0
    BY <1>1, OccurrencesNext
  <1>6. Occurrences(text, Separator, 1..at) % 2 = 0
    BY <1>3, <1>4, <1>5
  <1>7. at \in CodeIn(text) <=> text[at] \in Instruction
    BY <1>1, <1>6 DEF CodeIn
  <1>8. at \notin LabelsIn(text)
    BY DEF LabelsIn
  <1>9. /\ Rank(LabelsIn(text), at + 1) = Rank(LabelsIn(text), at) + 0
        /\ Rank(LabelsIn(text), at) \in Nat
    BY <1>1, <1>2, <1>8, RankSteps
  <1>10. /\ Rank(CodeIn(text), at + 1)
             = Rank(CodeIn(text), at) + (IF text[at] \in Instruction THEN 1 ELSE 0)
         /\ Rank(CodeIn(text), at) \in Nat
    BY <1>1, <1>2, <1>7, RankSteps
  <1>11. ASSUME NEW k \in CodeIn(text), k < at
         PROVE  Rank(CodeIn(text), k) \in Nat /\ Rank(CodeIn(text), k) < Rank(CodeIn(text), at)
    <2>1. k \in Nat /\ k <= at
      BY <1>1, <1>2, <1>11
    <2>2. \A y \in Nat : k <= y =>
             (k < y => Rank(CodeIn(text), k) < Rank(CodeIn(text), y))
      BY <1>1, <1>2, <2>1, RankGrows
    <2>3. Rank(CodeIn(text), k) \in Nat
      BY <1>1, <1>2, <2>1, RankSteps
    <2>4. QED
      BY <1>1, <1>11, <2>1, <2>2, <2>3
  <1>12. QED
    BY <1>1, <1>2, <1>6, <1>7, <1>8, <1>9, <1>10, <1>11

LEMMA ScanInstruction ==
    ASSUME NEW text, NEW at, NEW code, NEW names, Scanned(text, at, code, names),
           at <= Len(text), text[at] \in Instruction
    PROVE  Scanned(text, at + 1, Append(code, text[at]), names)
  <1> DEFINE C == CodeIn(text)
             more == Append(code, text[at])
  <1>1. text[at] # Separator
    BY NotSeparator
  <1>2. /\ Len(text) \in Nat /\ at \in 1..Len(text) /\ at + 1 \in Nat \ {0}
        /\ C \in SUBSET (1..Len(text)) /\ LabelsIn(text) \in SUBSET (1..Len(text))
        /\ Occurrences(text, Separator, 1..((at + 1) - 1)) % 2 = 0
        /\ at \in C /\ at \notin LabelsIn(text)
        /\ Rank(LabelsIn(text), at + 1) = Rank(LabelsIn(text), at)
        /\ Rank(C, at + 1) = Rank(C, at) + 1
        /\ Rank(C, at) \in Nat
        /\ \A k \in C : k < at => Rank(C, k) \in Nat /\ Rank(C, k) < Rank(C, at)
    BY <1>1, ScanOne
  <1>3. /\ more \in Seq(Instruction)
        /\ Len(more) = Len(code) + 1
        /\ \A k \in 1..Len(code) : more[k] = code[k]
        /\ more[Len(code) + 1] = text[at]
    <2>1. code \in Seq(Instruction)
      BY DEF Scanned
    <2>2. QED
      BY <2>1
  <1>4. /\ Len(code) = Rank(C, at)
        /\ \A k \in C : k < at => code[Rank(C, k) + 1] = text[k]
        /\ \A k \in LabelsIn(text) :
              k < at => names[Rank(LabelsIn(text), k) + 1] = LabelIn(text, k)
    BY DEF Scanned
  <1> HIDE DEF C, more
  <1>5. ASSUME NEW k \in C, k < at + 1 PROVE more[Rank(C, k) + 1] = text[k]
    <2>1. CASE k = at
      BY <1>3, <1>4, <2>1
    <2>2. CASE k # at
      <3>1. k < at
        BY <1>2, <1>5, <2>2
      <3>2. Rank(C, k) + 1 \in 1..Len(code)
        BY <1>2, <1>4, <3>1
      <3>3. QED
        BY <1>3, <1>4, <3>1, <3>2
    <2>3. QED
      BY <2>1, <2>2
  <1>6. ASSUME NEW k \in LabelsIn(text), k < at + 1 PROVE k < at
    BY <1>2, <1>6
  <1>7. Scanned(text, at + 1, more, names)
    <2>1. Len(more) = Rank(C, at + 1)
      BY <1>2, <1>3, <1>4
    <2>2. /\ text \in Seq(Character) /\ names \in Seq(Nat \X Seq(Character))
          /\ Len(names) = Rank(LabelsIn(text), at + 1)
      BY <1>2 DEF Scanned
    <2>3. QED
      BY <1>2, <1>3, <1>4, <1>5, <1>6, <2>1, <2>2 DEF Scanned, C
  <1>8. QED
    BY <1>7 DEF more

LEMMA ScanComment ==
    ASSUME NEW text, NEW at, NEW code, NEW names, Scanned(text, at, code, names),
           at <= Len(text), text[at] \notin Instruction \cup {Separator}
    PROVE  Scanned(text, at + 1, code, names)
  <1> DEFINE C == CodeIn(text)
  <1>1. text[at] # Separator /\ text[at] \notin Instruction
    OBVIOUS
  <1>2. /\ Len(text) \in Nat /\ at \in 1..Len(text) /\ at + 1 \in Nat \ {0}
        /\ C \in SUBSET (1..Len(text)) /\ LabelsIn(text) \in SUBSET (1..Len(text))
        /\ Occurrences(text, Separator, 1..((at + 1) - 1)) % 2 = 0
        /\ at \notin C /\ at \notin LabelsIn(text)
        /\ Rank(LabelsIn(text), at + 1) = Rank(LabelsIn(text), at)
        /\ Rank(C, at + 1) = Rank(C, at) + 0
        /\ Rank(C, at) \in Nat
    BY <1>1, ScanOne
  <1>3. ASSUME NEW k \in C \cup LabelsIn(text), k < at + 1 PROVE k < at
    BY <1>2, <1>3
  <1>4. Rank(C, at + 1) = Rank(C, at)
    BY <1>2
  <1>5. QED
    BY <1>2, <1>3, <1>4 DEF Scanned, C

(* Where a label ends.                                                     *)
LEMMA NameEndFacts ==
    ASSUME NEW text \in Seq(Character), NEW k \in 1..Len(text)
    PROVE  /\ NameEnd(text, k) \in (k + 1)..(Len(text) + 1)
           /\ \A j \in (k + 1)..(NameEnd(text, k) - 1) : text[j] # Separator
           /\ NameEnd(text, k) <= Len(text) => text[NameEnd(text, k)] = Separator
           /\ SubSeq(text, k + 1, NameEnd(text, k) - 1) \in Seq(Character)
  <1> DEFINE T == {j \in (k + 1)..Len(text) : text[j] = Separator} \cup {Len(text) + 1}
             last == NameEnd(text, k)
  <1>1. Len(text) \in Nat
    OBVIOUS
  <1>2. PICK low \in T : \A j \in T : low <= j
    <2>1. T \in SUBSET Nat /\ T # {}
      BY <1>1
    <2> HIDE DEF T
    <2>2. QED
      BY <2>1, LeastElement
  <1>3. last \in T /\ \A j \in T : last <= j
    <2>1. last = CHOOSE x \in T : \A j \in T : x <= j
      BY DEF NameEnd, Min
    <2> HIDE DEF T, last
    <2>2. QED
      BY <1>2, <2>1
  <1>4. last \in (k + 1)..(Len(text) + 1)
    BY <1>1, <1>3
  <1>5. last <= Len(text) => text[last] = Separator
    BY <1>1, <1>3
  <1>6. ASSUME NEW j \in (k + 1)..(last - 1), text[j] = Separator PROVE FALSE
    <2>1. j \in (k + 1)..Len(text) /\ ~(last <= j)
      BY <1>1, <1>4
    <2>2. j \in T
      BY <1>6, <2>1
    <2>3. QED
      BY <1>3, <2>1, <2>2
  <1>7. SubSeq(text, k + 1, last - 1) \in Seq(Character)
    <2>1. \A j \in (k + 1)..(last - 1) : j \in 1..Len(text)
      BY <1>1, <1>4
    <2> HIDE DEF last
    <2>2. QED
      BY <1>1, <1>4, <2>1
  <1>8. QED
    BY <1>4, <1>5, <1>6, <1>7

(* A separator and what follows up to the next one.                        *)
LEMMA ScanLabel ==
    ASSUME NEW text, NEW at, NEW code, NEW names, Scanned(text, at, code, names),
           at <= Len(text), text[at] = Separator
    PROVE  Scanned(text, NameEnd(text, at) + 1, code,
                   Append(names, <<Len(code) + 1,
                                   SubSeq(text, at + 1, NameEnd(text, at) - 1)>>))
  <1> DEFINE C == CodeIn(text)
             B == LabelsIn(text)
             count(j) == Occurrences(text, Separator, 1..j)
             last == NameEnd(text, at)
             entry == <<Len(code) + 1, SubSeq(text, at + 1, last - 1)>>
             more == Append(names, entry)
  <1>1. /\ text \in Seq(Character) /\ Len(text) \in Nat /\ at \in 1..Len(text)
        /\ code \in Seq(Instruction) /\ names \in Seq(Nat \X Seq(Character))
    BY DEF Scanned
  <1>2. /\ last \in (at + 1)..(Len(text) + 1)
        /\ \A j \in (at + 1)..(last - 1) : text[j] # Separator
        /\ last <= Len(text) => text[last] = Separator
        /\ SubSeq(text, at + 1, last - 1) \in Seq(Character)
    BY <1>1, NameEndFacts
  <1>3. C \in SUBSET (1..Len(text)) /\ B \in SUBSET (1..Len(text))
    BY DEF CodeIn, LabelsIn
  <1>4. count(at - 1) \in Nat /\ count(at - 1) % 2 = 0
    <2>1. at - 1 \in Nat /\ at <= Len(text)
      BY <1>1
    <2>2. QED
      BY <2>1, OccurrencesNat DEF Scanned
  <1>5. count(at) = count(at - 1) + 1
    <2>1. 1 \in Nat /\ at \in Nat /\ 1 <= at
      BY <1>1
    <2>2. QED
      BY <2>1, OccurrencesNext
  <1>6. count(at) % 2 = 1
    BY <1>4, <1>5
  <1> HIDE DEF last
  <1>7. ASSUME NEW j \in at..(last - 1) PROVE count(j) = count(at)
    <2>1. {k \in 1..j : text[k] = Separator} = {k \in 1..at : text[k] = Separator}
      <3>1. \A k \in 1..j : k \in 1..at \/ k \in (at + 1)..(last - 1)
        BY <1>1, <1>2
      <3>2. \A k \in 1..at : k \in 1..j
        BY <1>1, <1>2
      <3>3. QED
        BY <1>2, <3>1, <3>2
    <2>2. QED
      BY <2>1 DEF Occurrences
  <1>8. \A j \in at..(last - 1) : count(j) % 2 = 1
    BY <1>6, <1>7
  <1>9. last <= Len(text) => count(last) % 2 = 0
    <2> SUFFICES ASSUME last <= Len(text) PROVE count(last) % 2 = 0
      OBVIOUS
    <2>1. /\ 1 \in Nat /\ last \in Nat /\ 1 <= last /\ last - 1 \in at..(last - 1)
          /\ last - 1 \in Nat
      BY <1>1, <1>2
    <2>2. count(last) = count(last - 1) + 1
      BY <1>2, <2>1, OccurrencesNext
    <2>3. count(last - 1) \in Nat /\ count(last - 1) % 2 = 1
      BY <1>8, <2>1, OccurrencesNat
    <2> HIDE DEF count
    <2>4. QED
      BY <2>2, <2>3
  <1>10. \A j \in at..last : j \notin C
    <2> SUFFICES ASSUME NEW j \in at..last, j \in C PROVE FALSE
      OBVIOUS
    <2>1. text[j] \in Instruction /\ count(j) % 2 = 0 /\ j \in 1..Len(text)
      BY DEF CodeIn
    <2>2. CASE j = last
      BY <1>1, <1>2, <2>1, <2>2, NotSeparator
    <2>3. CASE j # last
      <3>1. j \in at..(last - 1)
        BY <1>1, <1>2, <2>3
      <3>2. count(j) % 2 = 1
        BY <1>8, <3>1
      <3>3. QED
        BY <2>1, <3>2
    <2>4. QED
      BY <2>2, <2>3
  <1>11. at \in B
    BY <1>1, <1>6 DEF LabelsIn
  <1>12. \A j \in (at + 1)..last : j \notin B
    <2> SUFFICES ASSUME NEW j \in (at + 1)..last, j \in B PROVE FALSE
      OBVIOUS
    <2>1. text[j] = Separator /\ count(j) % 2 = 1 /\ j \in 1..Len(text)
      BY DEF LabelsIn
    <2>2. j = last
      BY <1>1, <1>2, <2>1
    <2>3. QED
      BY <1>1, <1>9, <2>1, <2>2
  <1> HIDE DEF C, B, count
  <1>13. at \in Nat /\ at + 1 \in Nat /\ last + 1 \in Nat \ {0} /\ at <= last + 1
         /\ at + 1 <= last + 1 /\ (last + 1) - 1 = last
    BY <1>1, <1>2
  <1>14. Rank(C, last + 1) = Rank(C, at)
    BY <1>1, <1>3, <1>10, <1>13, RankSkips
  <1>15. Rank(B, last + 1) = Rank(B, at) + 1 /\ Rank(B, at) \in Nat
    <2>1. Rank(B, last + 1) = Rank(B, at + 1)
      BY <1>1, <1>3, <1>12, <1>13, RankSkips
    <2>2. Rank(B, at + 1) = Rank(B, at) + 1 /\ Rank(B, at) \in Nat
      BY <1>1, <1>3, <1>11, <1>13, RankSteps
    <2>3. QED
      BY <2>1, <2>2
  <1>16. /\ Len(code) = Rank(C, at) /\ Len(names) = Rank(B, at)
         /\ \A k \in C : k < at => code[Rank(C, k) + 1] = text[k]
         /\ \A k \in B : k < at => names[Rank(B, k) + 1] = LabelIn(text, k)
    BY DEF Scanned, C, B
  <1>17. entry \in Nat \X Seq(Character) /\ entry = LabelIn(text, at)
    <2>1. Len(code) + 1 \in Nat
      BY <1>1
    <2>2. entry \in Nat \X Seq(Character)
      BY <1>2, <2>1
    <2>3. entry = LabelIn(text, at)
      BY <1>16 DEF LabelIn, C, last
    <2>4. QED
      BY <2>2, <2>3
  <1>18. /\ more \in Seq(Nat \X Seq(Character)) /\ Len(more) = Len(names) + 1
         /\ \A k \in 1..Len(names) : more[k] = names[k]
         /\ more[Len(names) + 1] = entry
    <2> HIDE DEF entry
    <2>1. QED
      BY <1>1, <1>17
  <1> HIDE DEF more, entry
  <1>19. ASSUME NEW k \in B, k < last + 1
         PROVE  more[Rank(B, k) + 1] = LabelIn(text, k)
    <2>1. k \in Nat /\ 1 <= k /\ k <= Len(text)
      BY <1>1, <1>3
    <2>2. k <= at
      <3>1. ~(k \in (at + 1)..last)
        BY <1>12
      <3>2. QED
        BY <1>1, <1>2, <1>19, <2>1, <3>1
    <2>3. CASE k = at
      BY <1>16, <1>17, <1>18, <2>3
    <2>4. CASE k # at
      <3>1. k < at
        BY <1>13, <2>1, <2>2, <2>4
      <3>2. Rank(B, k) \in Nat /\ Rank(B, k) < Rank(B, at)
        <4>1. \A y \in Nat : k <= y => (k < y => Rank(B, k) < Rank(B, y))
          BY <1>1, <1>3, <2>1, RankGrows
        <4>2. Rank(B, k) \in Nat
          BY <1>1, <1>3, <2>1, RankSteps
        <4>3. QED
          BY <1>13, <2>2, <3>1, <4>1, <4>2
      <3>3. Rank(B, k) + 1 \in 1..Len(names)
        BY <1>15, <1>16, <3>2
      <3>4. QED
        BY <1>16, <1>18, <3>1, <3>3
    <2>5. QED
      BY <2>3, <2>4
  <1>20. ASSUME NEW k \in C, k < last + 1 PROVE code[Rank(C, k) + 1] = text[k]
    <2>1. k \in Nat /\ ~(k \in at..last)
      BY <1>1, <1>3, <1>10
    <2>2. k < at
      BY <1>1, <1>2, <1>20, <2>1
    <2>3. QED
      BY <1>16, <2>2
  <1>21. last + 1 <= Len(text) => count((last + 1) - 1) % 2 = 0
    BY <1>1, <1>2, <1>9, <1>13
  <1>22. Len(more) = Rank(B, last + 1)
    BY <1>15, <1>16, <1>18
  <1>23. Scanned(text, last + 1, code, more)
    BY <1>1, <1>13, <1>14, <1>16, <1>18, <1>19, <1>20, <1>21, <1>22 DEF Scanned, C, B, count
  <1>24. QED
    BY <1>23 DEF more, entry, last

-----------------------------------------------------------------------------
(* CodeOps of any text: all its instructions outside labels.               *)
AllCode(text) ==
    [n \in 1..Cardinality(CodeIn(text)) |->
        text[CHOOSE k \in CodeIn(text) : Rank(CodeIn(text), k) = n - 1]]

AllLabels(text) ==
    [n \in 1..Cardinality(LabelsIn(text)) |->
        LabelIn(text, CHOOSE k \in LabelsIn(text) : Rank(LabelsIn(text), k) = n - 1)]

LEMMA AllCodeFacts ==
    ASSUME NEW text \in Seq(Character)
    PROVE  /\ AllCode(text) \in Seq(Instruction)
           /\ Cardinality(CodeIn(text)) \in Nat
           /\ Len(AllCode(text)) = Cardinality(CodeIn(text))
           /\ \A k \in CodeIn(text) : AllCode(text)[Rank(CodeIn(text), k) + 1] = text[k]
  <1> DEFINE C == CodeIn(text)
             n == Cardinality(C)
             place(r) == CHOOSE k \in C : Rank(C, k) = r - 1
  <1>1. Len(text) \in Nat /\ C \in SUBSET (1..Len(text))
    BY DEF CodeIn
  <1>2. n \in Nat
    <2>1. IsFiniteSet(1..Len(text))
      BY <1>1, FS_Interval
    <2> HIDE DEF C
    <2>2. QED
      BY <1>1, <2>1, FS_Subset, FS_CardinalityType
  <1>3. \A k \in C : text[k] \in Instruction
    BY DEF CodeIn
  <1>4. AllCode(text) = [r \in 1..n |-> text[place(r)]]
    BY DEF AllCode
  <1> HIDE DEF C
  <1>5. ASSUME NEW r \in 1..n PROVE place(r) \in C
    <2>1. r - 1 \in Nat /\ r - 1 < Cardinality(C)
      BY <1>2
    <2>2. \E k \in C : Rank(C, k) = r - 1
      BY <1>1, <2>1, RankTaken
    <2>3. QED
      BY <2>2
  <1>6. ASSUME NEW k \in C
        PROVE  Rank(C, k) + 1 \in 1..n /\ place(Rank(C, k) + 1) = k
    <2>1. Rank(C, k) + 1 \in 1..n /\ (CHOOSE l \in C : Rank(C, l) = Rank(C, k)) = k
      BY <1>1, Ranked
    <2>2. (Rank(C, k) + 1) - 1 = Rank(C, k)
      <3>1. k \in Nat
        BY <1>1
      <3>2. Rank(C, k) \in Nat
        BY <1>1, <3>1, RankSteps
      <3>3. QED
        BY <3>2
    <2>3. QED
      BY <2>1, <2>2
  <1> HIDE DEF place, n
  <1>7. AllCode(text) \in [1..n -> Instruction]
    BY <1>3, <1>4, <1>5
  <1>8. AllCode(text) \in Seq(Instruction) /\ Len(AllCode(text)) = n
    BY <1>2, <1>7
  <1>9. ASSUME NEW k \in C PROVE AllCode(text)[Rank(C, k) + 1] = text[k]
    BY <1>4, <1>6
  <1>10. QED
    BY <1>2, <1>8, <1>9 DEF C, n

(* What has been read at the end of the text.                              *)
LEMMA ScanEnd ==
    ASSUME NEW text, NEW at, NEW code, NEW names, Scanned(text, at, code, names),
           at > Len(text)
    PROVE  code = AllCode(text) /\ names = AllLabels(text)
  <1> DEFINE C == CodeIn(text)
             B == LabelsIn(text)
             placeC(r) == CHOOSE k \in C : Rank(C, k) = r - 1
             placeB(r) == CHOOSE k \in B : Rank(B, k) = r - 1
  <1>1. /\ Len(text) \in Nat /\ at \in Nat
        /\ C \in SUBSET (1..Len(text)) /\ B \in SUBSET (1..Len(text))
    BY DEF CodeIn, LabelsIn, Scanned
  <1>0. \A k \in C \cup B : k < at
    <2>1. \A k \in 1..Len(text) : k < at
      BY <1>1
    <2>2. QED
      BY <1>1, <2>1
  <1>2. AllCode(text) = [r \in 1..Cardinality(C) |-> text[placeC(r)]]
    BY DEF AllCode
  <1>3. AllLabels(text) = [r \in 1..Cardinality(B) |-> LabelIn(text, placeB(r))]
    BY DEF AllLabels
  <1>4. /\ code \in Seq(Instruction) /\ Len(code) = Rank(C, at)
        /\ \A k \in C : k < at => code[Rank(C, k) + 1] = text[k]
        /\ names \in Seq(Nat \X Seq(Character)) /\ Len(names) = Rank(B, at)
        /\ \A k \in B : k < at => names[Rank(B, k) + 1] = LabelIn(text, k)
    BY DEF Scanned
  <1> HIDE DEF C, B
  <1>5. Rank(C, at) = Cardinality(C) /\ Rank(B, at) = Cardinality(B)
    BY <1>1, RankSteps
  <1>6. Cardinality(C) \in Nat /\ Cardinality(B) \in Nat
    BY <1>4, <1>5
  <1>7. ASSUME NEW r \in 1..Cardinality(C) PROVE code[r] = text[placeC(r)]
    <2>1. r - 1 \in Nat /\ r - 1 < Cardinality(C)
      BY <1>6
    <2>2. \E k \in C : Rank(C, k) = r - 1
      BY <1>1, <2>1, RankTaken
    <2>3. placeC(r) \in C /\ Rank(C, placeC(r)) = r - 1
      BY <2>2
    <2> HIDE DEF placeC
    <2>4. placeC(r) < at
      BY <1>0, <2>3
    <2>5. (r - 1) + 1 = r
      OBVIOUS
    <2>6. QED
      BY <1>4, <2>3, <2>4, <2>5
  <1>8. ASSUME NEW r \in 1..Cardinality(B) PROVE names[r] = LabelIn(text, placeB(r))
    <2>1. r - 1 \in Nat /\ r - 1 < Cardinality(B)
      BY <1>6
    <2>2. \E k \in B : Rank(B, k) = r - 1
      BY <1>1, <2>1, RankTaken
    <2>3. placeB(r) \in B /\ Rank(B, placeB(r)) = r - 1
      BY <2>2
    <2> HIDE DEF placeB
    <2>4. placeB(r) < at
      BY <1>0, <2>3
    <2>5. (r - 1) + 1 = r
      OBVIOUS
    <2>6. QED
      BY <1>4, <2>3, <2>4, <2>5
  <1> HIDE DEF placeB, placeC
  <1>9. /\ code = [r \in 1..Cardinality(C) |-> code[r]]
        /\ names = [r \in 1..Cardinality(B) |-> names[r]]
    BY <1>4, <1>5
  <1>10. code = AllCode(text)
    BY <1>2, <1>7, <1>9
  <1>11. names = AllLabels(text)
    BY <1>3, <1>8, <1>9
  <1>12. QED
    BY <1>10, <1>11

(* A ] where nothing is open unbalances the whole text.                    *)
LEMMA ScanReject ==
    ASSUME NEW text, NEW at, NEW code, NEW names, Scanned(text, at, code, names),
           at <= Len(text), text[at] = "bwd", Depth(code, Len(code)) = 0
    PROVE  ~Balanced(AllCode(text))
  <1> DEFINE C == CodeIn(text)
             all == AllCode(text)
             n == Len(code)
  <1>1. text[at] \in Instruction /\ text[at] # Separator
    BY NotSeparator DEF Instruction
  <1>2. /\ Len(text) \in Nat /\ at \in 1..Len(text)
        /\ C \in SUBSET (1..Len(text))
        /\ at \in C /\ Rank(C, at) \in Nat
    BY <1>1, ScanOne
  <1>3. /\ text \in Seq(Character) /\ code \in Seq(Instruction) /\ n = Rank(C, at) /\ n \in Nat
        /\ \A k \in C : k < at => code[Rank(C, k) + 1] = text[k]
    BY DEF Scanned
  <1>4. /\ all \in Seq(Instruction) /\ Cardinality(C) \in Nat
        /\ Len(all) = Cardinality(C)
        /\ \A k \in C : all[Rank(C, k) + 1] = text[k]
    BY <1>3, AllCodeFacts
  <1> HIDE DEF C, all, n
  <1>5. n + 1 \in 1..Len(all) /\ all[n + 1] = "bwd"
    <2>1. Rank(C, at) + 1 \in 1..Cardinality(C)
      BY <1>2, Ranked
    <2>2. QED
      BY <1>2, <1>3, <1>4, <2>1
  <1>6. ASSUME NEW r \in 1..n PROVE all[r] = code[r]
    <2>1. r - 1 \in Nat /\ r - 1 < Cardinality(C) /\ (r - 1) + 1 = r
      BY <1>3, <1>4, <1>5
    <2>2. PICK k \in C : Rank(C, k) = r - 1
      BY <1>2, <2>1, RankTaken
    <2>3. k < at
      <3> SUFFICES ASSUME ~(k < at) PROVE FALSE
        OBVIOUS
      <3>1. k \in Nat /\ at \in Nat /\ at <= k
        BY <1>2
      <3>2. Rank(C, at) <= Rank(C, k)
        BY <1>2, <3>1, RankGrows
      <3>3. QED
        BY <1>3, <2>1, <2>2, <3>2
    <2>4. QED
      BY <1>3, <1>4, <2>1, <2>2, <2>3
  <1>7. Depth(all, n) = Depth(code, n)
    <2>1. \A k \in 0..n : Depth(all, k) = Depth(code, k)
      BY <1>3, <1>6, DepthPrefix
    <2>2. QED
      BY <1>3, <2>1
  <1>8. Depth(all, n + 1) = Depth(all, n) + (-1)
    <2>1. (n + 1) - 1 = n
      BY <1>3
    <2>2. QED
      BY <1>4, <1>5, <2>1, DepthSteps
  <1>9. Depth(all, n + 1) = -1
    BY <1>7, <1>8 DEF n
  <1>10. ~(Depth(all, n + 1) >= 0)
    BY <1>9
  <1>11. QED
    BY <1>5, <1>10 DEF Balanced, all

-----------------------------------------------------------------------------
(* What print() writes is a text.                                          *)
LEMMA PrintedText ==
    ASSUME ops \in Seq(Instruction), labels \in Seq(Nat \X Seq(Character)),
           NEW without_label \in BOOLEAN
    PROVE  print(without_label) \in Seq(Character)
  <1>0. /\ <<Separator>> \in Seq(Character) /\ <<"newline">> \in Seq(Character)
        /\ \A x \in Instruction : <<x>> \in Seq(Character)
    <2>1. \A x \in Instruction \cup {Separator, "newline"} : x \in Character
      BY DEF Character
    <2>2. \A x \in Character : <<x>> \in Seq(Character)
      OBVIOUS
    <2>3. QED
      BY <2>1, <2>2
  <1>1. \A p \in Nat : LabelsBefore(p) \in 0..Len(labels)
    <2> SUFFICES ASSUME NEW p \in Nat PROVE LabelsBefore(p) \in 0..Len(labels)
      OBVIOUS
    <2> DEFINE T == {k \in DOMAIN labels : labels[k][1] < p}
    <2>1. IsFiniteSet(1..Len(labels)) /\ Cardinality(1..Len(labels)) = Len(labels)
          /\ Len(labels) \in Nat
      <3>1. Len(labels) \in Nat /\ 1 \in Int
        OBVIOUS
      <3>2. /\ IsFiniteSet(1..Len(labels))
            /\ Cardinality(1..Len(labels))
                 = IF 1 > Len(labels) THEN 0 ELSE Len(labels) - 1 + 1
        <4>1. Len(labels) \in Int
          BY <3>1
        <4>2. QED
          BY <3>1, <4>1, FS_Interval
      <3>3. QED
        BY <3>1, <3>2
    <2>2. T \in SUBSET (1..Len(labels))
      OBVIOUS
    <2> HIDE DEF T
    <2>3. Cardinality(T) \in Nat /\ Cardinality(T) <= Len(labels)
      BY <2>1, <2>2, FS_Subset, FS_CardinalityType
    <2>4. QED
      BY <2>1, <2>3 DEF LabelsBefore, T
  <1>2. ASSUME NEW p \in Nat PROVE LabelText(p) \in Seq(Character)
    <2> DEFINE here == LabelsAt(p)
               part(k) == <<Separator>> \o here[k][2] \o <<Separator>>
               parts == [k \in DOMAIN here |-> part(k)]
    <2>1. LabelsBefore(p) + 1 \in Nat /\ LabelsBefore(p) + 1 >= 1
          /\ LabelsBefore(p + 1) \in Nat /\ LabelsBefore(p + 1) <= Len(labels)
      <3>1. p + 1 \in Nat /\ Len(labels) \in Nat
        OBVIOUS
      <3>2. LabelsBefore(p) \in 0..Len(labels)
        BY <1>1
      <3>3. LabelsBefore(p + 1) \in 0..Len(labels)
        BY <1>1, <3>1
      <3>4. QED
        BY <3>1, <3>2, <3>3
    <2>2. here \in Seq(Nat \X Seq(Character))
      <3>1. \A a, b \in Nat : a >= 1 /\ b <= Len(labels)
                => SubSeq(labels, a, b) \in Seq(Nat \X Seq(Character))
        OBVIOUS
      <3>2. QED
        BY <2>1, <3>1 DEF LabelsAt
    <2> HIDE DEF here
    <2>3. DOMAIN here = 1..Len(here) /\ Len(here) \in Nat
          /\ \A k \in 1..Len(here) : here[k][2] \in Seq(Character)
      BY <2>2
    <2>4. \A k \in 1..Len(here) : part(k) \in Seq(Character)
      <3>1. \A a, b, c \in Seq(Character) : a \o b \o c \in Seq(Character)
        OBVIOUS
      <3>2. QED
        BY <1>0, <2>3, <3>1
    <2> HIDE DEF part
    <2>5. parts \in Seq(Seq(Character))
      BY <2>3, <2>4
    <2>6. FlattenSeq(parts) \in Seq(Character)
      <3> HIDE DEF parts
      <3>1. QED
        BY <2>5, FlattenPlaces
    <2>7. QED
      BY <2>6 DEF LabelText, here, parts, part
  <1> DEFINE n == Len(ops) + 1
             chunk(p) == (IF without_label THEN << >> ELSE LabelText(p))
                             \o (IF p \in DOMAIN ops THEN <<ops[p]>> ELSE << >>)
             chunks == [p \in 1..n |-> chunk(p)]
  <1>3. ASSUME NEW p \in 1..n PROVE chunk(p) \in Seq(Character)
    <2>1. (IF without_label THEN << >> ELSE LabelText(p)) \in Seq(Character)
      <3>1. p \in Nat /\ << >> \in Seq(Character)
        OBVIOUS
      <3>2. QED
        BY <1>2, <3>1
    <2>2. (IF p \in DOMAIN ops THEN <<ops[p]>> ELSE << >>) \in Seq(Character)
      <3>1. p \in DOMAIN ops => ops[p] \in Instruction
        OBVIOUS
      <3>2. << >> \in Seq(Character)
        OBVIOUS
      <3>3. QED
        BY <1>0, <3>1, <3>2
    <2>3. \A a, b \in Seq(Character) : a \o b \in Seq(Character)
      OBVIOUS
    <2>4. QED
      BY <2>1, <2>2, <2>3
  <1>4. n \in Nat
    OBVIOUS
  <1> HIDE DEF chunk
  <1>5. chunks \in Seq(Seq(Character))
    BY <1>3, <1>4
  <1>6. FlattenSeq(chunks) \in Seq(Character)
    <2> HIDE DEF chunks
    <2>1. QED
      BY <1>5, FlattenPlaces
  <1>7. FlattenSeq(chunks) \o <<"newline">> \in Seq(Character)
    <2> HIDE DEF chunks
    <2>1. \A a, b \in Seq(Character) : a \o b \in Seq(Character)
      OBVIOUS
    <2>2. QED
      BY <1>0, <1>6, <2>1
  <1>8. QED
    BY <1>7 DEF print, chunks, chunk

-----------------------------------------------------------------------------
(* The inductive invariant of the scan.                                    *)
ScanInv ==
    /\ Scanned(source, i, ops, labels)
    /\ status = "parsed" => i > Len(source)
    /\ status = "unbalanced" => ~Balanced(AllCode(source))

LEMMA ScanInit == ParseInit => ScanInv
  <1> SUFFICES ASSUME ParseInit PROVE ScanInv
    OBVIOUS
  <1>1. source \in Seq(Character)
    <2>1. STRING \subseteq Character
      BY DEF Character
    <2>2. source \in Seq(STRING)
      BY ParserAssumption DEF ParseInit
    <2>3. QED
      BY <2>1, <2>2, SeqWider
  <1>2. Scanned(source, 1, << >>, << >>)
    BY <1>1, ScanStart
  <1>3. QED
    BY <1>2 DEF ParseInit, ScanInv

LEMMA ScanNext ==
    ASSUME TablesInv, ScanInv, [ParseNext]_scan
    PROVE  ScanInv'
  <1>1. /\ Scanned(source, i, ops, labels)
        /\ source \in Seq(Character) /\ Len(source) \in Nat /\ i \in Nat
        /\ ops \in Seq(Instruction) /\ labels \in Seq(Nat \X Seq(Character))
    BY DEF ScanInv, Scanned
  <1>2. "fwd" \in Instruction /\ "bwd" \in Instruction
    BY DEF Instruction
  <1>3. ASSUME i <= Len(source), source[i] \in Instruction
        PROVE  Scanned(source, i + 1, Append(ops, source[i]), labels)
    BY <1>1, <1>3, ScanInstruction
  <1>4. CASE PushPlain
    <2>1. Scanned(source, i + 1, Append(ops, source[i]), labels)
      BY <1>3, <1>4 DEF PushPlain, Reads
    <2>2. QED
      BY <1>4, <2>1 DEF PushPlain, Reads, ScanInv
  <1>5. CASE PushOpen
    <2>1. source[i] = "fwd" /\ i <= Len(source)
      BY <1>5 DEF PushOpen, Reads
    <2>2. Scanned(source, i + 1, Append(ops, "fwd"), labels)
      BY <1>2, <1>3, <2>1
    <2>3. QED
      BY <1>5, <2>2 DEF PushOpen, Reads, ScanInv
  <1>6. CASE PushClose
    <2>1. source[i] = "bwd" /\ i <= Len(source)
      BY <1>6 DEF PushClose, Reads
    <2>2. Scanned(source, i + 1, Append(ops, "bwd"), labels)
      BY <1>2, <1>3, <2>1
    <2>3. QED
      BY <1>6, <2>2 DEF PushClose, Reads, ScanInv
  <1>7. CASE RejectClose
    <2>1. source[i] = "bwd" /\ i <= Len(source) /\ open_brackets = << >>
      BY <1>7 DEF RejectClose, Reads
    <2>2. Depth(ops, Len(ops)) = 0
      BY <2>1 DEF TablesInv, StackOf
    <2>3. ~Balanced(AllCode(source))
      BY <1>1, <2>1, <2>2, ScanReject
    <2>4. QED
      BY <1>1, <1>7, <2>3 DEF RejectClose, ScanInv
  <1>8. CASE ReadLabel
    <2>1. source[i] = Separator /\ i <= Len(source)
      BY <1>8 DEF ReadLabel, Reads
    <2>2. LabelEnd = NameEnd(source, i)
      BY DEF LabelEnd, NameEnd
    <2>3. Scanned(source, LabelEnd + 1, ops,
                  Append(labels, <<pc, SubSeq(source, i + 1, LabelEnd - 1)>>))
      BY <1>1, <2>1, <2>2, ScanLabel DEF pc
    <2>4. QED
      BY <1>8, <2>3 DEF ReadLabel, Reads, ScanInv
  <1>9. CASE SkipComment
    <2>1. Scanned(source, i + 1, ops, labels)
      BY <1>1, <1>9, ScanComment DEF SkipComment
    <2>2. QED
      BY <1>9, <2>1 DEF SkipComment, ScanInv
  <1>10. CASE Finish
    <2>1. i > Len(source)
      BY <1>10 DEF Finish
    <2>2. open_brackets # << >> => ~Balanced(AllCode(source))
      <3>1. ops = AllCode(source)
        BY <1>1, <2>1, ScanEnd
      <3>2. open_brackets # << >> => Depth(ops, Len(ops)) # 0
        BY DEF TablesInv, StackOf
      <3>3. QED
        BY <3>1, <3>2 DEF Balanced
    <2>3. QED
      BY <1>1, <1>10, <2>1, <2>2 DEF Finish, ScanInv
  <1>11. CASE ParsePrinted
    <2>1. PICK without_label \in BOOLEAN : source' = print(without_label)
      BY <1>11 DEF ParsePrinted
    <2>2. print(without_label) \in Seq(Character)
      BY <1>1, PrintedText
    <2>3. Scanned(source', 1, << >>, << >>)
      BY <2>1, <2>2, ScanStart
    <2>4. QED
      BY <1>11, <2>3 DEF ParsePrinted, ScanInv
  <1>12. CASE UNCHANGED scan
    BY <1>12 DEF scan, ScanInv
  <1>13. QED
    BY <1>4, <1>5, <1>6, <1>7, <1>8, <1>9, <1>10, <1>11, <1>12 DEF ParseNext

LEMMA ScanAlways == ParseSpec => []ScanInv
  <1>1. ParseInit => ScanInv
    BY ScanInit
  <1>2. TablesInv /\ ScanInv /\ [ParseNext]_scan => ScanInv'
    BY ScanNext
  <1>3. QED
    BY <1>1, <1>2, TablesAlways, PTL DEF ParseSpec

LEMMA ScanGives == TablesInv /\ ScanInv => ParsesText
  <1> SUFFICES ASSUME TablesInv, ScanInv PROVE ParsesText
    OBVIOUS
  <1>1. Code = CodeIn(source)
    BY DEF Code, CodeIn, SeparatorsUpTo, Occurrences
  <1>2. LabelStarts = LabelsIn(source)
    BY DEF LabelStarts, LabelsIn, SeparatorsUpTo, Occurrences
  <1>3. \A k : CodeBefore(k) = Rank(CodeIn(source), k)
    BY <1>1 DEF CodeBefore, Rank
  <1>4. \A k : StartsBefore(k) = Rank(LabelsIn(source), k)
    BY <1>2 DEF StartsBefore, Rank
  <1>5. CodeOps = AllCode(source)
    <2> DEFINE here(n) == CHOOSE k \in Code : CodeBefore(k) = n - 1
               there(n) == CHOOSE k \in CodeIn(source) : Rank(CodeIn(source), k) = n - 1
    <2>1. \A n : here(n) = there(n)
      BY <1>1, <1>3
    <2>2. CodeOps = [n \in 1..Cardinality(Code) |-> source[here(n)]]
      BY DEF CodeOps
    <2>3. AllCode(source) = [n \in 1..Cardinality(CodeIn(source)) |-> source[there(n)]]
      BY DEF AllCode
    <2> HIDE DEF here, there
    <2>4. QED
      BY <1>1, <2>1, <2>2, <2>3
  <1>6. \A k : LabelOf(k) = LabelIn(source, k)
    BY <1>3 DEF LabelOf, LabelIn, NameEnd
  <1>7. [n \in 1..Cardinality(LabelStarts) |->
            LabelOf(CHOOSE k \in LabelStarts : StartsBefore(k) = n - 1)]
          = AllLabels(source)
    <2> DEFINE here(n) == CHOOSE k \in LabelStarts : StartsBefore(k) = n - 1
               there(n) == CHOOSE k \in LabelsIn(source) : Rank(LabelsIn(source), k) = n - 1
    <2>1. \A n : here(n) = there(n)
      BY <1>2, <1>4
    <2>2. AllLabels(source)
            = [n \in 1..Cardinality(LabelsIn(source)) |-> LabelIn(source, there(n))]
      BY DEF AllLabels
    <2> HIDE DEF here, there
    <2>3. [n \in 1..Cardinality(LabelStarts) |-> LabelOf(here(n))]
            = [n \in 1..Cardinality(LabelsIn(source)) |-> LabelIn(source, there(n))]
      BY <1>2, <1>6, <2>1
    <2>4. QED
      BY <2>2, <2>3 DEF here
  <1>8. status = "unbalanced" => ~Balanced(CodeOps)
    BY <1>5 DEF ScanInv
  <1>9. ASSUME status = "parsed"
        PROVE  /\ Balanced(ops)
               /\ ops = CodeOps
               /\ labels = [n \in 1..Cardinality(LabelStarts) |->
                               LabelOf(CHOOSE k \in LabelStarts : StartsBefore(k) = n - 1)]
               /\ jumps = JumpTable(ops)
    <2>1. Balanced(ops) /\ jumps = JumpTable(ops)
      BY <1>9, TablesGiveLinks DEF Linked
    <2>2. i > Len(source) /\ Scanned(source, i, ops, labels)
      BY <1>9 DEF ScanInv
    <2>3. ops = AllCode(source) /\ labels = AllLabels(source)
      BY <2>2, ScanEnd
    <2>4. QED
      BY <1>5, <1>7, <2>1, <2>3
  <1>10. QED
    BY <1>8, <1>9 DEF ParsesText

(* parse_from_istream() accepts exactly the texts whose brackets outside   *)
(* labels are balanced, and returns the instructions, the labels and the   *)
(* jump targets of the text, whatever it is.                               *)
THEOREM ParserIsCorrect == ParseSpec => []ParsesText
  BY TablesAlways, ScanAlways, ScanGives, PTL

-----------------------------------------------------------------------------
(* print() of any tables.                                                  *)
Before(names, p) == Cardinality({k \in DOMAIN names : names[k][1] < p})

NamesAt(names, p) == SubSeq(names, Before(names, p) + 1, Before(names, p + 1))

Quoted(name) == <<Separator>> \o name \o <<Separator>>

NamesText(names, p) ==
    FlattenSeq([k \in DOMAIN NamesAt(names, p) |-> Quoted(NamesAt(names, p)[k][2])])

Piece(code, names, p) ==
    NamesText(names, p) \o (IF p \in DOMAIN code THEN <<code[p]>> ELSE << >>)

PrintOf(code, names) ==
    FlattenSeq([p \in 1..(Len(code) + 1) |-> Piece(code, names, p)]) \o <<"newline">>

(* The tables of a source: labels in the order of their pointers, which    *)
(* are those of instructions or of the end point, and no name has a        *)
(* separator in it.                                                        *)
GoodTables(code, names) ==
    /\ code \in Seq(Instruction)
    /\ names \in Seq(Nat \X Seq(Character))
    /\ \A r \in 1..Len(names) :
          /\ names[r][1] \in 1..(Len(code) + 1)
          /\ \A k \in 1..Len(names[r][2]) : names[r][2][k] # Separator
    /\ \A r, s \in 1..Len(names) : r <= s => names[r][1] <= names[s][1]

(* A set that has with every place those before it is an interval.         *)
LEMMA DownClosed ==
    ASSUME NEW n \in Nat, NEW S \in SUBSET (1..n),
           \A a \in S : \A b \in 1..n : b <= a => b \in S
    PROVE  Cardinality(S) \in 0..n /\ S = 1..Cardinality(S)
  <1>1. CASE S = {}
    <2>1. Cardinality(S) = 0
      BY <1>1, FS_EmptySet
    <2>2. QED
      BY <1>1, <2>1
  <1>2. CASE S # {}
    <2>1. PICK top \in S : \A y \in S : y <= top
      <3>1. S \in SUBSET (0..n)
        OBVIOUS
      <3>2. QED
        BY <1>2, <3>1, GreatestElement
    <2>2. top \in 1..n /\ \A b \in 1..n : b <= top <=> b \in S
      BY <2>1
    <2>3. S = 1..top
      <3>1. \A b : b \in 1..top <=> b \in 1..n /\ b <= top
        BY <2>2
      <3>2. \A b : b \in S => b \in 1..n
        OBVIOUS
      <3>3. QED
        BY <2>2, <3>1, <3>2
    <2>4. Cardinality(1..top) = IF 1 > top THEN 0 ELSE top - 1 + 1
      <3>1. top \in Int
        BY <2>2
      <3>2. QED
        BY <3>1, FS_Interval
    <2>5. Cardinality(S) = top
      BY <2>2, <2>3, <2>4
    <2>6. QED
      BY <2>2, <2>3, <2>5
  <1>3. QED
    BY <1>1, <1>2

LEMMA BeforeFacts ==
    ASSUME NEW code, NEW names, GoodTables(code, names)
    PROVE  /\ Len(names) \in Nat /\ Len(code) \in Nat
           /\ \A p \in Nat : Before(names, p) \in 0..Len(names)
           /\ \A p \in Nat : \A r \in 1..Len(names) :
                 names[r][1] < p <=> r <= Before(names, p)
           /\ Before(names, 1) = 0
           /\ Before(names, Len(code) + 2) = Len(names)
           /\ \A p \in Nat : Before(names, p) <= Before(names, p + 1)
  <1>1. /\ Len(names) \in Nat /\ Len(code) \in Nat /\ DOMAIN names = 1..Len(names)
    BY DEF GoodTables
  <1>2. \A r \in 1..Len(names) : names[r][1] \in 1..(Len(code) + 1)
    BY DEF GoodTables
  <1>3. ASSUME NEW p \in Nat
        PROVE  /\ Before(names, p) \in 0..Len(names)
               /\ \A r \in 1..Len(names) : names[r][1] < p <=> r <= Before(names, p)
    <2> DEFINE S == {k \in 1..Len(names) : names[k][1] < p}
    <2>1. ASSUME NEW a \in S, NEW b \in 1..Len(names), b <= a PROVE b \in S
      <3>1. names[b][1] <= names[a][1] /\ names[a][1] < p
        BY <2>1 DEF GoodTables
      <3>2. names[a][1] \in 1..(Len(code) + 1) /\ names[b][1] \in 1..(Len(code) + 1)
        BY <1>2
      <3>3. names[b][1] < p
        BY <1>1, <3>1, <3>2
      <3>4. QED
        BY <3>3
    <2>2. S \in SUBSET (1..Len(names))
      OBVIOUS
    <2>3. Before(names, p) = Cardinality(S)
      BY <1>1 DEF Before
    <2>4. \A r \in 1..Len(names) : names[r][1] < p <=> r \in S
      OBVIOUS
    <2> HIDE DEF S
    <2>5. Cardinality(S) \in 0..Len(names) /\ S = 1..Cardinality(S)
      BY <1>1, <2>1, <2>2, DownClosed
    <2>6. QED
      BY <1>1, <2>3, <2>4, <2>5
  <1>3a. \A p \in Nat : Before(names, p) \in 0..Len(names)
    BY <1>3
  <1>3b. \A p \in Nat : \A r \in 1..Len(names) :
            names[r][1] < p <=> r <= Before(names, p)
    BY <1>3
  <1>4. Before(names, 1) = 0
    <2> SUFFICES ASSUME Before(names, 1) # 0 PROVE FALSE
      OBVIOUS
    <2>1. Before(names, 1) \in 1..Len(names)
      BY <1>1, <1>3a
    <2>2. names[Before(names, 1)][1] < 1
      <3>1. 1 \in Nat /\ Before(names, 1) <= Before(names, 1)
        BY <1>1, <2>1
      <3>2. QED
        BY <1>3b, <2>1, <3>1
    <2>3. QED
      BY <1>2, <2>1, <2>2
  <1>5. Before(names, Len(code) + 2) = Len(names)
    <2>1. Len(code) + 2 \in Nat
      BY <1>1
    <2>2. CASE Len(names) = 0
      BY <1>1, <1>3a, <2>1, <2>2
    <2>3. CASE Len(names) # 0
      <3>1. Len(names) \in 1..Len(names)
        BY <1>1, <2>3
      <3>2. names[Len(names)][1] < Len(code) + 2
        BY <1>1, <1>2, <3>1
      <3>3. Len(names) <= Before(names, Len(code) + 2)
        BY <1>3b, <2>1, <3>1, <3>2
      <3>4. Before(names, Len(code) + 2) \in 0..Len(names)
        BY <1>3a, <2>1
      <3>5. QED
        BY <1>1, <3>3, <3>4
    <2>4. QED
      BY <2>2, <2>3
  <1>6. ASSUME NEW p \in Nat PROVE Before(names, p) <= Before(names, p + 1)
    <2>1. p + 1 \in Nat /\ Before(names, p) \in 0..Len(names)
          /\ Before(names, p + 1) \in 0..Len(names)
      <3>1. p + 1 \in Nat
        OBVIOUS
      <3>2. QED
        BY <1>3a, <3>1
    <2>2. CASE Before(names, p) = 0
      BY <1>1, <2>1, <2>2
    <2>3. CASE Before(names, p) # 0
      <3>1. Before(names, p) \in 1..Len(names)
        BY <1>1, <2>1, <2>3
      <3>2. names[Before(names, p)][1] < p /\ names[Before(names, p)][1] \in Nat
        <4>1. names[Before(names, p)][1] \in 1..(Len(code) + 1)
          BY <1>2, <3>1
        <4>2. Before(names, p) <= Before(names, p)
          BY <1>1, <3>1
        <4>3. names[Before(names, p)][1] < p
          BY <1>3b, <3>1, <4>2
        <4>4. QED
          BY <1>1, <4>1, <4>3
      <3>3. names[Before(names, p)][1] < p + 1
        BY <3>2
      <3>4. QED
        BY <1>3b, <2>1, <3>1, <3>3
    <2>4. QED
      BY <2>2, <2>3
  <1>7. QED
    BY <1>1, <1>3a, <1>3b, <1>4, <1>5, <1>6

LEMMA QuotedFacts ==
    ASSUME NEW name \in Seq(Character)
    PROVE  /\ Quoted(name) \in Seq(Character)
           /\ Len(name) \in Nat
           /\ Len(Quoted(name)) = Len(name) + 2
           /\ Quoted(name)[1] = Separator
           /\ \A k \in 1..Len(name) : Quoted(name)[k + 1] = name[k]
           /\ Quoted(name)[Len(name) + 2] = Separator
  <1>1. Separator \in Character
    BY DEF Character
  <1>2. <<Separator>> \in Seq(Character) /\ Len(<<Separator>>) = 1
        /\ <<Separator>>[1] = Separator
    BY <1>1
  <1>3. \A a, b \in Seq(Character) :
           /\ a \o b \in Seq(Character)
           /\ Len(a) \in Nat
           /\ Len(a \o b) = Len(a) + Len(b)
           /\ \A k \in 1..Len(a) : (a \o b)[k] = a[k]
           /\ \A k \in 1..Len(b) : (a \o b)[Len(a) + k] = b[k]
    OBVIOUS
  <1> DEFINE quote == <<Separator>>
             left == quote \o name
  <1>4. quote \in Seq(Character) /\ Len(quote) = 1 /\ quote[1] = Separator
    BY <1>2
  <1>5. Quoted(name) = left \o quote
    BY DEF Quoted
  <1> HIDE DEF quote
  <1>6. /\ left \in Seq(Character) /\ Len(name) \in Nat
        /\ Len(left) = Len(name) + 1
        /\ left[1] = Separator
        /\ \A k \in 1..Len(name) : left[1 + k] = name[k]
    <2>1. 1 \in 1..Len(quote)
      BY <1>4
    <2>2. QED
      BY <1>3, <1>4, <2>1
  <1> HIDE DEF left
  <1>7. /\ Quoted(name) \in Seq(Character)
        /\ Len(Quoted(name)) = Len(left) + 1
        /\ \A k \in 1..Len(left) : Quoted(name)[k] = left[k]
        /\ Quoted(name)[Len(left) + 1] = Separator
    <2>1. 1 \in 1..Len(quote)
      BY <1>4
    <2>2. /\ left \o quote \in Seq(Character)
          /\ Len(left \o quote) = Len(left) + Len(quote)
          /\ \A k \in 1..Len(left) : (left \o quote)[k] = left[k]
          /\ (left \o quote)[Len(left) + 1] = quote[1]
      BY <1>3, <1>4, <1>6, <2>1
    <2>3. QED
      BY <1>4, <1>5, <2>2
  <1>8. \A k \in 1..Len(name) : k + 1 \in 1..Len(left) /\ 1 + k = k + 1
    BY <1>6
  <1>9. /\ 1 \in 1..Len(left) /\ Len(left) + 1 = Len(name) + 2
    BY <1>6
  <1>10. QED
    BY <1>6, <1>7, <1>8, <1>9

(* The widths of the quoted names, added up.                               *)
Widths(names, w) ==
    /\ w \in [0..Len(names) -> Nat]
    /\ w[0] = 0
    /\ \A r \in 1..Len(names) : w[r] = w[r - 1] + Len(names[r][2]) + 2

LEMMA WidthSum ==
    /\ \A a, b \in Nat : a + (b + 2) = a + b + 2
    /\ \A a, b, c \in Nat : a <= b => a <= b + c + 2
    /\ \A a, b, c, d \in Nat : b = a + d + 2 => (a - c) + (d + 2) = b - c
  OBVIOUS

LEMMA NamesTyped ==
    ASSUME NEW names \in Seq(Nat \X Seq(Character))
    PROVE  /\ Len(names) \in Nat
           /\ \A r \in 1..Len(names) :
                 /\ names[r] \in Nat \X Seq(Character)
                 /\ names[r] = <<names[r][1], names[r][2]>>
                 /\ names[r][2] \in Seq(Character)
  OBVIOUS

LEMMA WidthsExist ==
    ASSUME NEW names \in Seq(Nat \X Seq(Character))
    PROVE  \E w : Widths(names, w)
  <1> DEFINE n == Len(names)
             quote(r) == Quoted(names[r][2])
             quotes == [r \in 1..n |-> quote(r)]
  <1>1. n \in Nat /\ \A r \in 1..n : names[r][2] \in Seq(Character)
    OBVIOUS
  <1>2. \A r \in 1..n : /\ quote(r) \in Seq(Character)
                        /\ Len(quote(r)) = Len(names[r][2]) + 2
                        /\ Len(names[r][2]) \in Nat
    BY <1>1, QuotedFacts
  <1> HIDE DEF quote, n
  <1>3. quotes \in Seq(Seq(Character)) /\ Len(quotes) = n
        /\ \A r \in 1..n : quotes[r] = quote(r)
    BY <1>1, <1>2
  <1> HIDE DEF quotes
  <1>4. PICK w \in [0..n -> Nat] :
           w[0] = 0 /\ \A r \in 1..n : w[r] = w[r - 1] + Len(quotes[r])
    <2>1. \E w \in [0..Len(quotes) -> Nat] :
             /\ w[0] = 0
             /\ \A r \in 1..Len(quotes) : w[r] = w[r - 1] + Len(quotes[r])
      BY <1>3, FlattenPlaces
    <2>2. QED
      BY <1>3, <2>1
  <1>5. ASSUME NEW r \in 1..n PROVE w[r] = w[r - 1] + Len(names[r][2]) + 2
    <2> DEFINE l == Len(names[r][2])
    <2>1. w[r] = w[r - 1] + (l + 2)
      BY <1>2, <1>3, <1>4
    <2>2. w[r - 1] \in Nat /\ l \in Nat
      <3>1. r - 1 \in 0..n
        BY <1>1
      <3>2. QED
        BY <1>2, <1>4, <3>1
    <2> HIDE DEF l
    <2>4. w[r] = w[r - 1] + l + 2
      BY <2>1, <2>2, WidthSum
    <2>3. QED
      BY <2>4 DEF l
  <1>6. QED
    BY <1>4, <1>5 DEF Widths, n

LEMMA WidthsGrow ==
    ASSUME NEW names \in Seq(Nat \X Seq(Character)), NEW w, Widths(names, w)
    PROVE  /\ \A r \in 0..Len(names) : w[r] \in Nat
           /\ \A r \in 1..Len(names) :
                 /\ w[r] = w[r - 1] + Len(names[r][2]) + 2
                 /\ Len(names[r][2]) \in Nat
           /\ \A r, s \in 0..Len(names) : r <= s => w[r] <= w[s]
  <1>1. Len(names) \in Nat /\ \A r \in 1..Len(names) : Len(names[r][2]) \in Nat
    <2>1. \A q \in Seq(Character) : Len(q) \in Nat
      OBVIOUS
    <2>2. \A r \in 1..Len(names) : names[r][2] \in Seq(Character)
      OBVIOUS
    <2>3. Len(names) \in Nat
      OBVIOUS
    <2>4. QED
      BY <2>1, <2>2, <2>3
  <1>2. /\ \A r \in 0..Len(names) : w[r] \in Nat
        /\ \A r \in 1..Len(names) : w[r] = w[r - 1] + Len(names[r][2]) + 2
    BY DEF Widths
  <1>3. ASSUME NEW r \in 0..Len(names), NEW s \in 0..Len(names), r <= s
        PROVE  w[r] <= w[s]
    <2> DEFINE T == {x \in r..Len(names) : ~(w[r] <= w[x])}
    <2> SUFFICES ASSUME T # {} PROVE FALSE
      BY <1>1, <1>3
    <2>1. PICK x \in T : \A y \in T : x <= y
      <3>1. T \in SUBSET Nat
        BY <1>1
      <3> HIDE DEF T
      <3>2. QED
        BY <3>1, LeastElement
    <2>2. x \in r..Len(names) /\ ~(w[r] <= w[x])
      OBVIOUS
    <2>3. x # r
      BY <1>2, <2>2
    <2>4. x - 1 \in r..Len(names) /\ ~(x <= x - 1) /\ x \in 1..Len(names)
          /\ x - 1 \in 0..Len(names) /\ x \in 0..Len(names)
      BY <1>1, <2>2, <2>3
    <2>5. x - 1 \notin T
      <3> HIDE DEF T
      <3>1. QED
        BY <2>1, <2>4
    <2>6. w[r] <= w[x - 1]
      BY <2>4, <2>5
    <2> DEFINE l == Len(names[x][2])
    <2>7. w[x] = w[x - 1] + l + 2
      BY <1>2, <2>4
    <2>8. w[x] \in Nat /\ w[x - 1] \in Nat /\ w[r] \in Nat /\ l \in Nat
      BY <1>1, <1>2, <2>4
    <2> HIDE DEF l, T
    <2>9. QED
      BY <2>2, <2>6, <2>7, <2>8, WidthSum
  <1>4. QED
    BY <1>1, <1>2, <1>3

(* The labels of one pointer, and where each of them is printed.           *)
NamesPlaces(names, w, p) ==
    \A r \in 1..Len(names) : names[r][1] = p =>
        \A k \in 1..(Len(names[r][2]) + 2) :
            /\ w[r - 1] - w[Before(names, p)] + k \in 1..Len(NamesText(names, p))
            /\ NamesText(names, p)[w[r - 1] - w[Before(names, p)] + k]
                 = Quoted(names[r][2])[k]

LEMMA NamesTextFacts ==
    ASSUME NEW code, NEW names, GoodTables(code, names), NEW w, Widths(names, w),
           NEW p \in 1..(Len(code) + 1)
    PROVE  /\ NamesText(names, p) \in Seq(Character)
           /\ Len(NamesText(names, p)) = w[Before(names, p + 1)] - w[Before(names, p)]
           /\ NamesPlaces(names, w, p)
  <1> DEFINE low == Before(names, p)
             high == Before(names, p + 1)
             here == NamesAt(names, p)
             quote(r) == Quoted(names[r][2])
             parts == [k \in 1..(high - low) |-> quote(low + k)]
  <1>1. /\ Len(names) \in Nat /\ Len(code) \in Nat /\ names \in Seq(Nat \X Seq(Character))
        /\ p \in Nat /\ p + 1 \in Nat
    BY BeforeFacts DEF GoodTables
  <1>2. /\ low \in 0..Len(names) /\ high \in 0..Len(names) /\ low <= high
    BY <1>1, BeforeFacts
  <1>3. ASSUME NEW r \in 1..Len(names), names[r][1] = p
        PROVE  r <= high /\ ~(r <= low)
    <2>1. names[r][1] < p + 1 /\ ~(names[r][1] < p)
      BY <1>1, <1>3
    <2>2. /\ names[r][1] < p <=> r <= Before(names, p)
          /\ names[r][1] < p + 1 <=> r <= Before(names, p + 1)
      BY <1>1, BeforeFacts
    <2>3. QED
      BY <2>1, <2>2
  <1>4. \A r \in 1..Len(names) :
           /\ quote(r) \in Seq(Character)
           /\ Len(quote(r)) = Len(names[r][2]) + 2
    <2>1. \A r \in 1..Len(names) : names[r][2] \in Seq(Character)
      BY <1>1, NamesTyped
    <2>2. QED
      BY <2>1, QuotedFacts
  <1>5. /\ \A r \in 0..Len(names) : w[r] \in Nat
        /\ \A r \in 1..Len(names) :
              w[r] = w[r - 1] + Len(names[r][2]) + 2 /\ Len(names[r][2]) \in Nat
    BY <1>1, WidthsGrow
  <1> HIDE DEF low, high
  <1>6. DOMAIN here = 1..(high - low) /\ \A k \in 1..(high - low) : here[k] = names[low + k]
    <2>1. here = SubSeq(names, low + 1, high)
      BY DEF NamesAt, low, high
    <2>2. DOMAIN SubSeq(names, low + 1, high) = 1..(high - low)
      BY <1>1, <1>2
    <2>3. \A k \in 1..(high - low) : SubSeq(names, low + 1, high)[k] = names[low + k]
      BY <1>1, <1>2
    <2>4. QED
      BY <2>1, <2>2, <2>3
  <1>7. \A k \in 1..(high - low) : low + k \in 1..Len(names)
    BY <1>1, <1>2
  <1>8. NamesText(names, p) = FlattenSeq(parts)
    <2>1. [k \in DOMAIN here |-> Quoted(here[k][2])] = parts
      BY <1>6
    <2>2. QED
      BY <2>1 DEF NamesText, here
  <1> HIDE DEF here, quote
  <1>9. parts \in Seq(Seq(Character)) /\ Len(parts) = high - low
        /\ \A k \in 1..(high - low) : parts[k] = quote(low + k)
    <2>1. high - low \in Nat
      BY <1>1, <1>2
    <2>2. \A k \in 1..(high - low) : quote(low + k) \in Seq(Character)
      BY <1>4, <1>7
    <2>3. QED
      BY <2>1, <2>2
  <1> HIDE DEF parts
  <1> DEFINE text == FlattenSeq(parts)
  <1>10a. PICK u \in [0..Len(parts) -> Nat] :
            /\ u[0] = 0
            /\ \A k \in 1..Len(parts) : u[k] = u[k - 1] + Len(parts[k])
            /\ u[Len(parts)] = Len(text)
            /\ \A k \in 1..Len(parts) : \A j \in 1..Len(parts[k]) :
                  /\ u[k - 1] + j \in 1..Len(text)
                  /\ text[u[k - 1] + j] = parts[k][j]
    BY <1>9, FlattenPlaces
  <1>10. /\ u[0] = 0
         /\ \A k \in 1..(high - low) : u[k] = u[k - 1] + Len(parts[k])
         /\ u[high - low] = Len(text)
         /\ \A k \in 1..(high - low) : \A j \in 1..Len(parts[k]) :
               /\ u[k - 1] + j \in 1..Len(text)
               /\ text[u[k - 1] + j] = parts[k][j]
    <2>1. Len(parts) = high - low
      BY <1>9
    <2>2. QED
      BY <1>10a, <2>1
  <1>11. text \in Seq(Character)
    BY <1>9, FlattenPlaces
  <1> HIDE DEF text
  <1>12. \A k \in 0..(high - low) : u[k] = w[low + k] - w[low]
    <2> DEFINE T == {k \in 0..(high - low) : u[k] # w[low + k] - w[low]}
    <2> SUFFICES ASSUME T # {} PROVE FALSE
      OBVIOUS
    <2>1. PICK k \in T : \A j \in T : k <= j
      <3>1. T \in SUBSET Nat
        BY <1>1, <1>2
      <3> HIDE DEF T
      <3>2. QED
        BY <3>1, LeastElement
    <2>2. k \in 0..(high - low) /\ u[k] # w[low + k] - w[low]
      OBVIOUS
    <2>3. k # 0
      <3> SUFFICES ASSUME k = 0 PROVE FALSE
        OBVIOUS
      <3>1. low + 0 = low /\ w[low] \in Nat
        BY <1>1, <1>2, <1>5
      <3>2. w[low] - w[low] = 0
        BY <3>1
      <3>3. QED
        BY <1>10, <2>2, <3>1, <3>2
    <2>4. k \in 1..(high - low) /\ k - 1 \in 0..(high - low) /\ ~(k <= k - 1)
      BY <1>1, <1>2, <2>2, <2>3
    <2>5. k - 1 \notin T
      <3> HIDE DEF T
      <3>1. QED
        BY <2>1, <2>4
    <2>6. u[k - 1] = w[low + (k - 1)] - w[low]
      BY <2>4, <2>5
    <2> DEFINE r == low + k
    <2>7. r \in 1..Len(names) /\ r \in 0..Len(names) /\ r - 1 \in 0..Len(names)
          /\ low + (k - 1) = r - 1
      <3>1. low \in Nat /\ k \in Nat /\ k >= 1
        BY <1>1, <1>2, <2>4
      <3>2. low + (k - 1) = r - 1
        BY <3>1
      <3>3. r \in 1..Len(names)
        BY <1>7, <2>4
      <3> HIDE DEF r
      <3>4. QED
        BY <1>1, <3>2, <3>3
    <2>8. u[k] = u[k - 1] + Len(quote(r))
      BY <1>9, <1>10, <2>4
    <2> HIDE DEF r, T
    <2> DEFINE l == Len(names[r][2])
    <2>9. Len(quote(r)) = l + 2 /\ w[r] = w[r - 1] + l + 2 /\ l \in Nat
          /\ w[r] \in Nat /\ w[r - 1] \in Nat /\ w[low] \in Nat
      BY <1>1, <1>2, <1>4, <1>5, <2>7
    <2> HIDE DEF l
    <2>10. u[k] = (w[r - 1] - w[low]) + (l + 2)
      BY <2>6, <2>7, <2>8, <2>9
    <2>11. u[k] = w[r] - w[low]
      <3>1. \A a, b, c, d \in Nat : b = a + d + 2 => (a - c) + (d + 2) = b - c
        BY WidthSum
      <3>2. (w[r - 1] - w[low]) + (l + 2) = w[r] - w[low]
        BY ONLY <2>9, <3>1, ZenonT(40)
      <3>3. QED
        BY ONLY <2>10, <3>2, Zenon
    <2>12. QED
      BY <2>2, <2>11 DEF r
  <1>13. Len(text) = w[high] - w[low]
    <2>1. high - low \in 0..(high - low) /\ low + (high - low) = high
      BY <1>1, <1>2
    <2>2. QED
      BY <1>10, <1>12, <2>1
  <1>14. ASSUME NEW r \in 1..Len(names), names[r][1] = p,
                NEW k \in 1..(Len(names[r][2]) + 2)
         PROVE  /\ w[r - 1] - w[low] + k \in 1..Len(text)
                /\ text[w[r - 1] - w[low] + k] = quote(r)[k]
    <2>1. r <= high /\ ~(r <= low)
      BY <1>3, <1>14
    <2>2. /\ r - low \in 1..(high - low) /\ (r - low) - 1 \in 0..(high - low)
          /\ low + (r - low) = r /\ low + ((r - low) - 1) = r - 1
      BY <1>1, <1>2, <2>1
    <2>3. parts[r - low] = quote(r) /\ u[(r - low) - 1] = w[r - 1] - w[low]
      BY <1>9, <1>12, <2>2
    <2>4. k \in 1..Len(parts[r - low])
      BY <1>4, <2>3
    <2>5. /\ u[(r - low) - 1] + k \in 1..Len(text)
          /\ text[u[(r - low) - 1] + k] = parts[r - low][k]
      BY <1>10, <2>2, <2>4
    <2>6. QED
      BY <2>3, <2>5
  <1>15. QED
    BY <1>8, <1>11, <1>13, <1>14 DEF text, low, high, quote, NamesPlaces

(* What is printed for one pointer: its labels, and its instruction if it  *)
(* is not the end point.                                                   *)
LEMMA PieceFacts ==
    ASSUME NEW code, NEW names, GoodTables(code, names), NEW p \in 1..(Len(code) + 1)
    PROVE  /\ Piece(code, names, p) \in Seq(Character)
           /\ Len(Piece(code, names, p))
                = Len(NamesText(names, p)) + (IF p <= Len(code) THEN 1 ELSE 0)
           /\ \A k \in 1..Len(NamesText(names, p)) :
                 Piece(code, names, p)[k] = NamesText(names, p)[k]
           /\ p <= Len(code) => Piece(code, names, p)[Len(NamesText(names, p)) + 1] = code[p]
  <1> DEFINE left == NamesText(names, p)
             right == IF p \in DOMAIN code THEN <<code[p]>> ELSE << >>
  <1>1. code \in Seq(Instruction) /\ names \in Seq(Nat \X Seq(Character))
    BY DEF GoodTables
  <1>2. left \in Seq(Character) /\ Len(left) \in Nat
    <2>1. PICK w : Widths(names, w)
      BY <1>1, WidthsExist
    <2>2. left \in Seq(Character)
      BY <2>1, NamesTextFacts
    <2> HIDE DEF left
    <2>3. QED
      BY <2>2
  <1>3. DOMAIN code = 1..Len(code) /\ Len(code) \in Nat /\ p \in Nat /\ 1 <= p
    BY <1>1
  <1>4. p <= Len(code) => p \in DOMAIN code /\ code[p] \in Character
    <2>1. p <= Len(code) => p \in 1..Len(code)
      BY <1>3
    <2>2. \A k \in 1..Len(code) : code[k] \in Instruction
      BY <1>1
    <2>3. QED
      BY <1>3, <2>1, <2>2 DEF Character
  <1>5. /\ right \in Seq(Character)
        /\ Len(right) = IF p <= Len(code) THEN 1 ELSE 0
        /\ p <= Len(code) => right[1] = code[p]
    <2>1. CASE p <= Len(code)
      <3>1. right = <<code[p]>> /\ code[p] \in Character
        BY <1>4, <2>1
      <3> HIDE DEF right
      <3>2. \A x \in Character : <<x>> \in Seq(Character) /\ Len(<<x>>) = 1 /\ <<x>>[1] = x
        OBVIOUS
      <3>3. QED
        BY <2>1, <3>1, <3>2
    <2>2. CASE ~(p <= Len(code))
      <3>1. right = << >>
        BY <1>3, <2>2
      <3> HIDE DEF right
      <3>2. << >> \in Seq(Character) /\ Len(<< >>) = 0
        OBVIOUS
      <3>3. QED
        BY <2>2, <3>1, <3>2
    <2>3. QED
      BY <2>1, <2>2
  <1>6. Piece(code, names, p) = left \o right
    BY DEF Piece
  <1> HIDE DEF left, right
  <1>7. \A a, b \in Seq(Character) :
           /\ a \o b \in Seq(Character)
           /\ Len(a \o b) = Len(a) + Len(b)
           /\ \A k \in 1..Len(a) : (a \o b)[k] = a[k]
           /\ \A k \in 1..Len(b) : (a \o b)[Len(a) + k] = b[k]
    OBVIOUS
  <1>8. /\ left \o right \in Seq(Character)
        /\ Len(left \o right) = Len(left) + Len(right)
        /\ \A k \in 1..Len(left) : (left \o right)[k] = left[k]
        /\ \A k \in 1..Len(right) : (left \o right)[Len(left) + k] = right[k]
    BY <1>2, <1>5, <1>7
  <1>9. p <= Len(code) => 1 \in 1..Len(right)
    BY <1>5
  <1>10. QED
    BY <1>5, <1>6, <1>8, <1>9 DEF left

(* Where everything stands in a printed text.                              *)
Layout(text, code, names, w) ==
    /\ text \in Seq(Character)
    /\ Widths(names, w)
    /\ Len(text) = Len(code) + w[Len(names)] + 1
    /\ text[Len(text)] = "newline"
    /\ \A p \in 1..Len(code) : text[p + w[Before(names, p + 1)]] = code[p]
    /\ \A r \in 1..Len(names) : \A k \in 1..(Len(names[r][2]) + 2) :
          text[(names[r][1] - 1) + w[r - 1] + k] = Quoted(names[r][2])[k]

LEMMA PieceSum ==
    /\ \A a, b, c, d \in Nat : (a + b) + ((c - b) + d) = (a + d) + c
    /\ \A a, b, c, d \in Nat : (a + b) + ((c - b) + d) = a + c + d
  OBVIOUS

(* The places at which the pieces start, and what they are.                *)
PieceStarts(code, names, at) ==
    /\ at[0] = 0
    /\ \A p \in 1..(Len(code) + 1) : at[p] = at[p - 1] + Len(Piece(code, names, p))

PieceEnds(code, names, w, at) ==
    \A p \in 0..(Len(code) + 1) :
        at[p] = (IF p <= Len(code) THEN p ELSE Len(code)) + w[Before(names, p + 1)]

LEMMA PiecePlaces ==
    ASSUME NEW code, NEW names, GoodTables(code, names), NEW w, Widths(names, w),
           NEW at, PieceStarts(code, names, at)
    PROVE  PieceEnds(code, names, w, at)
  <1> DEFINE n == Len(code)
             value(p) == (IF p <= n THEN p ELSE n) + w[Before(names, p + 1)]
             T == {p \in 0..(n + 1) : at[p] # value(p)}
  <1> SUFFICES ASSUME T # {} PROVE FALSE
    BY DEF PieceEnds
  <1>1. n \in Nat /\ Len(names) \in Nat /\ Before(names, 1) = 0
        /\ names \in Seq(Nat \X Seq(Character))
    BY BeforeFacts DEF GoodTables
  <1>2. \A p \in Nat : Before(names, p) \in 0..Len(names)
    BY BeforeFacts
  <1>3. w[0] = 0 /\ \A r \in 0..Len(names) : w[r] \in Nat
    BY <1>1, WidthsGrow DEF Widths
  <1>4. PICK p \in T : \A q \in T : p <= q
    <2>1. T \in SUBSET Nat
      BY <1>1
    <2> HIDE DEF T
    <2>2. QED
      BY <2>1, LeastElement
  <1>5. p \in 0..(n + 1) /\ at[p] # value(p)
    OBVIOUS
  <1>6. p # 0
    <2> SUFFICES ASSUME p = 0 PROVE FALSE
      OBVIOUS
    <2>1. value(0) = 0
      BY <1>1, <1>3
    <2>2. QED
      BY <1>5, <2>1 DEF PieceStarts
  <1>7. p \in 1..(n + 1) /\ p - 1 \in 0..(n + 1) /\ ~(p <= p - 1) /\ (p - 1) + 1 = p
        /\ p \in Nat /\ p + 1 \in Nat /\ p - 1 <= n /\ p - 1 \in Nat
    BY <1>1, <1>5, <1>6
  <1>8. p - 1 \notin T
    <2> HIDE DEF T
    <2>1. QED
      BY <1>4, <1>7
  <1> DEFINE low == w[Before(names, p)]
             high == w[Before(names, p + 1)]
             last == IF p <= n THEN 1 ELSE 0
  <1>9. at[p - 1] = (p - 1) + low
    BY <1>7, <1>8
  <1>10. at[p] = at[p - 1] + ((high - low) + last)
    <2>1. Len(Piece(code, names, p)) = Len(NamesText(names, p)) + last
      BY <1>7, PieceFacts
    <2>2. Len(NamesText(names, p)) = high - low
      BY <1>7, NamesTextFacts
    <2>3. QED
      BY <1>7, <2>1, <2>2 DEF PieceStarts
  <1>11. low \in Nat /\ high \in Nat /\ last \in Nat
    <2>1. Before(names, p) \in 0..Len(names) /\ Before(names, p + 1) \in 0..Len(names)
      BY <1>2, <1>7
    <2>2. QED
      BY <1>3, <2>1
  <1>12. value(p) = ((p - 1) + last) + high
    <2>1. (IF p <= n THEN p ELSE n) = (p - 1) + last
      <3>1. CASE p <= n
        BY <1>7, <3>1
      <3>2. CASE ~(p <= n)
        <4>1. n = p - 1
          BY ONLY <1>1, <1>7, <3>2
        <4>2. (p - 1) + 0 = p - 1
          BY ONLY <1>7
        <4>3. (IF p <= n THEN p ELSE n) = n /\ last = 0
          BY ONLY <3>2, Zenon
        <4>4. QED
          BY ONLY <4>1, <4>2, <4>3
      <3>3. QED
        BY <3>1, <3>2
    <2>2. QED
      BY <2>1
  <1> HIDE DEF low, high, last, value, T, n
  <1>13. ((p - 1) + low) + ((high - low) + last) = ((p - 1) + last) + high
    BY <1>7, <1>11, PieceSum
  <1>14. QED
    BY <1>5, <1>9, <1>10, <1>12, <1>13

LEMMA PrintPlaces ==
    ASSUME NEW code, NEW names, GoodTables(code, names)
    PROVE  \E w : Layout(PrintOf(code, names), code, names, w)
  <1> DEFINE n == Len(code)
             piece(p) == Piece(code, names, p)
             pieces == [p \in 1..(n + 1) |-> piece(p)]
             body == FlattenSeq(pieces)
             text == PrintOf(code, names)
  <1>1. /\ n \in Nat /\ Len(names) \in Nat /\ n + 1 \in Nat
        /\ names \in Seq(Nat \X Seq(Character))
    BY BeforeFacts DEF GoodTables
  <1>2. PICK w : Widths(names, w)
    BY <1>1, WidthsExist
  <1>3. \A p \in 1..(n + 1) : piece(p) \in Seq(Character)
    BY PieceFacts
  <1> HIDE DEF piece, n
  <1>4. pieces \in Seq(Seq(Character)) /\ Len(pieces) = n + 1
        /\ \A p \in 1..(n + 1) : pieces[p] = piece(p)
    BY <1>1, <1>3
  <1>5. text = body \o <<"newline">>
    BY DEF PrintOf, piece, n
  <1> HIDE DEF pieces
  <1>6. PICK at \in [0..Len(pieces) -> Nat] :
            /\ at[0] = 0
            /\ \A p \in 1..Len(pieces) : at[p] = at[p - 1] + Len(pieces[p])
            /\ at[Len(pieces)] = Len(body)
            /\ \A p \in 1..Len(pieces) : \A k \in 1..Len(pieces[p]) :
                  /\ at[p - 1] + k \in 1..Len(body)
                  /\ body[at[p - 1] + k] = pieces[p][k]
    BY <1>4, FlattenPlaces
  <1>7. body \in Seq(Character)
    BY <1>4, FlattenPlaces
  <1> HIDE DEF body, text
  <1>8. /\ text \in Seq(Character) /\ Len(text) = Len(body) + 1
        /\ \A k \in 1..Len(body) : text[k] = body[k]
        /\ text[Len(text)] = "newline"
    <2>1. \A a \in Seq(Character) : \A x \in Character :
             /\ a \o <<x>> \in Seq(Character)
             /\ Len(a \o <<x>>) = Len(a) + 1
             /\ \A k \in 1..Len(a) : (a \o <<x>>)[k] = a[k]
             /\ (a \o <<x>>)[Len(a) + 1] = x
      OBVIOUS
    <2>2. "newline" \in Character
      BY DEF Character
    <2>3. QED
      BY <1>5, <1>7, <2>1, <2>2
  <1>9. \A p \in 1..(n + 1) : at[p] = at[p - 1] + Len(Piece(code, names, p))
    BY <1>4, <1>6 DEF piece
  <1>10. \A p \in 0..(n + 1) :
            at[p] = (IF p <= n THEN p ELSE n) + w[Before(names, p + 1)]
    <2>1. PieceStarts(code, names, at)
      BY <1>6, <1>9 DEF PieceStarts, n
    <2>2. PieceEnds(code, names, w, at)
      BY <1>2, <2>1, PiecePlaces
    <2>3. QED
      BY <2>2 DEF PieceEnds, n
  <1>11. Before(names, n + 2) = Len(names) /\ \A p \in Nat : Before(names, p) \in 0..Len(names)
    BY BeforeFacts DEF n
  <1>12. w[0] = 0 /\ \A r \in 0..Len(names) : w[r] \in Nat
    BY <1>1, <1>2, WidthsGrow DEF Widths
  <1>13. Len(text) = n + w[Len(names)] + 1
    <2>1. at[n + 1] = n + w[Before(names, (n + 1) + 1)]
      <3>1. n + 1 \in 0..(n + 1) /\ ~(n + 1 <= n)
        BY <1>1
      <3>2. QED
        BY <1>10, <3>1
    <2>2. (n + 1) + 1 = n + 2
      BY <1>1
    <2>3. at[n + 1] = Len(body)
      BY <1>4, <1>6
    <2>4. QED
      BY <1>8, <1>11, <2>1, <2>2, <2>3
  <1>14. ASSUME NEW p \in 1..(n + 1), NEW k \in 1..Len(piece(p))
         PROVE  /\ text[((p - 1) + w[Before(names, p)]) + k] = piece(p)[k]
    <2>1. /\ at[p - 1] + k \in 1..Len(body)
          /\ body[at[p - 1] + k] = piece(p)[k]
      BY <1>4, <1>6
    <2>2. at[p - 1] = (p - 1) + w[Before(names, p)]
      <3>1. p - 1 \in 0..(n + 1) /\ p - 1 <= n /\ (p - 1) + 1 = p
        BY <1>1
      <3>2. at[p - 1] = (p - 1) + w[Before(names, (p - 1) + 1)]
        BY <1>10, <3>1
      <3>3. QED
        BY <3>1, <3>2
    <2>3. QED
      BY <1>8, <2>1, <2>2
  <1>15. ASSUME NEW p \in 1..n PROVE text[p + w[Before(names, p + 1)]] = code[p]
    <2> DEFINE low == w[Before(names, p)]
               high == w[Before(names, p + 1)]
    <2>1. p \in 1..(n + 1) /\ p \in Nat /\ p + 1 \in Nat /\ p - 1 \in Nat /\ p <= n
      BY <1>1
    <2>2. /\ Len(piece(p)) = Len(NamesText(names, p)) + 1
          /\ piece(p)[Len(NamesText(names, p)) + 1] = code[p]
      BY <2>1, PieceFacts DEF piece, n
    <2>3. Len(NamesText(names, p)) = high - low /\ NamesText(names, p) \in Seq(Character)
      BY <1>2, <2>1, NamesTextFacts DEF n
    <2>4. low \in Nat /\ high \in Nat
      BY <1>11, <1>12, <2>1
    <2> HIDE DEF low, high
    <2>5. (high - low) + 1 \in 1..Len(piece(p))
      <3>1. Len(NamesText(names, p)) \in Nat
        BY <2>3
      <3>2. QED
        BY <2>2, <2>3, <3>1
    <2>6. text[((p - 1) + low) + ((high - low) + 1)] = piece(p)[(high - low) + 1]
      BY <1>14, <2>1, <2>5 DEF low
    <2>7. ((p - 1) + low) + ((high - low) + 1) = p + high
      BY <2>1, <2>4
    <2>8. QED
      BY <2>2, <2>3, <2>6, <2>7 DEF high
  <1>16. ASSUME NEW r \in 1..Len(names), NEW k \in 1..(Len(names[r][2]) + 2)
         PROVE  text[(names[r][1] - 1) + w[r - 1] + k] = Quoted(names[r][2])[k]
    <2> DEFINE p == names[r][1]
               low == w[Before(names, p)]
               here == w[r - 1]
    <2>1. p \in 1..(n + 1)
      BY DEF GoodTables, n
    <2>2. /\ (here - low) + k \in 1..Len(NamesText(names, p))
          /\ NamesText(names, p)[(here - low) + k] = Quoted(names[r][2])[k]
      <3>1. p \in 1..(Len(code) + 1)
        BY <2>1 DEF n
      <3>2. NamesPlaces(names, w, p)
        BY <1>2, <3>1, NamesTextFacts
      <3>3. QED
        BY <3>2 DEF NamesPlaces
    <2>3. low \in Nat /\ here \in Nat /\ p \in Nat /\ p - 1 \in Nat
      <3>1. p \in Nat /\ r - 1 \in 0..Len(names) /\ p - 1 \in Nat
        BY <1>1, <2>1
      <3>2. QED
        BY <1>11, <1>12, <3>1
    <2>4. k \in Nat
      OBVIOUS
    <2>5. /\ (here - low) + k \in 1..Len(piece(p))
          /\ piece(p)[(here - low) + k] = NamesText(names, p)[(here - low) + k]
      <3>1. /\ Len(piece(p)) = Len(NamesText(names, p)) + (IF p <= n THEN 1 ELSE 0)
            /\ \A j \in 1..Len(NamesText(names, p)) : piece(p)[j] = NamesText(names, p)[j]
        BY SMTT(30), <2>1, PieceFacts DEF piece, n
      <3>2. Len(NamesText(names, p)) \in Nat
        <4>1. NamesText(names, p) \in Seq(Character)
          BY <1>2, <2>1, NamesTextFacts DEF n
        <4>2. QED
          BY <4>1
      <3>3. QED
        BY <2>2, <3>1, <3>2
    <2>6. text[((p - 1) + low) + ((here - low) + k)] = piece(p)[(here - low) + k]
      BY <1>14, <2>1, <2>5
    <2> HIDE DEF p, low, here
    <2>7. ((p - 1) + low) + ((here - low) + k) = (p - 1) + here + k
      BY <2>3, <2>4, PieceSum
    <2>8. QED
      BY <2>2, <2>5, <2>6, <2>7 DEF p, here
  <1>17. QED
    BY <1>2, <1>8, <1>13, <1>15, <1>16 DEF Layout, text, n

-----------------------------------------------------------------------------
LEMMA SeqSame ==
    ASSUME NEW S, NEW a \in Seq(S), NEW b \in Seq(S), Len(a) = Len(b),
           \A k \in 1..Len(a) : a[k] = b[k]
    PROVE  a = b
  OBVIOUS

LEMMA ReadSum ==
    \A a, b, c, d \in Nat : a <= c /\ b <= d => ~(a + b + 1 > c + d + 1)
  OBVIOUS

(* What has been read of a printed text at character at: the instructions  *)
(* and the labels are the first ones of the tables it was printed from,    *)
(* and at is behind them, or behind the newline.                           *)
Prefix(part, all) ==
    /\ Len(part) <= Len(all)
    /\ \A k \in 1..Len(part) : part[k] = all[k]

ReadBack(text, at, code, names, ops_all, labels_all, w) ==
    /\ Layout(text, ops_all, labels_all, w)
    /\ code \in Seq(Instruction) /\ Prefix(code, ops_all)
    /\ names \in Seq(Nat \X Seq(Character)) /\ Prefix(names, labels_all)
    /\ \A r \in 1..Len(labels_all) :
          IF r <= Len(names) THEN labels_all[r][1] <= Len(code) + 1
          ELSE Len(code) + 1 <= labels_all[r][1]
    /\ \/ at = Len(code) + w[Len(names)] + 1
       \/ /\ at = Len(text) + 1
          /\ Len(code) = Len(ops_all) /\ Len(names) = Len(labels_all)

(* The characters of a table's text, without the text.                     *)
LEMMA LayoutFacts ==
    ASSUME NEW code, NEW names, GoodTables(code, names), NEW text, NEW w,
           Layout(text, code, names, w)
    PROVE  /\ Len(text) \in Nat /\ Len(code) \in Nat /\ Len(names) \in Nat
           /\ Len(text) = Len(code) + w[Len(names)] + 1
           /\ w[0] = 0
           /\ \A r \in 0..Len(names) : w[r] \in Nat /\ w[r] <= w[Len(names)]
           /\ \A r \in 1..Len(names) :
                 /\ names[r] = <<names[r][1], names[r][2]>>
                 /\ names[r][1] \in 1..(Len(code) + 1)
                 /\ names[r][2] \in Seq(Character) /\ Len(names[r][2]) \in Nat
                 /\ w[r] = w[r - 1] + Len(names[r][2]) + 2
  <1>1. names \in Seq(Nat \X Seq(Character)) /\ Widths(names, w)
    BY DEF GoodTables, Layout
  <1>2. /\ \A r \in 0..Len(names) : w[r] \in Nat
        /\ \A r \in 1..Len(names) :
              /\ w[r] = w[r - 1] + Len(names[r][2]) + 2
              /\ Len(names[r][2]) \in Nat
        /\ \A r, s \in 0..Len(names) : r <= s => w[r] <= w[s]
    BY <1>1, WidthsGrow
  <1>3. Len(names) \in Nat /\ Len(code) \in Nat
    BY BeforeFacts
  <1>4. Len(names) \in 0..Len(names) /\ \A r \in 0..Len(names) : r <= Len(names)
    BY <1>3
  <1>5. \A r \in 0..Len(names) : w[r] \in Nat /\ w[r] <= w[Len(names)]
    BY <1>2, <1>4
  <1>6. \A r \in 1..Len(names) :
              /\ names[r] = <<names[r][1], names[r][2]>>
              /\ names[r][2] \in Seq(Character)
    BY <1>1, NamesTyped
  <1>7. \A r \in 1..Len(names) : names[r][1] \in 1..(Len(code) + 1)
    BY DEF GoodTables
  <1>8. w[0] = 0
    BY <1>1 DEF Widths
  <1>9. Len(text) = Len(code) + w[Len(names)] + 1
    BY DEF Layout
  <1>10. Len(text) \in Nat
    <2>1. w[Len(names)] \in Nat
      BY <1>4, <1>5
    <2> HIDE DEF Layout
    <2>2. QED
      BY <1>3, <1>9, <2>1
  <1>11. QED
    BY <1>2, <1>3, <1>5, <1>6, <1>7, <1>8, <1>9, <1>10

(* A printed text is read from its first character.                        *)
LEMMA ReadFirst ==
    ASSUME NEW code, NEW names, GoodTables(code, names)
    PROVE  \E w : ReadBack(PrintOf(code, names), 1, << >>, << >>, code, names, w)
  <1>1. PICK w : Layout(PrintOf(code, names), code, names, w)
    BY PrintPlaces
  <1> DEFINE text == PrintOf(code, names)
  <1>2. /\ Len(code) \in Nat /\ Len(names) \in Nat /\ w[0] = 0
        /\ \A r \in 1..Len(names) : names[r][1] \in 1..(Len(code) + 1)
    BY <1>1, LayoutFacts
  <1>3. << >> \in Seq(Instruction) /\ << >> \in Seq(Nat \X Seq(Character)) /\ Len(<< >>) = 0
    OBVIOUS
  <1>4. Prefix(<< >>, code) /\ Prefix(<< >>, names)
    BY <1>2, <1>3 DEF Prefix
  <1>5. \A r \in 1..Len(names) : ~(r <= 0) /\ 0 + 1 <= names[r][1]
    BY <1>2
  <1>6. 1 = 0 + w[0] + 1
    BY <1>2
  <1> HIDE DEF text
  <1>7. ReadBack(text, 1, << >>, << >>, code, names, w)
    BY <1>1, <1>3, <1>4, <1>5, <1>6 DEF ReadBack, text
  <1>8. QED
    BY <1>7 DEF text

(* A printed text has been read when its end is reached.                   *)
LEMMA ReadLast ==
    ASSUME NEW ops_all, NEW labels_all, GoodTables(ops_all, labels_all),
           NEW text, NEW at, NEW code, NEW names, NEW w,
           ReadBack(text, at, code, names, ops_all, labels_all, w),
           at > Len(text)
    PROVE  code = ops_all /\ names = labels_all
  <1>1. /\ Layout(text, ops_all, labels_all, w)
        /\ code \in Seq(Instruction) /\ Prefix(code, ops_all)
        /\ names \in Seq(Nat \X Seq(Character)) /\ Prefix(names, labels_all)
    BY DEF ReadBack
  <1>2. /\ Len(text) \in Nat /\ Len(ops_all) \in Nat /\ Len(labels_all) \in Nat
        /\ Len(text) = Len(ops_all) + w[Len(labels_all)] + 1
        /\ \A r \in 0..Len(labels_all) : w[r] \in Nat /\ w[r] <= w[Len(labels_all)]
    BY <1>1, LayoutFacts
  <1>3. Len(code) \in Nat /\ Len(names) \in Nat
    BY <1>1
  <1>4. Len(code) <= Len(ops_all) /\ Len(names) <= Len(labels_all)
    BY <1>1 DEF Prefix
  <1>5. w[Len(names)] \in Nat /\ w[Len(names)] <= w[Len(labels_all)]
        /\ w[Len(labels_all)] \in Nat
    BY <1>2, <1>3, <1>4
  <1>6. Len(code) = Len(ops_all) /\ Len(names) = Len(labels_all)
    <2>1. CASE at = Len(text) + 1 /\ Len(code) = Len(ops_all) /\ Len(names) = Len(labels_all)
      BY <2>1
    <2>2. CASE at = Len(code) + w[Len(names)] + 1
      <3>1. FALSE
        <4>1. Len(code) + w[Len(names)] + 1 > Len(ops_all) + w[Len(labels_all)] + 1
          BY <1>2, <2>2
        <4>2. QED
          BY ONLY <1>2, <1>3, <1>4, <1>5, <4>1, ReadSum
      <3>2. QED
        BY <3>1
    <2>3. QED
      BY <2>1, <2>2 DEF ReadBack
  <1>7. code = ops_all
    <2>1. ops_all \in Seq(Instruction)
      BY DEF GoodTables
    <2>2. \A k \in 1..Len(code) : code[k] = ops_all[k]
      BY <1>1 DEF Prefix
    <2>3. QED
      BY <1>1, <1>6, <2>1, <2>2
  <1>8. names = labels_all
    <2>1. labels_all \in Seq(Nat \X Seq(Character))
      BY DEF GoodTables
    <2>2. \A k \in 1..Len(names) : names[k] = labels_all[k]
      BY <1>1 DEF Prefix
    <2>3. QED
      BY ONLY <1>1, <1>6, <2>1, <2>2, SeqSame
  <1>9. QED
    BY <1>7, <1>8

LEMMA PrefixAppend ==
    ASSUME NEW S, NEW part \in Seq(S), NEW all \in Seq(S), Prefix(part, all),
           Len(part) < Len(all), NEW x \in S, x = all[Len(part) + 1]
    PROVE  Append(part, x) \in Seq(S) /\ Prefix(Append(part, x), all)
           /\ Len(Append(part, x)) = Len(part) + 1
  BY DEF Prefix

LEMMA PartOf ==
    ASSUME NEW S, NEW text \in Seq(S), NEW at \in Nat, NEW size \in Nat,
           at + size <= Len(text)
    PROVE  /\ SubSeq(text, at + 1, at + size) \in Seq(S)
           /\ Len(SubSeq(text, at + 1, at + size)) = size
           /\ \A k \in 1..size : SubSeq(text, at + 1, at + size)[k] = text[at + k]
  OBVIOUS

(* The next label, if there is one at this pointer.                        *)
LEMMA NextLabel ==
    ASSUME NEW ops_all, NEW labels_all, GoodTables(ops_all, labels_all),
           NEW text, NEW at, NEW code, NEW names, NEW w,
           ReadBack(text, at, code, names, ops_all, labels_all, w),
           at = Len(code) + w[Len(names)] + 1,
           Len(names) < Len(labels_all),
           labels_all[Len(names) + 1][1] = Len(code) + 1
    PROVE  /\ text[at] = Separator
           /\ \E name : /\ name = SubSeq(text, at + 1, NameEnd(text, at) - 1)
                        /\ ReadBack(text, NameEnd(text, at) + 1, code,
                                    Append(names, <<Len(code) + 1, name>>),
                                    ops_all, labels_all, w)
  <1> DEFINE next == Len(names) + 1
             name == labels_all[next][2]
             here == w[Len(names)]
             size == Len(name)
             length == Len(code)
  <1>1. /\ Layout(text, ops_all, labels_all, w)
        /\ code \in Seq(Instruction) /\ Prefix(code, ops_all)
        /\ names \in Seq(Nat \X Seq(Character)) /\ Prefix(names, labels_all)
        /\ labels_all \in Seq(Nat \X Seq(Character))
    BY DEF ReadBack, GoodTables
  <1>2. /\ Len(text) \in Nat /\ Len(ops_all) \in Nat /\ Len(labels_all) \in Nat
        /\ Len(text) = Len(ops_all) + w[Len(labels_all)] + 1
        /\ \A r \in 0..Len(labels_all) : w[r] \in Nat /\ w[r] <= w[Len(labels_all)]
        /\ \A r \in 1..Len(labels_all) :
              /\ labels_all[r] = <<labels_all[r][1], labels_all[r][2]>>
              /\ labels_all[r][1] \in 1..(Len(ops_all) + 1)
              /\ labels_all[r][2] \in Seq(Character) /\ Len(labels_all[r][2]) \in Nat
              /\ w[r] = w[r - 1] + Len(labels_all[r][2]) + 2
    BY SMTT(30), <1>1, LayoutFacts
  <1>3. Len(names) \in Nat /\ length \in Nat /\ length <= Len(ops_all)
    <2>1. \A S : \A q \in Seq(S) : Len(q) \in Nat
      OBVIOUS
    <2>2. Len(names) \in Nat /\ Len(code) \in Nat
      BY ONLY <1>1, <2>1
    <2>3. Len(code) <= Len(ops_all)
      BY <1>1 DEF Prefix
    <2>4. QED
      BY <2>2, <2>3
  <1>4. next \in 1..Len(labels_all) /\ next \in 0..Len(labels_all) /\ next - 1 = Len(names)
        /\ Len(names) \in 0..Len(labels_all) /\ next \in Nat
    BY <1>2, <1>3
  <1>5. /\ labels_all[next] = <<length + 1, name>>
        /\ name \in Seq(Character) /\ size \in Nat
        /\ w[next] = here + size + 2
        /\ here \in Nat /\ w[next] \in Nat /\ w[next] <= w[Len(labels_all)]
    BY <1>2, <1>4
  <1>6. \A k \in 1..(size + 2) : text[(labels_all[next][1] - 1) + w[next - 1] + k] = Quoted(name)[k]
    BY <1>1, <1>4 DEF Layout
  <1>7. \A k \in 1..size : name[k] # Separator
    BY <1>4 DEF GoodTables
  <1>8. /\ Quoted(name)[1] = Separator
        /\ \A k \in 1..size : Quoted(name)[k + 1] = name[k]
        /\ Quoted(name)[size + 2] = Separator
    BY <1>5, QuotedFacts
  <1> HIDE DEF next, name, here, size, length
  <1>9. \A k \in 1..(size + 2) : text[length + here + k] = Quoted(name)[k]
    <2>1. labels_all[next][1] - 1 = length
      BY <1>3, <1>5
    <2>2. w[next - 1] = here
      BY <1>4 DEF here
    <2>3. QED
      BY <1>6, <2>1, <2>2
  <1>10. at = length + here + 1
    BY DEF length, here
  <1> DEFINE far == w[next]
  <1>22. /\ at = length + here + 1 /\ far = here + size + 2
         /\ length \in Nat /\ here \in Nat /\ size \in Nat /\ far \in Nat /\ at \in Nat
    <2>1. size \in Nat /\ here \in Nat /\ length \in Nat
      BY ONLY <1>3, <1>5, Zenon
    <2>2. length + here + 1 \in Nat
      BY ONLY <2>1
    <2>3. far = here + size + 2 /\ far \in Nat
      BY ONLY <1>5, Zenon DEF far
    <2>4. QED
      BY <1>10, <2>1, <2>2, <2>3
  <1> HIDE DEF far
  <1>11. text[at] = Separator
    <2>1. 1 \in 1..(size + 2)
      BY <1>5
    <2>2. QED
      BY <1>8, <1>9, <1>10, <2>1
  <1>12. \A k \in 1..size : text[at + k] = name[k]
    <2>1. ASSUME NEW k \in 1..size PROVE text[at + k] = name[k]
      <3>1. k + 1 \in 1..(size + 2) /\ at + k = length + here + (k + 1)
        <4>1. k \in 1..size
          OBVIOUS
        <4>2. QED
          BY ONLY <1>22, <4>1
      <3>2. QED
        BY <1>8, <1>9, <3>1
    <2>2. QED
      BY <2>1
  <1>13. text[at + size + 1] = Separator
    <2>1. size + 2 \in 1..(size + 2) /\ at + size + 1 = length + here + (size + 2)
      BY ONLY <1>22
    <2>2. QED
      BY <1>8, <1>9, <2>1
  <1>14. at \in 1..Len(text) /\ at + size + 1 <= Len(text) /\ at \in Nat
    <2> DEFINE total == Len(text)
               full == Len(ops_all)
               wide == w[Len(labels_all)]
    <2>1. total = full + wide + 1 /\ full \in Nat /\ wide \in Nat /\ total \in Nat
          /\ far <= wide /\ length <= full
      <3>1. wide \in Nat
        BY <1>2, <1>4
      <3>2. far <= wide
        BY <1>5 DEF far
      <3>3. QED
        BY <1>2, <1>3, <3>1, <3>2
    <2> HIDE DEF total, full, wide
    <2>2. at \in 1..total /\ at + size + 1 <= total /\ at \in Nat
      BY ONLY <1>22, <2>1
    <2>3. QED
      BY <2>2 DEF total
  <1>15. NameEnd(text, at) = at + size + 1
    <2> DEFINE last == NameEnd(text, at)
               stop == at + size + 1
    <2>1. text \in Seq(Character)
      BY <1>1 DEF Layout
    <2>2. /\ last \in (at + 1)..(Len(text) + 1)
          /\ \A j \in (at + 1)..(last - 1) : text[j] # Separator
          /\ last <= Len(text) => text[last] = Separator
      BY <1>14, <2>1, NameEndFacts
    <2>3. stop \in Nat /\ stop <= Len(text) /\ at + 1 <= stop /\ text[stop] = Separator
      <3>1. at + size + 1 \in Nat /\ at + 1 <= at + size + 1
        BY ONLY <1>22
      <3>2. QED
        BY <1>13, <1>14, <3>1
    <2>4. \A j \in (at + 1)..(stop - 1) : text[j] # Separator
      <3> SUFFICES ASSUME NEW j \in (at + 1)..(stop - 1) PROVE text[j] # Separator
        OBVIOUS
      <3>1. j - at \in 1..size /\ at + (j - at) = j
        <4>1. j \in (at + 1)..((at + size + 1) - 1)
          OBVIOUS
        <4>2. QED
          BY ONLY <1>22, <4>1
      <3>2. QED
        BY <1>7, <1>12, <3>1
    <2> HIDE DEF last, stop
    <2>5. ~(stop < last)
      <3> SUFFICES ASSUME stop < last PROVE FALSE
        OBVIOUS
      <3>1. stop \in (at + 1)..(last - 1)
        BY <1>2, <1>14, <2>2, <2>3
      <3>2. QED
        BY <2>2, <2>3, <3>1
    <2>6. ~(last < stop)
      <3> SUFFICES ASSUME last < stop PROVE FALSE
        OBVIOUS
      <3>1. last \in (at + 1)..(stop - 1) /\ last <= Len(text)
        BY <1>2, <1>14, <2>2, <2>3
      <3>2. QED
        BY <2>2, <2>4, <3>1
    <2>7. last = stop
      BY <1>2, <1>14, <2>2, <2>3, <2>5, <2>6
    <2>8. QED
      BY <2>7 DEF last, stop
  <1>16. SubSeq(text, at + 1, NameEnd(text, at) - 1) = name
    <2> DEFINE part == SubSeq(text, at + 1, at + size)
    <2>1. NameEnd(text, at) - 1 = at + size
      <3>1. (at + size + 1) - 1 = at + size
        BY ONLY <1>22
      <3>2. QED
        BY <1>15, <3>1
    <2>2. text \in Seq(Character)
      BY <1>1 DEF Layout
    <2>3. at + size <= Len(text)
      <3> DEFINE total == Len(text)
      <3>1. total \in Nat /\ at + size + 1 <= total
        BY <1>2, <1>14
      <3> HIDE DEF total
      <3>2. at + size <= total
        BY ONLY <1>22, <3>1
      <3>3. QED
        BY <3>2 DEF total
    <2>5. /\ part \in Seq(Character) /\ Len(part) = size
          /\ \A k \in 1..size : part[k] = text[at + k]
      BY ONLY <1>22, <2>2, <2>3, PartOf
    <2> HIDE DEF part
    <2>7. \A k \in 1..size : part[k] = name[k]
      BY <1>12, <2>5
    <2>8. Len(name) = size
      BY DEF size
    <2>9. part = name
      BY <1>5, <2>5, <2>7, <2>8, SeqSame
    <2>10. QED
      BY <2>1, <2>9 DEF part
  <1> DEFINE more == Append(names, <<length + 1, name>>)
  <1>17. more \in Seq(Nat \X Seq(Character)) /\ Prefix(more, labels_all) /\ Len(more) = next
    <2>1. <<length + 1, name>> \in Nat \X Seq(Character)
      <3>1. length + 1 \in Nat /\ name \in Seq(Character)
        BY <1>5, <1>22
      <3>2. QED
        BY ONLY <3>1
    <2>2. <<length + 1, name>> = labels_all[Len(names) + 1]
      BY <1>5 DEF next
    <2>3. more \in Seq(Nat \X Seq(Character)) /\ Prefix(more, labels_all)
          /\ Len(more) = Len(names) + 1
      BY <1>1, <2>1, <2>2, PrefixAppend
    <2>4. QED
      BY <2>3 DEF next
  <1> HIDE DEF more
  <1>18. \A r \in 1..Len(labels_all) :
            IF r <= next THEN labels_all[r][1] <= length + 1
            ELSE length + 1 <= labels_all[r][1]
    <2> SUFFICES ASSUME NEW r \in 1..Len(labels_all)
                 PROVE  IF r <= next THEN labels_all[r][1] <= length + 1
                        ELSE length + 1 <= labels_all[r][1]
      OBVIOUS
    <2>1. IF r <= Len(names) THEN labels_all[r][1] <= length + 1
          ELSE length + 1 <= labels_all[r][1]
      BY DEF ReadBack, length
    <2>2. CASE r <= Len(names)
      BY <1>3, <2>1, <2>2 DEF next
    <2>3. CASE r = next
      <3>1. labels_all[next][1] = length + 1
        BY <1>5
      <3>2. r <= next /\ length + 1 <= length + 1
        BY <1>3, <1>4, <2>3
      <3>3. QED
        BY <2>3, <3>1, <3>2
    <2>4. CASE ~(r <= Len(names)) /\ r # next
      <3>1. ~(r <= next)
        BY <1>3, <1>4, <2>4 DEF next
      <3>2. QED
        BY <2>1, <2>4, <3>1
    <2>5. QED
      BY <2>2, <2>3, <2>4
  <1>19. NameEnd(text, at) + 1 = length + w[next] + 1
    <2>2. (at + size + 1) + 1 = length + far + 1
      BY ONLY <1>22
    <2>3. QED
      BY <1>15, <2>2 DEF far
  <1>20. ReadBack(text, NameEnd(text, at) + 1, code, more, ops_all, labels_all, w)
    BY <1>1, <1>17, <1>18, <1>19 DEF ReadBack, length
  <1>21. QED
    BY <1>11, <1>16, <1>20 DEF more, length

LabelHere(code, names, labels_all) ==
    Len(names) < Len(labels_all) /\ labels_all[Len(names) + 1][1] = Len(code) + 1

(* Without a label here, the labels that were read are those before the    *)
(* next pointer.                                                           *)
LEMMA NoLabelHere ==
    ASSUME NEW ops_all, NEW labels_all, GoodTables(ops_all, labels_all),
           NEW text, NEW at, NEW code, NEW names, NEW w,
           ReadBack(text, at, code, names, ops_all, labels_all, w),
           ~LabelHere(code, names, labels_all)
    PROVE  /\ Before(labels_all, Len(code) + 2) = Len(names)
           /\ \A r \in 1..Len(labels_all) :
                 IF r <= Len(names) THEN labels_all[r][1] <= Len(code) + 1
                 ELSE Len(code) + 2 <= labels_all[r][1]
  <1> DEFINE length == Len(code)
             read == Len(names)
             total == Len(labels_all)
             place(r) == labels_all[r][1]
             before == Before(labels_all, length + 2)
  <1>1. length \in Nat /\ read \in Nat /\ read <= total
    <2>1. \A S : \A q \in Seq(S) : Len(q) \in Nat
      OBVIOUS
    <2>2. QED
      BY <2>1 DEF ReadBack, Prefix
  <1>2. /\ total \in Nat
        /\ \A p \in Nat : Before(labels_all, p) \in 0..total
        /\ \A p \in Nat : \A r \in 1..total : place(r) < p <=> r <= Before(labels_all, p)
    BY BeforeFacts
  <1>3. \A r \in 1..total : place(r) \in Nat
    BY DEF GoodTables
  <1>4. \A r \in 1..total :
           IF r <= read THEN place(r) <= length + 1 ELSE length + 1 <= place(r)
    BY DEF ReadBack
  <1>5. \A r, s \in 1..total : r <= s => place(r) <= place(s)
    BY DEF GoodTables
  <1>6. read < total => place(read + 1) # length + 1
    BY DEF LabelHere
  <1> HIDE DEF length, read, total, place, before
  <1>7. \A r \in 1..total :
           IF r <= read THEN place(r) <= length + 1 ELSE length + 2 <= place(r)
    <2> SUFFICES ASSUME NEW r \in 1..total, ~(r <= read) PROVE length + 2 <= place(r)
      BY <1>4
    <2>1. read + 1 \in 1..total /\ read + 1 <= r /\ read < total /\ ~(read + 1 <= read)
      BY <1>1, <1>2
    <2>2. length + 1 <= place(read + 1) /\ place(read + 1) # length + 1
          /\ place(read + 1) <= place(r)
      BY <1>4, <1>5, <1>6, <2>1
    <2>3. place(read + 1) \in Nat /\ place(r) \in Nat
      BY <1>3, <2>1
    <2>4. QED
      BY <1>1, <2>2, <2>3
  <1>8. length + 2 \in Nat
    BY <1>1
  <1>9. before \in 0..total /\ \A r \in 1..total : place(r) < length + 2 <=> r <= before
    BY <1>2, <1>8 DEF before
  <1>10. \A r \in 1..total : place(r) < length + 2 <=> r <= read
    <2> SUFFICES ASSUME NEW r \in 1..total PROVE place(r) < length + 2 <=> r <= read
      OBVIOUS
    <2>1. place(r) \in Nat
      BY <1>3
    <2>2. IF r <= read THEN place(r) <= length + 1 ELSE length + 2 <= place(r)
      BY <1>7
    <2>3. QED
      BY <1>1, <2>1, <2>2
  <1>11. before = read
    <2>1. \A r \in 1..total : r <= before <=> r <= read
      BY <1>9, <1>10
    <2>2. before < read => read \in 1..total /\ ~(read <= before)
      BY <1>1, <1>2, <1>9
    <2>3. read < before => before \in 1..total /\ ~(before <= read)
      BY <1>1, <1>2, <1>9
    <2>4. read <= read /\ before <= before
      BY <1>1, <1>9
    <2>5. ~(before < read) /\ ~(read < before)
      BY <2>1, <2>2, <2>3, <2>4
    <2>6. QED
      BY <1>1, <1>9, <2>5
  <1>12. QED
    BY <1>7, <1>11 DEF length, read, total, place, before

(* The next instruction, if no label comes first.                          *)
LEMMA NextInstruction ==
    ASSUME NEW ops_all, NEW labels_all, GoodTables(ops_all, labels_all),
           NEW text, NEW at, NEW code, NEW names, NEW w,
           ReadBack(text, at, code, names, ops_all, labels_all, w),
           at = Len(code) + w[Len(names)] + 1,
           ~LabelHere(code, names, labels_all),
           Len(code) < Len(ops_all)
    PROVE  /\ text[at] \in Instruction
           /\ ReadBack(text, at + 1, Append(code, text[at]), names, ops_all, labels_all, w)
  <1> DEFINE length == Len(code)
             wide == w[Len(names)]
             more == Append(code, text[at])
  <1>1. /\ Layout(text, ops_all, labels_all, w)
        /\ code \in Seq(Instruction) /\ Prefix(code, ops_all)
        /\ names \in Seq(Nat \X Seq(Character)) /\ Prefix(names, labels_all)
        /\ ops_all \in Seq(Instruction)
    BY DEF ReadBack, GoodTables
  <1>2. length \in Nat /\ Len(names) \in Nat /\ Len(ops_all) \in Nat /\ Len(labels_all) \in Nat
        /\ Len(names) <= Len(labels_all)
    <2>1. \A S : \A q \in Seq(S) : Len(q) \in Nat
      OBVIOUS
    <2>2. length \in Nat /\ Len(names) \in Nat
      BY ONLY <1>1, <2>1
    <2>3. Len(names) <= Len(labels_all)
      BY <1>1 DEF Prefix
    <2>4. QED
      BY <2>2, <2>3, BeforeFacts
  <1>3. wide \in Nat
    <2>1. \A r \in 0..Len(labels_all) : w[r] \in Nat
      BY <1>1, LayoutFacts
    <2>2. QED
      BY <1>2, <2>1
  <1>4. /\ Before(labels_all, length + 2) = Len(names)
        /\ \A r \in 1..Len(labels_all) :
              IF r <= Len(names) THEN labels_all[r][1] <= length + 1
              ELSE length + 2 <= labels_all[r][1]
    BY NoLabelHere
  <1>5. \A p \in 1..Len(ops_all) : text[p + w[Before(labels_all, p + 1)]] = ops_all[p]
    BY <1>1 DEF Layout
  <1>6. length < Len(ops_all) /\ at = length + wide + 1
    OBVIOUS
  <1> HIDE DEF length, wide, more
  <1>7. length + 1 \in 1..Len(ops_all) /\ (length + 1) + 1 = length + 2
        /\ at = (length + 1) + wide /\ at + 1 = (length + 1) + wide + 1
        /\ (length + 1) + 1 = length + 2
    BY ONLY <1>2, <1>3, <1>6
  <1>8. text[at] = ops_all[length + 1]
    <2>1. text[(length + 1) + w[Before(labels_all, (length + 1) + 1)]] = ops_all[length + 1]
      BY <1>5, <1>7
    <2>2. w[Before(labels_all, (length + 1) + 1)] = wide
      BY <1>4, <1>7 DEF wide
    <2>3. QED
      BY <1>7, <2>1, <2>2
  <1>9. text[at] \in Instruction
    BY <1>1, <1>7, <1>8
  <1>10. more \in Seq(Instruction) /\ Prefix(more, ops_all) /\ Len(more) = length + 1
    BY ONLY <1>1, <1>6, <1>8, <1>9, PrefixAppend DEF more, length
  <1>11. \A r \in 1..Len(labels_all) :
            IF r <= Len(names) THEN labels_all[r][1] <= (length + 1) + 1
            ELSE (length + 1) + 1 <= labels_all[r][1]
    <2> SUFFICES ASSUME NEW r \in 1..Len(labels_all), r <= Len(names)
                 PROVE  labels_all[r][1] <= (length + 1) + 1
      BY <1>4, <1>7
    <2>1. labels_all[r][1] <= length + 1 /\ labels_all[r][1] \in Nat
      <3>1. labels_all[r][1] \in 1..(Len(ops_all) + 1)
        BY DEF GoodTables
      <3>2. labels_all[r][1] \in Nat
        BY <1>2, <3>1
      <3>3. QED
        BY <1>4, <3>2
    <2> DEFINE place == labels_all[r][1]
    <2> HIDE DEF place
    <2>2. place <= (length + 1) + 1
      <3>1. place <= length + 1 /\ place \in Nat
        BY <2>1 DEF place
      <3>2. QED
        BY ONLY <1>2, <3>1
    <2>3. QED
      BY <2>2 DEF place
  <1>12. ReadBack(text, at + 1, more, names, ops_all, labels_all, w)
    <2>1. at + 1 = Len(more) + w[Len(names)] + 1
      BY <1>7, <1>10 DEF wide
    <2>2. \A r \in 1..Len(labels_all) :
            IF r <= Len(names) THEN labels_all[r][1] <= Len(more) + 1
            ELSE Len(more) + 1 <= labels_all[r][1]
      BY <1>10, <1>11
    <2>3. QED
      BY <1>1, <1>10, <2>1, <2>2 DEF ReadBack
  <1>13. QED
    BY <1>9, <1>12 DEF more

(* The newline, when there is nothing else left.                           *)
LEMMA NextNewline ==
    ASSUME NEW ops_all, NEW labels_all, GoodTables(ops_all, labels_all),
           NEW text, NEW at, NEW code, NEW names, NEW w,
           ReadBack(text, at, code, names, ops_all, labels_all, w),
           at = Len(code) + w[Len(names)] + 1,
           ~LabelHere(code, names, labels_all),
           ~(Len(code) < Len(ops_all))
    PROVE  /\ text[at] = "newline"
           /\ ReadBack(text, at + 1, code, names, ops_all, labels_all, w)
  <1>1. /\ Layout(text, ops_all, labels_all, w)
        /\ code \in Seq(Instruction) /\ Prefix(code, ops_all)
    BY DEF ReadBack
  <1>2. Len(code) = Len(ops_all)
    <2>1. Len(code) \in Nat /\ Len(ops_all) \in Nat /\ Len(code) <= Len(ops_all)
      <3>1. Len(code) \in Nat
        BY <1>1
      <3>2. Len(code) <= Len(ops_all)
        BY <1>1 DEF Prefix
      <3>3. QED
        BY <3>1, <3>2, BeforeFacts
    <2> DEFINE a == Len(code)
               b == Len(ops_all)
    <2>2. a \in Nat /\ b \in Nat /\ a <= b /\ ~(a < b)
      BY <2>1
    <2> HIDE DEF a, b
    <2>3. a = b
      BY ONLY <2>2
    <2>4. QED
      BY <2>3 DEF a, b
  <1>3. Len(names) = Len(labels_all)
    <2>1. Before(labels_all, Len(ops_all) + 2) = Len(labels_all)
      BY BeforeFacts
    <2>2. Before(labels_all, Len(code) + 2) = Len(names)
      BY NoLabelHere
    <2>3. QED
      BY <1>2, <2>1, <2>2
  <1>4. at = Len(text) /\ text[Len(text)] = "newline"
    BY <1>1, <1>2, <1>3 DEF Layout
  <1>5. ReadBack(text, at + 1, code, names, ops_all, labels_all, w)
    BY <1>2, <1>3, <1>4 DEF ReadBack
  <1>6. QED
    BY <1>4, <1>5

(* What the character that is read is, in terms of the tables.             *)
LEMMA ReadSeparator ==
    ASSUME NEW ops_all, NEW labels_all, GoodTables(ops_all, labels_all),
           NEW text, NEW at, NEW code, NEW names, NEW w,
           ReadBack(text, at, code, names, ops_all, labels_all, w),
           at \in 1..Len(text), text[at] = Separator
    PROVE  LET name == SubSeq(text, at + 1, NameEnd(text, at) - 1)
           IN  ReadBack(text, NameEnd(text, at) + 1, code,
                        Append(names, <<Len(code) + 1, name>>), ops_all, labels_all, w)
  <1>1. at = Len(code) + w[Len(names)] + 1
    <2>1. Len(text) \in Nat
      <3>1. text \in Seq(Character)
        BY DEF ReadBack, Layout
      <3>2. QED
        BY <3>1
    <2>2. at # Len(text) + 1
      BY <2>1
    <2>3. QED
      BY <2>2 DEF ReadBack
  <1>2. "newline" # Separator /\ Separator \notin Instruction
    BY NotSeparator DEF Separator
  <1>3. LabelHere(code, names, labels_all)
    <2> SUFFICES ASSUME ~LabelHere(code, names, labels_all) PROVE FALSE
      OBVIOUS
    <2>1. CASE Len(code) < Len(ops_all)
      BY <1>1, <1>2, <2>1, NextInstruction
    <2>2. CASE ~(Len(code) < Len(ops_all))
      BY <1>1, <1>2, <2>2, NextNewline
    <2>3. QED
      BY <2>1, <2>2
  <1>4. Len(names) < Len(labels_all) /\ labels_all[Len(names) + 1][1] = Len(code) + 1
    BY <1>3 DEF LabelHere
  <1>5. \E name : /\ name = SubSeq(text, at + 1, NameEnd(text, at) - 1)
                  /\ ReadBack(text, NameEnd(text, at) + 1, code,
                              Append(names, <<Len(code) + 1, name>>),
                              ops_all, labels_all, w)
    BY <1>1, <1>4, NextLabel
  <1>6. QED
    BY <1>5

LEMMA ReadInstruction ==
    ASSUME NEW ops_all, NEW labels_all, GoodTables(ops_all, labels_all),
           NEW text, NEW at, NEW code, NEW names, NEW w,
           ReadBack(text, at, code, names, ops_all, labels_all, w),
           at \in 1..Len(text), text[at] \in Instruction
    PROVE  ReadBack(text, at + 1, Append(code, text[at]), names, ops_all, labels_all, w)
  <1>1. at = Len(code) + w[Len(names)] + 1
    <2>1. Len(text) \in Nat
      <3>1. text \in Seq(Character)
        BY DEF ReadBack, Layout
      <3>2. QED
        BY <3>1
    <2>2. at # Len(text) + 1
      BY <2>1
    <2>3. QED
      BY <2>2 DEF ReadBack
  <1>2. "newline" \notin Instruction /\ Separator \notin Instruction
    BY NotSeparator DEF Instruction
  <1>3. ~LabelHere(code, names, labels_all)
    <2> SUFFICES ASSUME LabelHere(code, names, labels_all) PROVE FALSE
      OBVIOUS
    <2>1. Len(names) < Len(labels_all) /\ labels_all[Len(names) + 1][1] = Len(code) + 1
      BY DEF LabelHere
    <2>2. text[at] = Separator
      <3> SUFFICES ASSUME text[at] # Separator PROVE FALSE
        OBVIOUS
      <3>1. QED
        BY <1>1, <2>1, NextLabel
    <2>3. QED
      BY <1>2, <2>2
  <1>4. Len(code) < Len(ops_all)
    BY <1>1, <1>2, <1>3, NextNewline
  <1>5. QED
    BY <1>1, <1>3, <1>4, NextInstruction

LEMMA ReadComment ==
    ASSUME NEW ops_all, NEW labels_all, GoodTables(ops_all, labels_all),
           NEW text, NEW at, NEW code, NEW names, NEW w,
           ReadBack(text, at, code, names, ops_all, labels_all, w),
           at \in 1..Len(text), text[at] \notin Instruction \cup {Separator}
    PROVE  ReadBack(text, at + 1, code, names, ops_all, labels_all, w)
  <1>1. at = Len(code) + w[Len(names)] + 1
    <2>1. Len(text) \in Nat
      <3>1. text \in Seq(Character)
        BY DEF ReadBack, Layout
      <3>2. QED
        BY <3>1
    <2>2. at # Len(text) + 1
      BY <2>1
    <2>3. QED
      BY <2>2 DEF ReadBack
  <1>2. ~LabelHere(code, names, labels_all)
    BY <1>1, NextLabel DEF LabelHere
  <1>3. ~(Len(code) < Len(ops_all))
    BY <1>1, <1>2, NextInstruction
  <1>4. QED
    BY <1>1, <1>2, <1>3, NextNewline

-----------------------------------------------------------------------------
(* print() of the parser is PrintOf.                                       *)
LEMMA PrintTables ==
    ASSUME NEW without_label \in BOOLEAN
    PROVE  print(without_label) = PrintOf(ops, IF without_label THEN << >> ELSE labels)
  <1> DEFINE piece(p) == (IF without_label THEN << >> ELSE LabelText(p))
                             \o (IF p \in DOMAIN ops THEN <<ops[p]>> ELSE << >>)
  <1>1. CASE without_label = FALSE
    <2>1. \A p : LabelsBefore(p) = Before(labels, p)
      BY DEF LabelsBefore, Before
    <2>2. \A p : LabelsAt(p) = NamesAt(labels, p)
      BY <2>1 DEF LabelsAt, NamesAt
    <2>3. \A p : LabelText(p) = NamesText(labels, p)
      BY <2>2 DEF LabelText, NamesText, Quoted
    <2>4. \A p : piece(p) = Piece(ops, labels, p)
      BY <1>1, <2>3 DEF Piece
    <2> HIDE DEF piece
    <2>5. [p \in 1..(Len(ops) + 1) |-> piece(p)]
            = [p \in 1..(Len(ops) + 1) |-> Piece(ops, labels, p)]
      BY <2>4
    <2>6. QED
      BY <1>1, <2>5 DEF print, PrintOf, piece
  <1>2. CASE without_label = TRUE
    <2>1. \A p : NamesAt(<< >>, p) = << >>
      <3> SUFFICES ASSUME NEW p PROVE NamesAt(<< >>, p) = << >>
        OBVIOUS
      <3>1. \A x : Before(<< >>, x) = 0
        <4> SUFFICES ASSUME NEW x PROVE Before(<< >>, x) = 0
          OBVIOUS
        <4>1. {k \in DOMAIN << >> : << >>[k][1] < x} = {}
          OBVIOUS
        <4>2. QED
          BY <4>1, FS_EmptySet DEF Before
      <3>2. SubSeq(<< >>, 0 + 1, 0) = << >>
        OBVIOUS
      <3>3. QED
        BY <3>1, <3>2 DEF NamesAt
    <2>2. \A p : NamesText(<< >>, p) = << >>
      <3> SUFFICES ASSUME NEW p PROVE NamesText(<< >>, p) = << >>
        OBVIOUS
      <3>1. [k \in DOMAIN << >> |-> Quoted(<< >>[k][2])] = << >>
        OBVIOUS
      <3>2. FlattenSeq(<< >>) = << >>
        <4>1. << >> \in Seq(Seq(Character)) /\ Len(<< >>) = 0
          OBVIOUS
        <4>2. /\ FlattenSeq(<< >>) \in Seq(Character)
              /\ Len(FlattenSeq(<< >>)) = 0
          BY <4>1, FlattenPlaces
        <4>3. QED
          BY <4>2
      <3>3. QED
        BY <2>1, <3>1, <3>2 DEF NamesText
    <2>3. \A p : piece(p) = Piece(ops, << >>, p)
      BY <1>2, <2>2 DEF Piece
    <2> HIDE DEF piece
    <2>4. [p \in 1..(Len(ops) + 1) |-> piece(p)]
            = [p \in 1..(Len(ops) + 1) |-> Piece(ops, << >>, p)]
      BY <2>3
    <2>5. QED
      BY <1>2, <2>4 DEF print, PrintOf, piece
  <1>3. QED
    BY <1>1, <1>2

-----------------------------------------------------------------------------
(* The parser's tables are tables of a source.                             *)
LEMMA GoodAppend ==
    ASSUME NEW code, NEW names, GoodTables(code, names), NEW x \in Instruction
    PROVE  GoodTables(Append(code, x), names)
  <1> DEFINE more == Append(code, x)
  <1>1. /\ code \in Seq(Instruction) /\ names \in Seq(Nat \X Seq(Character))
        /\ \A r \in 1..Len(names) :
              /\ names[r][1] \in 1..(Len(code) + 1)
              /\ \A k \in 1..Len(names[r][2]) : names[r][2][k] # Separator
        /\ \A r, s \in 1..Len(names) : r <= s => names[r][1] <= names[s][1]
    BY DEF GoodTables
  <1>2. more \in Seq(Instruction) /\ Len(more) = Len(code) + 1 /\ Len(code) \in Nat
    <2>1. more \in Seq(Instruction) /\ Len(more) = Len(code) + 1
      BY <1>1
    <2>2. Len(code) \in Nat
      BY <1>1
    <2>3. QED
      BY <2>1, <2>2
  <1> HIDE DEF more
  <1>3. 1..(Len(code) + 1) \subseteq 1..(Len(more) + 1)
    BY ONLY <1>2
  <1>4. \A r \in 1..Len(names) : names[r][1] \in 1..(Len(more) + 1)
    BY <1>1, <1>3
  <1>5. GoodTables(more, names)
    BY <1>1, <1>2, <1>4 DEF GoodTables
  <1>6. QED
    BY <1>5 DEF more

LEMMA GoodLabel ==
    ASSUME NEW code, NEW names, GoodTables(code, names),
           NEW name \in Seq(Character),
           \A k \in 1..Len(name) : name[k] # Separator
    PROVE  GoodTables(code, Append(names, <<Len(code) + 1, name>>))
  <1> DEFINE entry == <<Len(code) + 1, name>>
             more == Append(names, entry)
             place(r) == more[r][1]
  <1>1. /\ code \in Seq(Instruction) /\ names \in Seq(Nat \X Seq(Character))
        /\ \A r \in 1..Len(names) :
              /\ names[r][1] \in 1..(Len(code) + 1)
              /\ \A k \in 1..Len(names[r][2]) : names[r][2][k] # Separator
        /\ \A r, s \in 1..Len(names) : r <= s => names[r][1] <= names[s][1]
    BY DEF GoodTables
  <1>2. Len(code) \in Nat /\ Len(names) \in Nat
    BY BeforeFacts
  <1>3. entry \in Nat \X Seq(Character) /\ entry[1] = Len(code) + 1 /\ entry[2] = name
    <2>1. Len(code) + 1 \in Nat
      BY <1>2
    <2>2. QED
      BY ONLY <2>1, name \in Seq(Character)
  <1> HIDE DEF entry
  <1>4. /\ more \in Seq(Nat \X Seq(Character)) /\ Len(more) = Len(names) + 1
        /\ \A r \in 1..Len(names) : more[r] = names[r]
        /\ more[Len(names) + 1] = entry
    <2>1. \A S : \A q \in Seq(S) : \A x \in S :
             /\ Append(q, x) \in Seq(S) /\ Len(Append(q, x)) = Len(q) + 1
             /\ \A r \in 1..Len(q) : Append(q, x)[r] = q[r]
             /\ Append(q, x)[Len(q) + 1] = x
      OBVIOUS
    <2>2. QED
      BY ONLY <1>1, <1>3, <2>1
  <1> HIDE DEF more
  <1>5. \A r \in 1..Len(more) : r \in 1..Len(names) \/ r = Len(names) + 1
    BY <1>2, <1>4
  <1>6. \A r \in 1..Len(more) :
              /\ place(r) \in 1..(Len(code) + 1)
              /\ \A k \in 1..Len(more[r][2]) : more[r][2][k] # Separator
    <2> SUFFICES ASSUME NEW r \in 1..Len(more)
                 PROVE  /\ place(r) \in 1..(Len(code) + 1)
                        /\ \A k \in 1..Len(more[r][2]) : more[r][2][k] # Separator
      OBVIOUS
    <2>1. CASE r \in 1..Len(names)
      BY <1>1, <1>4, <2>1
    <2>2. CASE r = Len(names) + 1
      <3>1. Len(code) + 1 \in 1..(Len(code) + 1)
        BY <1>2
      <3>2. more[r] = entry
        BY ONLY <1>4, <2>2, Zenon
      <3>3. place(r) \in 1..(Len(code) + 1)
        BY <1>3, <3>1, <3>2
      <3>4. more[r][2] = name
        BY <1>3, <3>2
      <3>5. QED
        BY <3>3, <3>4
    <2>3. QED
      BY <1>5, <2>1, <2>2
  <1>7. \A r, s \in 1..Len(more) : r <= s => place(r) <= place(s)
    <2> SUFFICES ASSUME NEW r \in 1..Len(more), NEW s \in 1..Len(more), r <= s
                 PROVE  place(r) <= place(s)
      OBVIOUS
    <2>1. CASE s = Len(names) + 1
      <3>1. place(s) = Len(code) + 1
        <4>1. more[s] = entry
          BY ONLY <1>4, <2>1, Zenon
        <4>2. QED
          BY <1>3, <4>1
      <3>2. place(r) \in 1..(Len(code) + 1)
        BY <1>6
      <3> HIDE DEF place
      <3>3. QED
        BY <1>2, <3>1, <3>2
    <2>2. CASE s \in 1..Len(names)
      <3>1. r \in 1..Len(names)
        BY <1>2, <1>4, <2>2
      <3>2. names[r][1] <= names[s][1]
        BY <1>1, <2>2, <3>1
      <3>3. QED
        BY <1>4, <2>2, <3>1, <3>2
    <2>3. QED
      BY <1>5, <2>1, <2>2
  <1>8. GoodTables(code, more)
    BY <1>1, <1>4, <1>6, <1>7 DEF GoodTables
  <1>9. QED
    BY <1>8 DEF more, entry

LEMMA GoodEmpty ==
    ASSUME NEW code \in Seq(Instruction)
    PROVE  GoodTables(code, << >>)
  <1>1. Len(<< >>) = 0 /\ << >> \in Seq(Nat \X Seq(Character))
    OBVIOUS
  <1>2. \A r \in 1..0 : FALSE
    OBVIOUS
  <1>3. QED
    BY <1>1, <1>2 DEF GoodTables

Printable == GoodTables(ops, labels)

LEMMA PrintableNext ==
    ASSUME ScanInv, Printable, [ParseNext]_scan
    PROVE  Printable'
  <1>1. GoodTables(ops, labels) /\ source \in Seq(Character) /\ i \in Nat \ {0}
    BY DEF Printable, ScanInv, Scanned
  <1>2. "fwd" \in Instruction /\ "bwd" \in Instruction
    BY DEF Instruction
  <1>3. CASE PushPlain
    <2>1. source[i] \in Instruction
      BY <1>3 DEF PushPlain, Reads
    <2>2. GoodTables(Append(ops, source[i]), labels)
      BY <1>1, <2>1, GoodAppend
    <2>3. QED
      BY <1>3, <2>2 DEF PushPlain, Printable
  <1>4. CASE PushOpen
    <2>1. GoodTables(Append(ops, "fwd"), labels)
      BY <1>1, <1>2, GoodAppend
    <2>2. QED
      BY <1>4, <2>1 DEF PushOpen, Printable
  <1>5. CASE PushClose
    <2>1. GoodTables(Append(ops, "bwd"), labels)
      BY <1>1, <1>2, GoodAppend
    <2>2. QED
      BY <1>5, <2>1 DEF PushClose, Printable
  <1>6. CASE ReadLabel
    <2>1. i \in 1..Len(source)
      BY <1>1, <1>6 DEF ReadLabel, Reads
    <2> DEFINE name == SubSeq(source, i + 1, NameEnd(source, i) - 1)
    <2>2. name \in Seq(Character) /\ \A k \in 1..Len(name) : name[k] # Separator
      <3> DEFINE stop == NameEnd(source, i)
                 total == Len(source)
      <3>1. /\ stop \in (i + 1)..(Len(source) + 1)
            /\ \A j \in (i + 1)..(stop - 1) : source[j] # Separator
            /\ SubSeq(source, i + 1, stop - 1) \in Seq(Character)
        BY <1>1, <2>1, NameEndFacts
      <3>2. total \in Nat
        BY <1>1
      <3> HIDE DEF stop
      <3>3. stop \in (i + 1)..(total + 1)
        BY <3>1
      <3> HIDE DEF total
      <3>4. stop \in Nat /\ stop - i - 1 \in Nat /\ i + (stop - i - 1) = stop - 1
            /\ i + (stop - i - 1) <= total
            /\ \A k \in 1..(stop - i - 1) : i + k \in (i + 1)..(stop - 1)
        BY ONLY <1>1, <3>2, <3>3
      <3>5. /\ Len(SubSeq(source, i + 1, i + (stop - i - 1))) = stop - i - 1
            /\ \A k \in 1..(stop - i - 1) :
                  SubSeq(source, i + 1, i + (stop - i - 1))[k] = source[i + k]
        BY ONLY <1>1, <3>4, PartOf DEF total
      <3>6. QED
        BY <3>1, <3>4, <3>5 DEF stop
    <2> HIDE DEF name
    <2>3. GoodTables(ops, Append(labels, <<Len(ops) + 1, name>>))
      BY <1>1, <2>2, GoodLabel
    <2>4. LabelEnd = NameEnd(source, i)
      BY DEF LabelEnd, NameEnd
    <2>5. QED
      BY <1>6, <2>3, <2>4 DEF ReadLabel, Printable, pc, name
  <1>7. CASE ParsePrinted
    <2>1. GoodTables(<< >>, << >>)
      <3>1. << >> \in Seq(Instruction)
        OBVIOUS
      <3>2. QED
        BY <3>1, GoodEmpty
    <2>2. QED
      BY <1>7, <2>1 DEF ParsePrinted, Printable
  <1>8. CASE RejectClose \/ SkipComment \/ Finish \/ UNCHANGED scan
    BY <1>1, <1>8 DEF RejectClose, SkipComment, Finish, scan, Printable
  <1>9. QED
    BY <1>3, <1>4, <1>5, <1>6, <1>7, <1>8 DEF ParseNext

LEMMA PrintableAlways == ParseSpec => []Printable
  <1>1. ParseInit => Printable
    <2>1. << >> \in Seq(Instruction)
      OBVIOUS
    <2>2. QED
      BY <2>1, GoodEmpty DEF ParseInit, Printable
  <1>2. ScanInv /\ Printable /\ [ParseNext]_scan => Printable'
    BY PrintableNext
  <1>3. QED
    BY <1>1, <1>2, ScanAlways, PTL DEF ParseSpec

-----------------------------------------------------------------------------
(* The inductive invariant of reading a printed text: the tables that it   *)
(* was printed from are balanced and linked, and what has been read is the *)
(* first part of them.                                                     *)
PrintedFrom(tables) ==
    /\ tables = <<tables[1], tables[2], JumpTable(tables[1])>>
    /\ GoodTables(tables[1], tables[2])
    /\ Balanced(tables[1])

PrintInv ==
    printed # << >> =>
        /\ status # "unbalanced"
        /\ PrintedFrom(printed)
        /\ \E w : ReadBack(source, i, ops, labels, printed[1], printed[2], w)

(* What is read closes no bracket that is not open.                        *)
LEMMA NoReject ==
    ASSUME TablesInv, ScanInv, PrintInv, printed # << >>
    PROVE  ~RejectClose
  <1> SUFFICES ASSUME RejectClose PROVE FALSE
    OBVIOUS
  <1> DEFINE all == printed[1]
             more == Append(ops, "bwd")
  <1>1. /\ source[i] = "bwd" /\ i <= Len(source) /\ open_brackets = << >>
        /\ i \in Nat \ {0} /\ Len(source) \in Nat /\ ops \in Seq(Instruction)
    BY DEF RejectClose, Reads, ScanInv, Scanned
  <1>2. PICK w : ReadBack(source, i, ops, labels, printed[1], printed[2], w)
    BY DEF PrintInv
  <1>3. GoodTables(printed[1], printed[2]) /\ Balanced(all)
    BY DEF PrintInv, PrintedFrom
  <1>4. "bwd" \in Instruction
    BY DEF Instruction
  <1>5. ReadBack(source, i + 1, more, labels, printed[1], printed[2], w)
    <2>1. i \in 1..Len(source)
      BY <1>1
    <2>2. ReadBack(source, i + 1, Append(ops, source[i]), labels, printed[1], printed[2], w)
      BY <1>1, <1>2, <1>3, <1>4, <2>1, ReadInstruction
    <2>3. QED
      BY <1>1, <2>2
  <1>6. Prefix(more, all)
    BY <1>5 DEF ReadBack
  <1>7. /\ Len(more) = Len(ops) + 1 /\ Len(ops) \in Nat
        /\ Depth(more, Len(ops) + 1) = Depth(ops, Len(ops)) + (-1)
    BY <1>1, <1>4, DepthAppend
  <1>8. Depth(ops, Len(ops)) = 0
    BY <1>1 DEF TablesInv, StackOf
  <1> HIDE DEF more, all
  <1>9. Len(ops) + 1 \in 1..Len(all) /\ Len(ops) + 1 \in Nat /\ Len(all) \in Nat
        /\ Len(ops) + 1 \in 0..(Len(ops) + 1)
    <2>1. Len(all) \in Nat
      BY <1>3, BeforeFacts DEF all
    <2>2. QED
      BY <1>6, <1>7, <2>1 DEF Prefix
  <1>10. Depth(more, Len(ops) + 1) = Depth(all, Len(ops) + 1)
    <2>1. \A k \in 1..(Len(ops) + 1) : more[k] = all[k]
      BY <1>6, <1>7 DEF Prefix
    <2>2. QED
      BY <1>9, <2>1, DepthPrefix
  <1>11. Depth(all, Len(ops) + 1) >= 0
    BY <1>3, <1>9 DEF Balanced
  <1>12. QED
    BY <1>7, <1>8, <1>10, <1>11

LEMMA PrintNext ==
    ASSUME TablesInv, ScanInv, Printable, PrintInv, [ParseNext]_scan
    PROVE  PrintInv'
  <1>1. CASE ParsePrinted
    <2>1. PICK without_label \in BOOLEAN :
             /\ source' = print(without_label)
             /\ printed' = <<ops, IF without_label THEN << >> ELSE labels, jumps>>
      BY <1>1 DEF ParsePrinted
    <2> DEFINE names == IF without_label THEN << >> ELSE labels
    <2>2. Balanced(ops) /\ jumps = JumpTable(ops) /\ GoodTables(ops, labels)
      BY <1>1, TablesGiveLinks DEF ParsePrinted, Linked, Printable
    <2>3. GoodTables(ops, names)
      <3>1. ops \in Seq(Instruction)
        BY <2>2 DEF GoodTables
      <3>2. GoodTables(ops, << >>)
        BY <3>1, GoodEmpty
      <3>3. QED
        BY <2>2, <3>2
    <2>4. print(without_label) = PrintOf(ops, names)
      BY PrintTables
    <2>5. PICK w : ReadBack(PrintOf(ops, names), 1, << >>, << >>, ops, names, w)
      BY <2>3, ReadFirst
    <2> HIDE DEF names
    <2>6. printed' = <<ops, names, JumpTable(ops)>>
      BY <2>1, <2>2 DEF names
    <2>7. printed'[1] = ops /\ printed'[2] = names
      BY <2>6
    <2>8. PrintedFrom(printed')
      BY <2>2, <2>3, <2>6, <2>7 DEF PrintedFrom
    <2>9. ReadBack(source', i', ops', labels', printed'[1], printed'[2], w)
      BY <1>1, <2>1, <2>4, <2>5, <2>7 DEF ParsePrinted
    <2>10. status' # "unbalanced"
      BY <1>1 DEF ParsePrinted
    <2>11. QED
      BY <2>8, <2>9, <2>10 DEF PrintInv
  <1> SUFFICES ASSUME ~ParsePrinted PROVE PrintInv'
    BY <1>1
  <1>2. printed' = printed
    BY DEF ParseNext, PushPlain, PushOpen, PushClose, RejectClose, ReadLabel, SkipComment,
           Finish, scan
  <1> SUFFICES ASSUME printed # << >>
               PROVE  /\ status' # "unbalanced"
                      /\ \E w : ReadBack(source', i', ops', labels', printed[1], printed[2], w)
    BY <1>2 DEF PrintInv
  <1>3. PICK w : ReadBack(source, i, ops, labels, printed[1], printed[2], w)
    BY DEF PrintInv
  <1>4. /\ GoodTables(printed[1], printed[2]) /\ Balanced(printed[1])
        /\ status # "unbalanced"
    BY DEF PrintInv, PrintedFrom
  <1>5. source \in Seq(Character) /\ Len(source) \in Nat /\ i \in Nat \ {0}
    BY DEF ScanInv, Scanned
  <1>6. ASSUME i <= Len(source), source[i] \in Instruction
        PROVE  ReadBack(source, i + 1, Append(ops, source[i]), labels,
                        printed[1], printed[2], w)
    <2>1. i \in 1..Len(source)
      BY <1>5, <1>6
    <2>2. QED
      BY <1>3, <1>4, <1>6, <2>1, ReadInstruction
  <1>7. "fwd" \in Instruction /\ "bwd" \in Instruction
    BY DEF Instruction
  <1>8. CASE PushPlain
    <2>1. ReadBack(source, i + 1, Append(ops, source[i]), labels, printed[1], printed[2], w)
      BY <1>6, <1>8 DEF PushPlain, Reads
    <2>2. QED
      BY <1>4, <1>8, <2>1 DEF PushPlain
  <1>9. CASE PushOpen
    <2>1. i <= Len(source) /\ source[i] = "fwd"
      BY <1>9 DEF PushOpen, Reads
    <2>2. ReadBack(source, i + 1, Append(ops, "fwd"), labels, printed[1], printed[2], w)
      BY <1>6, <1>7, <2>1
    <2>3. QED
      BY <1>4, <1>9, <2>2 DEF PushOpen
  <1>10. CASE PushClose
    <2>1. i <= Len(source) /\ source[i] = "bwd"
      BY <1>10 DEF PushClose, Reads
    <2>2. ReadBack(source, i + 1, Append(ops, "bwd"), labels, printed[1], printed[2], w)
      BY <1>6, <1>7, <2>1
    <2>3. QED
      BY <1>4, <1>10, <2>2 DEF PushClose
  <1>11. CASE RejectClose
    BY <1>11, NoReject
  <1>12. CASE ReadLabel
    <2>1. i \in 1..Len(source) /\ source[i] = Separator
      BY <1>5, <1>12 DEF ReadLabel, Reads
    <2>2. ReadBack(source, NameEnd(source, i) + 1, ops,
                   Append(labels, <<Len(ops) + 1,
                                    SubSeq(source, i + 1, NameEnd(source, i) - 1)>>),
                   printed[1], printed[2], w)
      BY <1>3, <1>4, <2>1, ReadSeparator
    <2>3. LabelEnd = NameEnd(source, i)
      BY DEF LabelEnd, NameEnd
    <2>4. /\ labels' = Append(labels, <<Len(ops) + 1,
                                        SubSeq(source, i + 1, NameEnd(source, i) - 1)>>)
          /\ i' = NameEnd(source, i) + 1 /\ ops' = ops /\ source' = source
          /\ status' = status
      BY <1>12, <2>3 DEF ReadLabel, pc
    <2>5. QED
      BY <1>4, <2>2, <2>4
  <1>13. CASE SkipComment
    <2>1. i \in 1..Len(source) /\ source[i] \notin Instruction \cup {Separator}
      BY <1>5, <1>13 DEF SkipComment
    <2>2. ReadBack(source, i + 1, ops, labels, printed[1], printed[2], w)
      BY <1>3, <1>4, <2>1, ReadComment
    <2>3. QED
      BY <1>4, <1>13, <2>2 DEF SkipComment
  <1>14. CASE Finish
    <2>1. i > Len(source)
      BY <1>14 DEF Finish
    <2>2. ops = printed[1]
      BY <1>3, <1>4, <2>1, ReadLast
    <2>3. Depth(ops, Len(ops)) = 0
      BY <1>4, <2>2 DEF Balanced
    <2>4. open_brackets = << >>
      BY <2>3 DEF TablesInv, StackOf
    <2>5. QED
      BY <1>3, <1>14, <2>4 DEF Finish
  <1>15. CASE UNCHANGED scan
    BY <1>3, <1>4, <1>15 DEF scan
  <1>16. QED
    BY <1>8, <1>9, <1>10, <1>11, <1>12, <1>13, <1>14, <1>15 DEF ParseNext

LEMMA PrintAlways == ParseSpec => []PrintInv
  <1>1. ParseInit => PrintInv
    BY DEF ParseInit, PrintInv
  <1>2. TablesInv /\ ScanInv /\ Printable /\ PrintInv /\ [ParseNext]_scan => PrintInv'
    BY PrintNext
  <1>3. QED
    BY <1>1, <1>2, TablesAlways, ScanAlways, PrintableAlways, PTL DEF ParseSpec

LEMMA PrintGives == TablesInv /\ ScanInv /\ PrintInv => PrintRoundTrip
  <1> SUFFICES ASSUME TablesInv, ScanInv, PrintInv, printed # << >>
               PROVE  /\ status # "unbalanced"
                      /\ status = "parsed" => printed = <<ops, labels, jumps>>
    BY DEF PrintRoundTrip
  <1>1. /\ status # "unbalanced"
        /\ printed = <<printed[1], printed[2], JumpTable(printed[1])>>
        /\ GoodTables(printed[1], printed[2])
    BY DEF PrintInv, PrintedFrom
  <1>2. PICK w : ReadBack(source, i, ops, labels, printed[1], printed[2], w)
    BY DEF PrintInv
  <1>3. ASSUME status = "parsed" PROVE printed = <<ops, labels, jumps>>
    <2>1. i > Len(source)
      BY <1>3 DEF ScanInv
    <2>2. ops = printed[1] /\ labels = printed[2]
      BY <1>1, <1>2, <2>1, ReadLast
    <2>3. jumps = JumpTable(ops)
      BY <1>3, TablesGiveLinks DEF Linked
    <2>4. QED
      BY <1>1, <2>2, <2>3
  <1>4. QED
    BY <1>1, <1>3

(* The text that print() writes from the tables of any source, with or     *)
(* without its labels, is accepted by parse_from_istream(), and gives the  *)
(* tables that it was written from.                                        *)
THEOREM PrintingRoundTrips == ParseSpec => []PrintRoundTrip
  BY TablesAlways, ScanAlways, PrintAlways, PrintGives, PTL
=============================================================================

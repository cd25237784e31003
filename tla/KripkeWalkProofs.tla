-------------------------- MODULE KripkeWalkProofs --------------------------
(***************************************************************************)
(* The state graph, for every program, tape, cell width, input model and   *)
(* folding mode: it is well formed and has no dead ends, and folding is    *)
(* exact and hides nothing that a check of its mode can observe.           *)
(*                                                                         *)
(* The input model that the graph and the execution share, for every       *)
(* command line and every use of its class: reads are in order, both       *)
(* readers agree, and the bytes are those that were typed.                 *)
(*                                                                         *)
(* Both together, in one call of the program.                              *)
(***************************************************************************)
EXTENDS Process, OperatorProofs

-----------------------------------------------------------------------------
(* The recursion of UnfoldedPath has a solution.                           *)
LEMMA PathIsUnfolded ==
    ASSUME NEW n \in Nat \ {0},
           n = ChosenBlock(prog, folding, state.pc).end - state.pc + 1
    PROVE  IsUnfoldedPath(prog, state, n, UnfoldedPath)
  <1>1. \E path : IsUnfoldedPath(prog, state, n, path)
    BY PathExists
  <1>2. IsUnfoldedPath(prog, state, n, CHOOSE path : IsUnfoldedPath(prog, state, n, path))
    BY <1>1
  <1>3. UnfoldedPath = CHOOSE path : IsUnfoldedPath(prog, state, n, path)
    BY DEF UnfoldedPath, IsUnfoldedPath, NextUnfolded
  <1>4. QED
    BY <1>2, <1>3

-----------------------------------------------------------------------------
(* The inductive invariant.  The folded moves need the tape to be smaller  *)
(* than half a word (the run block_table_huge_tape shows what they do      *)
(* otherwise).                                                             *)
SmallTapes == \A p \in Programs : SmallTape(p)

TypeInv ==
    /\ prog \in Programs
    /\ folding \in Foldings
    /\ IsState(prog, state)

IInv == TypeInv /\ StartsAtBlock

LEMMA StartsAt == StartsAtBlock <=> AtStart(prog, folding, state)
  BY DEF StartsAtBlock, AtStart, InBlock, Labelled

LEMMA InvFacts ==
    ASSUME TypeInv
    PROVE  /\ IsProgram(prog) /\ folding \in Folding /\ IsState(prog, state)
           /\ SmallTapes => SmallTape(prog)
           /\ Len(prog.ops) \in Nat
           /\ is_end(prog, state.pc) <=> state.pc \notin 1..Len(prog.ops)
  <1>1. IsProgram(prog) /\ folding \in Folding /\ IsState(prog, state)
    BY WalkAssumption DEF TypeInv
  <1>2. SmallTapes => SmallTape(prog)
    BY DEF TypeInv, SmallTapes
  <1>3. Len(prog.ops) \in Nat /\ state.pc \in 1..(Len(prog.ops) + 1)
    BY <1>1, ProgramFacts DEF IsState
  <1>4. QED
    BY <1>1, <1>2, <1>3 DEF is_end, instr_count

LEMMA InBlockFolds ==
    ASSUME IInv, InBlock
    PROVE  FoldsAt(prog, folding, state)
  BY InvFacts, StartsAt DEF IInv, InBlock, AtStart, FoldsAt

(* The successors of a state of the invariant.                             *)
LEMMA SuccessorFacts ==
    ASSUME SmallTapes, IInv
    PROVE  /\ Branching
           /\ \A i \in DOMAIN Successors(prog, folding, state) :
                 /\ IsState(prog, Successors(prog, folding, state)[i])
                 /\ AtStart(prog, folding, Successors(prog, folding, state)[i])
  <1>1. /\ IsProgram(prog) /\ folding \in Folding /\ IsState(prog, state) /\ SmallTape(prog)
        /\ AtStart(prog, folding, state)
    BY InvFacts, StartsAt DEF IInv
  <1>2. QED
    BY <1>1, Transitions DEF Branching

-----------------------------------------------------------------------------
LEMMA InitIInv == Init => IInv
  <1> SUFFICES ASSUME Init PROVE IInv
    OBVIOUS
  <1>1. prog \in Programs /\ folding \in Foldings /\ IsProgram(prog)
    BY WalkAssumption DEF Init
  <1>2. state = State(1, 0, [cell \in Cells(Model(prog)) |-> 0], prog.io_model.chars_until_eof)
    BY DEF Init, Begin, initial_state, State, Model
  <1>3. /\ 1 \in 1..(Len(prog.ops) + 1) /\ 0 \in Cells(Model(prog))
        /\ [cell \in Cells(Model(prog)) |-> 0] \in Tapes(prog)
    BY <1>1, ProgramFacts, TapeFacts DEF Tapes
  <1>4. prog.io_model.chars_until_eof \in BudgetValues
    BY <1>1, ProgramFacts DEF IsIOModel, BudgetValues
  <1>5. TypeInv
    BY <1>1, <1>2, <1>3, <1>4, MadeState DEF TypeInv
  <1>6. state.pc = 1
    BY <1>2, StateFields
  <1>7. StartsAtBlock
    BY <1>6 DEF StartsAtBlock, StartsBlock
  <1>8. QED
    BY <1>5, <1>7 DEF IInv

LEMMA NextIInv ==
    ASSUME SmallTapes, IInv, [Next]_vars
    PROVE  IInv'
  <1>1. CASE Step
    <2>1. PICK i \in DOMAIN Successors(prog, folding, state) :
            state' = Successors(prog, folding, state)[i]
      BY <1>1 DEF Step
    <2>2. UNCHANGED <<prog, folding>> /\ ~is_end(prog, state.pc)
      BY <1>1 DEF Step
    <2>3. IsState(prog, state') /\ AtStart(prog, folding, state')
      BY <2>1, SuccessorFacts
    <2>4. TypeInv'
      BY <2>2, <2>3 DEF IInv, TypeInv
    <2>5. StartsAtBlock' <=> AtStart(prog', folding', state')
      BY DEF StartsAtBlock, AtStart, InBlock, Labelled
    <2>6. StartsAtBlock'
      BY <2>2, <2>3, <2>5
    <2>7. QED
      BY <2>4, <2>6 DEF IInv
  <1>2. CASE Halt \/ UNCHANGED vars
    <2>1. UNCHANGED <<prog, folding, state>>
      BY <1>2 DEF Halt, vars
    <2>2. QED
      BY <2>1 DEF IInv, TypeInv, StartsAtBlock, InBlock
  <1>3. QED
    BY <1>1, <1>2 DEF Next

LEMMA Branches ==
    ASSUME SmallTapes, IInv
    PROVE  Branching
  BY SuccessorFacts

(* What the path through the block of the current state has to be.         *)
LEMMA FoldsExactly ==
    ASSUME SmallTapes, IInv
    PROVE  FoldingExact
  <1> SUFFICES ASSUME InBlock
               PROVE  /\ Successors(prog, folding, state) = <<UnfoldedPath[Len(UnfoldedPath)]>>
                      /\ \A k \in 1..(Len(UnfoldedPath) - 1) :
                            Len(Successors(prog, "none", UnfoldedPath[k])) = 1
    BY DEF FoldingExact
  <1> DEFINE stop == ChosenBlock(prog, folding, state.pc).end
             n == stop - state.pc + 1
  <1>1. /\ IsProgram(prog) /\ folding \in Folding /\ SmallTape(prog)
        /\ FoldsAt(prog, folding, state)
    BY InvFacts, InBlockFolds DEF IInv
  <1>2. n \in Nat \ {0}
    BY <1>1, BlockLength
  <1>3. IsUnfoldedPath(prog, state, n, UnfoldedPath)
    BY <1>2, PathIsUnfolded
  <1>4. Len(UnfoldedPath) = n
    <2> HIDE DEF n
    <2>1. QED
      BY ONLY <1>2, <1>3, PathSteps
  <1>5. /\ Successors(prog, folding, state) = <<UnfoldedPath[n]>>
        /\ \A k \in 1..(n - 1) : Len(Successors(prog, "none", UnfoldedPath[k])) = 1
    BY <1>1, <1>3, BlockPath
  <1>6. QED
    BY <1>4, <1>5

LEMMA HidesNothing ==
    ASSUME SmallTapes, IInv
    PROVE  HiddenUnobserved
  <1> SUFFICES ASSUME InBlock, NEW k \in 2..(Len(UnfoldedPath) - 1)
               PROVE  /\ \A label \in prog.labels : label[1] # UnfoldedPath[k].pc
                      /\ folding = "values" => UnfoldedPath[k].mem_ptr = state.mem_ptr
                      /\ folding = "pointers" =>
                            /\ UnfoldedPath[k].memory = state.memory
                            /\ \A cell \in Cells(prog.memory_model) :
                                  ~wrap_test_holds(prog, UnfoldedPath[k],
                                                   [cell |-> cell, direction |-> "both"])
    BY DEF HiddenUnobserved
  <1> DEFINE stop == ChosenBlock(prog, folding, state.pc).end
             n == stop - state.pc + 1
  <1>1. /\ IsProgram(prog) /\ folding \in Folding /\ SmallTape(prog)
        /\ FoldsAt(prog, folding, state)
    BY InvFacts, InBlockFolds DEF IInv
  <1>2. n \in Nat \ {0}
    BY <1>1, BlockLength
  <1>3. IsUnfoldedPath(prog, state, n, UnfoldedPath)
    BY <1>2, PathIsUnfolded
  <1>4. k \in 2..(n - 1)
    <2> HIDE DEF n
    <2>1. Len(UnfoldedPath) = n
      BY ONLY <1>2, <1>3, PathSteps
    <2>2. QED
      BY <1>2, <2>1
  <1>5. Hidden(prog, folding, state, UnfoldedPath[k])
    BY <1>1, <1>3, <1>4, BlockPath
  <1>6. \A label \in prog.labels : label[1] # UnfoldedPath[k].pc
    BY <1>5 DEF Hidden, Labelled
  <1>7. folding = "pointers" =>
            \A cell \in Cells(prog.memory_model) :
                ~wrap_test_holds(prog, UnfoldedPath[k], [cell |-> cell, direction |-> "both"])
    BY <1>5 DEF Hidden, wrap_test_holds
  <1>8. QED
    BY <1>5, <1>6, <1>7 DEF Hidden

-----------------------------------------------------------------------------
(* Every state of a walk is well formed: the pointer is on the tape, every *)
(* content fits its cell and no budget is negative, whatever the folding.  *)
THEOREM Invariance == ASSUME SmallTapes PROVE Spec => []IInv
  <1>1. IInv /\ [Next]_vars => IInv'
    BY NextIInv
  <1>2. QED
    BY <1>1, InitIInv, PTL DEF Spec

(* No jump leads into the middle of a block that the folding mode would    *)
(* apply as a whole, for every balanced program and every labelling.       *)
THEOREM StartsAtBlocks == ASSUME SmallTapes PROVE Spec => []StartsAtBlock
  <1>1. IInv => StartsAtBlock
    BY DEF IInv
  <1>2. QED
    BY <1>1, Invariance, PTL

(* The graph has no dead ends, only a read branches, and an iterator       *)
(* delivers no state twice, for every input model and character set.       *)
THEOREM Branch == ASSUME SmallTapes PROVE Spec => []Branching
  <1>1. IInv => Branching
    BY Branches
  <1>2. QED
    BY <1>1, Invariance, PTL

(* A transition that folds a block ends where its instructions end one at  *)
(* a time: for runs of every length, in every folding mode, on both tape   *)
(* modes and for every cell width.                                         *)
THEOREM FoldExact == ASSUME SmallTapes PROVE Spec => []FoldingExact
  <1>1. IInv => FoldingExact
    BY FoldsExactly
  <1>2. QED
    BY <1>1, Invariance, PTL

(* "Never fold a property that can be observed": what a folded transition  *)
(* skips carries no label, and shows nothing that the checks of its        *)
(* folding mode look at.                                                   *)
THEOREM Unobserved == ASSUME SmallTapes PROVE Spec => []HiddenUnobserved
  <1>1. IInv => HiddenUnobserved
    BY HidesNothing
  <1>2. QED
    BY <1>1, Invariance, PTL

-----------------------------------------------------------------------------
(* The input model.  After a read the budget is one less, unless it is     *)
(* zero or there is none.                                                  *)
Spent(model) ==
    [model EXCEPT !.chars_until_eof =
        IF @ # NoValue /\ @ > 0 THEN @ - 1 ELSE @]

(* What the next read offers.                                              *)
DueNow(model, result) ==
    IF model.chars_until_eof = 0 THEN result = AtEof(model)
    ELSE IF has_input(model)
    THEN result = <<model.input[Len(model.input) - model.chars_until_eof + 1]>>
    ELSE result = AllPossibleChars \/ \E char \in Char : result = <<char>>

LEMMA ModelFacts ==
    ASSUME NEW model, IsIOModel(model)
    PROVE  /\ model.chars_until_eof \in Nat \cup {NoValue}
           /\ model.chars_until_eof = NoValue <=> model.chars_until_eof \notin Nat
           /\ DOMAIN model = {"chars_until_eof", "no_change_on_eof", "eof_char", "input"}
           /\ model = [x \in DOMAIN model |-> model[x]]
           /\ has_input(model) =>
                 /\ model.input \in Seq(Char)
                 /\ model.chars_until_eof \in 0..Len(model.input)
                 /\ PinnedRemaining(model, model.chars_until_eof) = model.chars_until_eof
  <1>1. /\ model \in [chars_until_eof : Nat \cup {NoValue}, no_change_on_eof : BOOLEAN,
                      eof_char : Char, input : Seq(Char) \cup {NoValue}]
        /\ has_input(model) => model.chars_until_eof \in 0..Len(model.input)
    BY DEF IsIOModel
  <1>2. has_input(model) => model.input \in Seq(Char)
    BY <1>1 DEF has_input
  <1>3. model.chars_until_eof = NoValue <=> model.chars_until_eof \notin Nat
    BY <1>1, NoValueAssumption
  <1>4. ASSUME has_input(model)
        PROVE  PinnedRemaining(model, model.chars_until_eof) = model.chars_until_eof
    <2>1. /\ model.chars_until_eof \in 0..Len(model.input)
          /\ Len(model.input) \in Nat
          /\ model.chars_until_eof # NoValue
      BY <1>1, <1>2, <1>3, <1>4
    <2>2. QED
      BY <2>1 DEF PinnedRemaining
  <1>5. QED
    BY <1>1, <1>2, <1>3, <1>4

LEMMA SpentFacts ==
    ASSUME NEW model, IsIOModel(model)
    PROVE  /\ IsIOModel(Spent(model))
           /\ has_input(Spent(model)) <=> has_input(model)
           /\ Spent(model).input = model.input
           /\ AtEof(Spent(model)) = AtEof(model)
           /\ ~(model.chars_until_eof # NoValue /\ model.chars_until_eof > 0) => Spent(model) = model
  <1>1. /\ model \in [chars_until_eof : Nat \cup {NoValue}, no_change_on_eof : BOOLEAN,
                      eof_char : Char, input : Seq(Char) \cup {NoValue}]
        /\ has_input(model) => model.chars_until_eof \in 0..Len(model.input)
    BY DEF IsIOModel
  <1> DEFINE left == IF model.chars_until_eof # NoValue /\ model.chars_until_eof > 0
                     THEN model.chars_until_eof - 1 ELSE model.chars_until_eof
  <1>2. Spent(model) = [model EXCEPT !.chars_until_eof = left]
    BY DEF Spent
  <1>3. left \in Nat \cup {NoValue}
    BY <1>1, NoValueAssumption
  <1>4. has_input(model) => left \in 0..Len(model.input)
    <2>1. has_input(model) => Len(model.input) \in Nat
      BY <1>1 DEF has_input
    <2>2. QED
      BY <1>1, <2>1
  <1> HIDE DEF left
  <1>5. /\ Spent(model) \in [chars_until_eof : Nat \cup {NoValue}, no_change_on_eof : BOOLEAN,
                             eof_char : Char, input : Seq(Char) \cup {NoValue}]
        /\ Spent(model).input = model.input
        /\ Spent(model).chars_until_eof = left
        /\ Spent(model).no_change_on_eof = model.no_change_on_eof
        /\ Spent(model).eof_char = model.eof_char
    BY <1>1, <1>2, <1>3
  <1>6. IsIOModel(Spent(model)) /\ (has_input(Spent(model)) <=> has_input(model))
    BY <1>4, <1>5 DEF IsIOModel, has_input
  <1>7. AtEof(Spent(model)) = AtEof(model)
    BY <1>5 DEF AtEof
  <1>8. ASSUME ~(model.chars_until_eof # NoValue /\ model.chars_until_eof > 0)
        PROVE  Spent(model) = model
    <2>1. left = model.chars_until_eof
      BY <1>8 DEF left
    <2>2. QED
      BY <1>1, <1>2, <2>1
  <1>9. QED
    BY <1>5, <1>6, <1>7, <1>8

(* Both readers offer what is due and spend one character of the budget.   *)
LEMMA PossibleFacts ==
    ASSUME NEW model, IsIOModel(model)
    PROVE  /\ read_possible_chars(model).io = Spent(model)
           /\ DueNow(model, read_possible_chars(model).chars)
           /\ read_possible_chars(model).chars = get_possible_chars(model, model.chars_until_eof)
  <1> DEFINE budget == model.chars_until_eof
  <1>1. /\ budget \in Nat \cup {NoValue}
        /\ budget = NoValue <=> budget \notin Nat
    BY ModelFacts
  <1>2. budget # NoValue /\ budget > 0 =>
           Spent(model) = [model EXCEPT !.chars_until_eof = budget - 1]
    BY DEF Spent
  <1>3. ~(budget # NoValue /\ budget > 0) => Spent(model) = model
    BY SpentFacts
  <1>4. CASE has_input(model)
    <2>1. /\ budget \in 0..Len(model.input) /\ model.input \in Seq(Char)
          /\ PinnedRemaining(model, budget) = budget
      BY <1>4, ModelFacts
    <2>2. budget \in Nat /\ budget # NoValue
      BY <1>1, <2>1
    <2>3. CASE budget > 0
      <3>1. read_possible_chars(model)
              = [chars |-> <<PinnedByte(model, budget)>>,
                 io |-> [model EXCEPT !.chars_until_eof = budget - 1]]
        BY <1>4, <2>1, <2>3 DEF read_possible_chars
      <3>2. get_possible_chars(model, budget) = <<PinnedByte(model, budget)>>
        BY <1>4, <2>1, <2>3 DEF get_possible_chars
      <3>3. QED
        BY <1>2, <1>4, <2>2, <2>3, <3>1, <3>2 DEF DueNow, PinnedByte
    <2>4. CASE ~(budget > 0)
      <3>1. read_possible_chars(model) = [chars |-> AtEof(model), io |-> model]
        BY <1>4, <2>1, <2>4 DEF read_possible_chars
      <3>2. get_possible_chars(model, budget) = AtEof(model)
        BY <1>4, <2>1, <2>4 DEF get_possible_chars
      <3>3. budget = 0
        BY <2>2, <2>4
      <3>4. QED
        BY <1>3, <2>4, <3>1, <3>2, <3>3 DEF DueNow
    <2>5. QED
      BY <2>3, <2>4
  <1>5. CASE ~has_input(model)
    <2>1. CASE budget = NoValue
      <3>1. read_possible_chars(model) = [chars |-> AllPossibleChars, io |-> model]
        BY <1>5, <2>1 DEF read_possible_chars
      <3>2. get_possible_chars(model, budget) = AllPossibleChars
        BY <1>5, <2>1 DEF get_possible_chars
      <3>3. budget # 0
        BY <1>1, <2>1
      <3>4. QED
        BY <1>3, <1>5, <2>1, <3>1, <3>2, <3>3 DEF DueNow
    <2>2. CASE budget # NoValue /\ budget > 0
      <3>1. read_possible_chars(model)
              = [chars |-> AllPossibleChars, io |-> [model EXCEPT !.chars_until_eof = @ - 1]]
        BY <1>5, <2>2 DEF read_possible_chars
      <3>2. get_possible_chars(model, budget) = AllPossibleChars
        BY <1>5, <2>2 DEF get_possible_chars
      <3>3. budget # 0
        BY <1>1, <2>2
      <3>4. QED
        BY <1>2, <1>5, <2>2, <3>1, <3>2, <3>3 DEF DueNow
    <2>3. CASE budget # NoValue /\ ~(budget > 0)
      <3>1. read_possible_chars(model) = [chars |-> AtEof(model), io |-> model]
        BY <1>5, <2>3 DEF read_possible_chars
      <3>2. get_possible_chars(model, budget) = AtEof(model)
        BY <1>5, <2>3 DEF get_possible_chars
      <3>3. budget = 0
        BY <1>1, <2>3
      <3>4. QED
        BY <1>3, <2>3, <3>1, <3>2, <3>3 DEF DueNow
    <2>4. QED
      BY <2>1, <2>2, <2>3
  <1>6. QED
    BY <1>4, <1>5

(* The outcomes of read_next_char(), as what they offer the cell.          *)
LEMMA NextCharFacts ==
    ASSUME NEW model, IsIOModel(model)
    PROVE  /\ {read.io : read \in read_next_char(model, Char)} = {Spent(model)}
           /\ {Offer(model, read.result) : read \in read_next_char(model, Char)}
                = IF model.chars_until_eof = 0 THEN {AtEof(model)}
                  ELSE IF has_input(model)
                  THEN {<<model.input[Len(model.input) - model.chars_until_eof + 1]>>}
                  ELSE {<<char>> : char \in Char}
  <1> DEFINE budget == model.chars_until_eof
  <1>1. /\ budget \in Nat \cup {NoValue}
        /\ budget = NoValue <=> budget \notin Nat
    BY ModelFacts
  <1>2. budget # NoValue /\ budget > 0 =>
           Spent(model) = [model EXCEPT !.chars_until_eof = budget - 1]
    BY DEF Spent
  <1>3. ~(budget # NoValue /\ budget > 0) => Spent(model) = model
    BY SpentFacts
  <1>4. has_input(model) =>
          /\ budget \in 0..Len(model.input) /\ model.input \in Seq(Char)
          /\ PinnedRemaining(model, budget) = budget
    BY ModelFacts
  <1>5. CASE budget = 0
    <2>1. read_next_char(model, Char) = {[result |-> NoValue, io |-> model]}
      BY <1>5 DEF read_next_char
    <2>2. Spent(model) = model
      BY <1>3, <1>5
    <2>3. QED
      BY <1>5, <2>1, <2>2 DEF Offer
  <1>6. CASE budget # 0 /\ has_input(model)
    <2>1. budget \in Nat /\ budget > 0 /\ budget # NoValue
      BY <1>1, <1>4, <1>6
    <2>2. read_next_char(model, Char)
            = {[result |-> PinnedByte(model, budget),
                io |-> [model EXCEPT !.chars_until_eof = budget - 1]]}
      BY <1>4, <1>6 DEF read_next_char
    <2>3. Spent(model) = [model EXCEPT !.chars_until_eof = budget - 1]
      BY <1>2, <2>1
    <2>4. PinnedByte(model, budget) # NoValue
      <3>1. Len(model.input) - budget + 1 \in 1..Len(model.input)
        BY <1>4, <1>6, <2>1
      <3>2. PinnedByte(model, budget) \in Char
        BY <1>4, <1>6, <3>1 DEF PinnedByte
      <3>3. QED
        BY <3>2, NoValueAssumption, MaxCharAssumption DEF Char
    <2>5. QED
      BY <1>6, <2>2, <2>3, <2>4 DEF Offer, PinnedByte
  <1>7. CASE budget # 0 /\ ~has_input(model)
    <2> DEFINE After1(byte) ==
                 IF byte = NoValue \/ budget = NoValue THEN model
                 ELSE [model EXCEPT !.chars_until_eof = budget - 1]
    <2>1. read_next_char(model, Char) = {[result |-> byte, io |-> After1(byte)] : byte \in Char}
      BY <1>7 DEF read_next_char
    <2>2. \A byte \in Char : byte # NoValue
      BY NoValueAssumption, MaxCharAssumption DEF Char
    <2>3. \A byte \in Char : After1(byte) = Spent(model)
      BY <1>1, <1>2, <1>3, <1>7, <2>2
    <2> HIDE DEF After1
    <2>4. 0 \in Char
      BY MaxCharAssumption DEF Char
    <2>5. \A byte \in Char : Offer(model, byte) = <<byte>>
      BY <2>2 DEF Offer
    <2>6. {read.io : read \in read_next_char(model, Char)} = {Spent(model)}
      <3>1. \A read \in read_next_char(model, Char) : read.io = Spent(model)
        BY <2>1, <2>3
      <3>2. read_next_char(model, Char) # {}
        BY <2>1, <2>4
      <3>3. QED
        BY <3>1, <3>2
    <2>7. {Offer(model, read.result) : read \in read_next_char(model, Char)}
            = {<<char>> : char \in Char}
      <3>1. {Offer(model, read.result) : read \in read_next_char(model, Char)}
              = {Offer(model, byte) : byte \in Char}
        <4>1. \A read \in read_next_char(model, Char) :
                \E byte \in Char : read.result = byte
          BY <2>1
        <4>2. \A byte \in Char :
                \E read \in read_next_char(model, Char) : read.result = byte
          <5>1. \A byte \in Char :
                  [result |-> byte, io |-> After1(byte)] \in read_next_char(model, Char)
            BY <2>1, Zenon
          <5>2. \A byte \in Char : [result |-> byte, io |-> After1(byte)].result = byte
            OBVIOUS
          <5>3. QED
            BY <5>1, <5>2
        <4>3. QED
          BY <4>1, <4>2
      <3>2. QED
        BY <2>5, <3>1
    <2>8. QED
      BY <1>7, <2>6, <2>7
  <1>8. QED
    BY <1>5, <1>6, <1>7

(* GraphAgrees holds of every model that the class can be in.              *)
LEMMA ModelAgrees ==
    ASSUME IsIOModel(io)
    PROVE  GraphAgrees
  <1> DEFINE chars == get_possible_chars(io, io.chars_until_eof)
             possible == read_possible_chars(io)
             left == IF io.chars_until_eof # NoValue /\ io.chars_until_eof > 0
                     THEN io.chars_until_eof - 1 ELSE io.chars_until_eof
             offers == {Offer(io, read.result) : read \in read_next_char(io, Char)}
  <1>1. possible.io = Spent(io) /\ DueNow(io, chars) /\ possible.chars = chars
    BY PossibleFacts
  <1>2. possible.io.chars_until_eof = left
    <2>1. Spent(io).chars_until_eof = left
      BY ModelFacts DEF Spent
    <2>2. QED
      BY <1>1, <2>1
  <1>3. {read.io : read \in read_next_char(io, Char)} = {possible.io}
    BY <1>1, NextCharFacts
  <1>4. offers = IF Len(chars) > 1 THEN {<<char>> : char \in Char} ELSE {chars}
    <2>1. CASE io.chars_until_eof = 0
      <3>1. chars = AtEof(io) /\ offers = {AtEof(io)}
        BY <1>1, <2>1, NextCharFacts DEF DueNow
      <3>2. ~(Len(AtEof(io)) > 1)
        BY DEF AtEof
      <3>3. QED
        BY <3>1, <3>2
    <2>2. CASE io.chars_until_eof # 0 /\ has_input(io)
      <3> DEFINE char == io.input[Len(io.input) - io.chars_until_eof + 1]
      <3>1. chars = <<char>> /\ offers = {<<char>>}
        BY <1>1, <2>2, NextCharFacts DEF DueNow
      <3>2. ~(Len(<<char>>) > 1)
        OBVIOUS
      <3>3. QED
        BY <3>1, <3>2
    <2>3. CASE io.chars_until_eof # 0 /\ ~has_input(io)
      <3>1. offers = {<<char>> : char \in Char}
        BY <2>3, NextCharFacts
      <3>2. chars = AllPossibleChars
        <4>1. io.chars_until_eof = NoValue \/ io.chars_until_eof > 0
          BY <2>3, ModelFacts
        <4>2. QED
          BY <2>3, <4>1 DEF get_possible_chars
      <3>3. Len(AllPossibleChars) > 1
        BY MaxCharAssumption DEF AllPossibleChars
      <3>4. QED
        BY <3>1, <3>2, <3>3
    <2>4. QED
      BY <2>1, <2>2, <2>3
  <1> HIDE DEF chars, possible, left, offers
  <1>5. /\ possible.chars = chars
        /\ possible.io.chars_until_eof = left
        /\ {read.io : read \in read_next_char(io, Char)} = {possible.io}
        /\ offers = IF Len(chars) > 1 THEN {<<char>> : char \in Char} ELSE {chars}
    BY <1>1, <1>2, <1>3, <1>4
  <1>6. QED
    BY <1>5 DEF GraphAgrees, chars, possible, left, offers

-----------------------------------------------------------------------------
(* decode_input_escapes().  Its recursion counts down from the end of the  *)
(* argument, so it has a solution.                                         *)
Decoded(text, rest, k) ==
    IF k > Len(text) THEN << >>
    ELSE IF text[k] # "\\" THEN Prepend(Code[text[k]], rest[k + 1])
    ELSE IF k = Len(text) THEN NoValue
    ELSE IF text[k + 1] \in DOMAIN Escapes
    THEN Prepend(Escapes[text[k + 1]], rest[k + 2])
    ELSE IF /\ text[k + 1] = "x" /\ k + 3 <= Len(text)
            /\ {text[k + 2], text[k + 3]} \subseteq DOMAIN HexDigits
    THEN Prepend(HexByte(text[k + 2], text[k + 3]), rest[AfterHex(k)])
    ELSE NoValue

IsDecoded(text, rest) ==
    rest = [k \in 1..(Len(text) + 1) |-> Decoded(text, rest, k)]

Bytes == Seq(Char) \cup {NoValue}

(* A step only looks at what is behind it.                                 *)
LEMMA DecodedSame ==
    ASSUME NEW text, Len(text) \in Nat, NEW k \in 1..(Len(text) + 1), NEW f, NEW g,
           \A j \in (k + 1)..(Len(text) + 1) : f[j] = g[j]
    PROVE  Decoded(text, f, k) = Decoded(text, g, k)
  <1>1. k <= Len(text) => f[k + 1] = g[k + 1]
    BY SMT
  <1>2. k <= Len(text) /\ k # Len(text) => f[k + 2] = g[k + 2]
    BY SMT
  <1>3. k + 3 <= Len(text) => f[AfterHex(k)] = g[AfterHex(k)]
    BY SMT DEF AfterHex
  <1>4. ~(k > Len(text)) => k <= Len(text)
    OBVIOUS
  <1>5. QED
    BY <1>1, <1>2, <1>3, <1>4, Zenon DEF Decoded

LEMMA EscapeFacts ==
    /\ \A c \in DOMAIN Escapes : Escapes[c] \in Char
    /\ \A high, low \in DOMAIN HexDigits : HexByte(high, low) \in Char
  <1>1. \A c \in {"\\", "newline", "tab", "return"} : Code[c] \in Char
    BY CommandLineAssumption
  <1>2. 0 \in Char
    BY MaxCharAssumption DEF Char
  <1>3. \A c \in DOMAIN Escapes : Escapes[c] \in Char
    BY <1>1, <1>2, Zenon DEF Escapes
  <1>4. ASSUME NEW high \in DOMAIN HexDigits, NEW low \in DOMAIN HexDigits
        PROVE  HexByte(high, low) \in Char
    <2> DEFINE h == HexDigits[high]
               l == HexDigits[low]
    <2>1. /\ HexBase \in Nat /\ HexBase * HexBase = MaxChar + 1 /\ MaxChar \in Nat
          /\ h \in 0..(HexBase - 1) /\ l \in 0..(HexBase - 1)
      BY CommandLineAssumption, MaxCharAssumption
    <2> HIDE DEF h, l
    <2>2. h * HexBase \in Nat
      BY <2>1
    <2>3. (HexBase - 1) * HexBase = MaxChar + 1 - HexBase
      BY <2>1
    <2>4. h * HexBase <= (HexBase - 1) * HexBase
      BY <2>1
    <2>5. h * HexBase + l \in 0..MaxChar
      <3> DEFINE x == h * HexBase
                 y == (HexBase - 1) * HexBase
      <3>1. x \in Nat /\ x <= y /\ y = MaxChar + 1 - HexBase
        BY <2>2, <2>3, <2>4
      <3> HIDE DEF x, y
      <3>2. x + l \in 0..MaxChar
        BY <2>1, <3>1
      <3>3. QED
        BY <3>2 DEF x
    <2>6. QED
      BY <2>5 DEF HexByte, Char, h, l
  <1>5. QED
    BY <1>3, <1>4

LEMMA PrependFacts ==
    ASSUME NEW byte \in Char, NEW bytes \in Bytes
    PROVE  Prepend(byte, bytes) \in Bytes
  <1>1. CASE bytes = NoValue
    BY <1>1 DEF Prepend, Bytes
  <1>2. CASE bytes # NoValue
    <2>1. bytes \in Seq(Char)
      BY <1>2 DEF Bytes
    <2>2. <<byte>> \o bytes \in Seq(Char)
      BY <2>1
    <2>3. QED
      BY <1>2, <2>2 DEF Prepend, Bytes
  <1>3. QED
    BY <1>1, <1>2

LEMMA DecodedBytes ==
    ASSUME NEW text \in Seq(DOMAIN Code), NEW k \in 1..(Len(text) + 1), NEW rest,
           \A j \in (k + 1)..(Len(text) + 1) : rest[j] \in Bytes
    PROVE  Decoded(text, rest, k) \in Bytes
  <1>1. << >> \in Bytes /\ NoValue \in Bytes
    BY DEF Bytes
  <1>2. CASE k > Len(text)
    BY <1>1, <1>2 DEF Decoded
  <1>3. CASE ~(k > Len(text))
    <2>1. k \in 1..Len(text) /\ k + 1 \in (k + 1)..(Len(text) + 1)
      BY <1>3
    <2>2. Code[text[k]] \in Char
      BY <2>1, CommandLineAssumption
    <2>3. Prepend(Code[text[k]], rest[k + 1]) \in Bytes
      BY <2>1, <2>2, PrependFacts
    <2>4. ASSUME k # Len(text), text[k + 1] \in DOMAIN Escapes
          PROVE  Prepend(Escapes[text[k + 1]], rest[k + 2]) \in Bytes
      <3>1. k + 2 \in (k + 1)..(Len(text) + 1)
        BY <2>1, <2>4
      <3>2. QED
        BY <2>4, <3>1, EscapeFacts, PrependFacts
    <2>5. ASSUME k + 3 <= Len(text),
                 {text[k + 2], text[k + 3]} \subseteq DOMAIN HexDigits
          PROVE  Prepend(HexByte(text[k + 2], text[k + 3]), rest[AfterHex(k)]) \in Bytes
      <3>1. AfterHex(k) \in (k + 1)..(Len(text) + 1)
        BY <2>1, <2>5 DEF AfterHex
      <3>2. HexByte(text[k + 2], text[k + 3]) \in Char
        BY <2>5, EscapeFacts
      <3>3. QED
        BY <3>1, <3>2, PrependFacts
    <2>6. QED
      BY <1>1, <1>3, <2>3, <2>4, <2>5, Zenon DEF Decoded
  <1>4. QED
    BY <1>2, <1>3

LEMMA DecodedExists ==
    ASSUME NEW text, Len(text) \in Nat
    PROVE  \E rest : IsDecoded(text, rest)
  <1> DEFINE n == Len(text) + 1
             Solved(e) == \E f : \A k \in (n - e)..n : k >= 1 => f[k] = Decoded(text, f, k)
             T == {e \in Nat : ~Solved(e)}
  <1>1. T = {}
    <2> SUFFICES ASSUME T # {} PROVE FALSE
      OBVIOUS
    <2>1. PICK e \in T : \A d \in T : e <= d
      <3>1. T \in SUBSET Nat /\ T # {}
        OBVIOUS
      <3> HIDE DEF T
      <3>2. QED
        BY <3>1, LeastElement
    <2>2. e \in Nat /\ ~Solved(e)
      OBVIOUS
    <2>3. CASE e = 0
      <3> DEFINE f == [k \in {n} |-> << >>]
      <3>1. \A k \in (n - 0)..n : k = n /\ f[k] = << >> /\ k > Len(text)
        OBVIOUS
      <3>2. \A k \in (n - 0)..n : f[k] = Decoded(text, f, k)
        <4> HIDE DEF f, n
        <4>1. QED
          BY <3>1 DEF Decoded
      <3> HIDE DEF f
      <3>3. QED
        BY <2>2, <2>3, <3>2
    <2>4. CASE e # 0
      <3>1. e - 1 \in Nat /\ e - 1 < e
        BY <2>2, <2>4
      <3>2. e - 1 \notin T
        <4> HIDE DEF T
        <4>1. QED
          BY <2>1, <2>2, <3>1
      <3>3. PICK f : \A k \in (n - (e - 1))..n : k >= 1 => f[k] = Decoded(text, f, k)
        BY <3>1, <3>2
      <3> DEFINE g == [k \in (n - e)..n |-> IF k = n - e THEN Decoded(text, f, k) ELSE f[k]]
      <3>4. \A k \in (n - (e - 1))..n : g[k] = f[k]
        BY <2>2
      <3>5. g[n - e] = Decoded(text, f, n - e)
        BY <2>2
      <3> HIDE DEF g
      <3>6. ASSUME NEW k \in (n - e)..n, k >= 1
            PROVE  g[k] = Decoded(text, g, k)
        <4>1. k \in 1..(Len(text) + 1)
          BY <3>6, <2>2
        <4>2. \A j \in (k + 1)..(Len(text) + 1) : f[j] = g[j]
          <5>1. \A j \in (k + 1)..(Len(text) + 1) : j \in (n - (e - 1))..n
            BY <2>2, <4>1
          <5>2. QED
            BY <3>4, <5>1
        <4>3. Decoded(text, f, k) = Decoded(text, g, k)
          BY <4>1, <4>2, DecodedSame
        <4>4. g[k] = Decoded(text, f, k)
          <5>1. CASE k = n - e
            BY <3>5, <5>1
          <5>2. CASE k # n - e
            <6>1. k \in (n - (e - 1))..n
              BY <2>2, <4>1, <5>2
            <6>2. QED
              BY <3>3, <3>4, <3>6, <6>1
          <5>3. QED
            BY <5>1, <5>2
        <4>5. QED
          BY <4>3, <4>4
      <3>7. QED
        BY <2>2, <3>6
    <2>5. QED
      BY <2>3, <2>4
  <1>2. Solved(Len(text))
    <2> HIDE DEF Solved
    <2>1. QED
      BY <1>1
  <1>3. PICK f : \A k \in (n - Len(text))..n : k >= 1 => f[k] = Decoded(text, f, k)
    BY <1>2
  <1>4. \A k \in 1..(Len(text) + 1) : f[k] = Decoded(text, f, k)
    BY <1>3
  <1> DEFINE rest == [k \in 1..(Len(text) + 1) |-> f[k]]
  <1>5. \A k \in 1..(Len(text) + 1) : rest[k] = f[k]
    OBVIOUS
  <1>6. rest = [k \in 1..(Len(text) + 1) |-> rest[k]]
    OBVIOUS
  <1> HIDE DEF rest
  <1>7. ASSUME NEW k \in 1..(Len(text) + 1)
        PROVE  rest[k] = Decoded(text, rest, k)
    <2>1. \A j \in (k + 1)..(Len(text) + 1) : f[j] = rest[j]
      BY <1>5
    <2>2. Decoded(text, f, k) = Decoded(text, rest, k)
      BY <2>1, DecodedSame
    <2>3. QED
      BY <1>4, <1>5, <2>2
  <1>8. QED
    BY <1>6, <1>7 DEF IsDecoded

(* The decoder against the meaning of an argument.  A piece stands for one *)
(* byte at most, and its length tells which kind of token it is.           *)
LEMMA TokensFacts ==
    ASSUME NEW p \in Seq(DOMAIN Code)
    PROVE  /\ Len(p) = 1 => Tokens(p) = IF p[1] = "\\" THEN {} ELSE {Code[p[1]]}
           /\ Len(p) = 2 => Tokens(p) = IF p[1] = "\\" /\ p[2] \in DOMAIN Escapes
                                        THEN {Escapes[p[2]]} ELSE {}
           /\ Len(p) = 4 => Tokens(p) = IF /\ p[1] = "\\" /\ p[2] = "x"
                                           /\ {p[3], p[4]} \subseteq DOMAIN HexDigits
                                        THEN {HexByte(p[3], p[4])} ELSE {}
           /\ Len(p) \notin {1, 2, 4} => Tokens(p) = {}
  <1> DEFINE A == {c \in DOMAIN Code \ {"\\"} : p = <<c>>}
             B == {c \in DOMAIN Escapes : p = <<"\\", c>>}
             C == {d \in (DOMAIN HexDigits) \X (DOMAIN HexDigits) :
                      p = <<"\\", "x", d[1], d[2]>>}
             H == {HexByte(d[1], d[2]) : d \in C}
  <1>1. Tokens(p) = {Code[c] : c \in A} \cup {Escapes[c] : c \in B} \cup H
    BY DEF Tokens
  <1>2. /\ \A c : p = <<c>> <=> Len(p) = 1 /\ p[1] = c
        /\ \A c : p = <<"\\", c>> <=> Len(p) = 2 /\ p[1] = "\\" /\ p[2] = c
        /\ \A c, d : p = <<"\\", "x", c, d>> <=>
              Len(p) = 4 /\ p[1] = "\\" /\ p[2] = "x" /\ p[3] = c /\ p[4] = d
    OBVIOUS
  <1>3. Len(p) # 1 => A = {}
    BY <1>2
  <1>4. Len(p) # 2 => B = {}
    BY <1>2
  <1>5. Len(p) # 4 => C = {}
    BY <1>2
  <1>6. Len(p) = 1 => A = IF p[1] = "\\" THEN {} ELSE {p[1]}
    <2>1. Len(p) = 1 => p[1] \in DOMAIN Code
      OBVIOUS
    <2>2. QED
      BY <1>2, <2>1
  <1>7. Len(p) = 2 => B = IF p[1] = "\\" /\ p[2] \in DOMAIN Escapes THEN {p[2]} ELSE {}
    BY <1>2
  <1>8. Len(p) = 4 => H = IF /\ p[1] = "\\" /\ p[2] = "x"
                             /\ {p[3], p[4]} \subseteq DOMAIN HexDigits
                          THEN {HexByte(p[3], p[4])} ELSE {}
    <2> SUFFICES ASSUME Len(p) = 4 PROVE H = IF /\ p[1] = "\\" /\ p[2] = "x"
                             /\ {p[3], p[4]} \subseteq DOMAIN HexDigits
                          THEN {HexByte(p[3], p[4])} ELSE {}
      OBVIOUS
    <2>1. \A d \in C : p[1] = "\\" /\ p[2] = "x" /\ d[1] = p[3] /\ d[2] = p[4]
      BY <1>2
    <2>2. ASSUME p[1] = "\\", p[2] = "x", {p[3], p[4]} \subseteq DOMAIN HexDigits
          PROVE  <<p[3], p[4]>> \in C
      BY <1>2, <2>2
    <2>3. \A d \in C : {p[3], p[4]} \subseteq DOMAIN HexDigits
      BY <2>1
    <2>4. <<p[3], p[4]>>[1] = p[3] /\ <<p[3], p[4]>>[2] = p[4]
      OBVIOUS
    <2>5. \A d \in C : HexByte(d[1], d[2]) = HexByte(p[3], p[4])
      BY <2>1
    <2> HIDE DEF C
    <2>6. CASE /\ p[1] = "\\" /\ p[2] = "x"
               /\ {p[3], p[4]} \subseteq DOMAIN HexDigits
      <3>1. HexByte(p[3], p[4]) \in H
        BY <2>2, <2>4, <2>6
      <3>2. QED
        BY <2>5, <2>6, <3>1
    <2>7. CASE ~(/\ p[1] = "\\" /\ p[2] = "x"
                 /\ {p[3], p[4]} \subseteq DOMAIN HexDigits)
      BY <2>1, <2>3, <2>7
    <2>8. QED
      BY <2>6, <2>7
  <1> HIDE DEF A, B, C
  <1>9. Len(p) # 4 => H = {}
    BY <1>5
  <1> HIDE DEF H
  <1>10. QED
    BY <1>1, <1>3, <1>4, <1>6, <1>7, <1>8, <1>9

(* From the i-th character on, the only piece that stands for a byte, b,   *)
(* ends before n.                                                          *)
OnlyPiece(text, i, n, b) ==
    \A m \in (i + 1)..(Len(text) + 1) :
        Tokens(SubSeq(text, i, m - 1)) = IF m = n THEN {b} ELSE {}

LEMMA PieceFacts ==
    ASSUME NEW text \in Seq(DOMAIN Code), NEW i \in 1..Len(text),
           NEW m \in (i + 1)..(Len(text) + 1)
    PROVE  LET p == SubSeq(text, i, m - 1)
           IN  /\ p \in Seq(DOMAIN Code)
               /\ Len(p) = m - i
               /\ \A k \in 1..(m - i) : p[k] = text[i + k - 1]
  <1>1. Len(text) \in Nat
    OBVIOUS
  <1>2. m - 1 \in i..Len(text) /\ m - i \in Nat
    BY <1>1
  <1>3. (m - 1) - i + 1 = m - i
    BY <1>1
  <1>4. /\ SubSeq(text, i, m - 1) \in Seq(DOMAIN Code)
        /\ Len(SubSeq(text, i, m - 1)) = (m - 1) - i + 1
        /\ \A k \in 1..((m - 1) - i + 1) : SubSeq(text, i, m - 1)[k] = text[i + k - 1]
    BY <1>1, <1>2
  <1>5. QED
    BY <1>3, <1>4

LEMMA DecodedStep ==
    ASSUME NEW text \in Seq(DOMAIN Code), NEW i \in 1..Len(text), NEW rest
    PROVE  \/ /\ Decoded(text, rest, i) = NoValue
              /\ \A m \in (i + 1)..(Len(text) + 1) : Tokens(SubSeq(text, i, m - 1)) = {}
           \/ \E n \in (i + 1)..(Len(text) + 1), b \in Char :
                 Decoded(text, rest, i) = Prepend(b, rest[n]) /\ OnlyPiece(text, i, n, b)
  <1> DEFINE Here(m) == Tokens(SubSeq(text, i, m - 1))
             last == Len(text) + 1
             hex == {text[i + 2], text[i + 3]} \subseteq DOMAIN HexDigits
  <1>1. last \in Nat /\ i + 1 \in (i + 1)..last /\ ~(i > Len(text))
    OBVIOUS
  <1>2. ASSUME NEW m \in (i + 1)..last
        PROVE  /\ m = i + 1 => Here(m) = IF text[i] = "\\" THEN {} ELSE {Code[text[i]]}
               /\ m = i + 2 => Here(m) = IF text[i] = "\\" /\ text[i + 1] \in DOMAIN Escapes
                                         THEN {Escapes[text[i + 1]]} ELSE {}
               /\ m = i + 4 => Here(m) = IF text[i] = "\\" /\ text[i + 1] = "x" /\ hex
                                         THEN {HexByte(text[i + 2], text[i + 3])} ELSE {}
               /\ m \notin {i + 1, i + 2, i + 4} => Here(m) = {}
    <2> DEFINE p == SubSeq(text, i, m - 1)
    <2>1. /\ p \in Seq(DOMAIN Code) /\ Len(p) = m - i
          /\ \A k \in 1..(m - i) : p[k] = text[i + k - 1]
      BY PieceFacts
    <2>2. /\ Len(p) = 1 => Here(m) = IF p[1] = "\\" THEN {} ELSE {Code[p[1]]}
          /\ Len(p) = 2 => Here(m) = IF p[1] = "\\" /\ p[2] \in DOMAIN Escapes
                                     THEN {Escapes[p[2]]} ELSE {}
          /\ Len(p) = 4 => Here(m) = IF /\ p[1] = "\\" /\ p[2] = "x"
                                        /\ {p[3], p[4]} \subseteq DOMAIN HexDigits
                                     THEN {HexByte(p[3], p[4])} ELSE {}
          /\ Len(p) \notin {1, 2, 4} => Here(m) = {}
      BY <2>1, TokensFacts
    <2> HIDE DEF p, Here
    <2>3. m = i + 1 => Len(p) = 1 /\ p[1] = text[i]
      BY <2>1
    <2>4. m = i + 2 => Len(p) = 2 /\ p[1] = text[i] /\ p[2] = text[i + 1]
      BY <2>1
    <2>5. m = i + 4 => /\ Len(p) = 4 /\ p[1] = text[i] /\ p[2] = text[i + 1]
                       /\ p[3] = text[i + 2] /\ p[4] = text[i + 3]
      BY <2>1
    <2>6. m \notin {i + 1, i + 2, i + 4} => Len(p) \notin {1, 2, 4}
      BY <2>1
    <2>7. m = i + 1 => Here(m) = IF text[i] = "\\" THEN {} ELSE {Code[text[i]]}
      BY <2>2, <2>3
    <2>8. m = i + 2 => Here(m) = IF text[i] = "\\" /\ text[i + 1] \in DOMAIN Escapes
                                 THEN {Escapes[text[i + 1]]} ELSE {}
      BY <2>2, <2>4
    <2>9. m = i + 4 => Here(m) = IF text[i] = "\\" /\ text[i + 1] = "x" /\ hex
                                 THEN {HexByte(text[i + 2], text[i + 3])} ELSE {}
      BY <2>2, <2>5
    <2>10. QED
      BY <2>2, <2>6, <2>7, <2>8, <2>9
  <1>3. i + 1 # i + 2 /\ i + 1 # i + 4 /\ i + 2 # i + 4
    OBVIOUS
  <1> HIDE DEF Here, hex
  <1>4. CASE text[i] # "\\"
    <2>1. Code[text[i]] \in Char
      BY CommandLineAssumption
    <2>2. Decoded(text, rest, i) = Prepend(Code[text[i]], rest[i + 1])
      BY <1>1, <1>4 DEF Decoded
    <2>3. \A m \in (i + 1)..last : Here(m) = IF m = i + 1 THEN {Code[text[i]]} ELSE {}
      BY <1>2, <1>4
    <2>4. QED
      BY <1>1, <2>1, <2>2, <2>3 DEF OnlyPiece, Here
  <1>5. CASE text[i] = "\\" /\ i = Len(text)
    <2>1. Decoded(text, rest, i) = NoValue
      BY <1>1, <1>5 DEF Decoded
    <2>2. \A m \in (i + 1)..last : m = i + 1
      BY <1>5
    <2>3. \A m \in (i + 1)..last : Here(m) = {}
      BY <1>2, <1>5, <2>2
    <2>4. QED
      BY <2>1, <2>3 DEF Here
  <1>6. CASE text[i] = "\\" /\ i # Len(text) /\ text[i + 1] \in DOMAIN Escapes
    <2>1. Escapes[text[i + 1]] \in Char
      BY <1>6, EscapeFacts
    <2>2. Decoded(text, rest, i) = Prepend(Escapes[text[i + 1]], rest[i + 2])
      BY <1>1, <1>6 DEF Decoded
    <2>3. text[i + 1] # "x"
      BY <1>6 DEF Escapes
    <2>4. \A m \in (i + 1)..last : Here(m) = IF m = i + 2 THEN {Escapes[text[i + 1]]} ELSE {}
      BY <1>2, <1>3, <1>6, <2>3
    <2>5. i + 2 \in (i + 1)..last
      BY <1>6
    <2>6. QED
      BY <2>1, <2>2, <2>4, <2>5 DEF OnlyPiece, Here
  <1>7. CASE /\ text[i] = "\\" /\ i # Len(text) /\ text[i + 1] \notin DOMAIN Escapes
             /\ text[i + 1] = "x" /\ i + 3 <= Len(text) /\ hex
    <2>1. HexByte(text[i + 2], text[i + 3]) \in Char
      BY <1>7, EscapeFacts DEF hex
    <2>2. Decoded(text, rest, i) = Prepend(HexByte(text[i + 2], text[i + 3]), rest[i + 4])
      BY <1>1, <1>7, Zenon DEF Decoded, hex, AfterHex
    <2>3. \A m \in (i + 1)..last :
             Here(m) = IF m = i + 4 THEN {HexByte(text[i + 2], text[i + 3])} ELSE {}
      BY <1>2, <1>3, <1>7
    <2>4. i + 4 \in (i + 1)..last
      BY <1>7
    <2>5. QED
      BY <2>1, <2>2, <2>3, <2>4 DEF OnlyPiece, Here
  <1>8. CASE /\ text[i] = "\\" /\ i # Len(text) /\ text[i + 1] \notin DOMAIN Escapes
             /\ ~(text[i + 1] = "x" /\ i + 3 <= Len(text) /\ hex)
    <2>1. Decoded(text, rest, i) = NoValue
      BY <1>1, <1>8, Zenon DEF Decoded, hex
    <2>2. \A m \in (i + 1)..last : m = i + 4 => i + 3 <= Len(text)
      OBVIOUS
    <2>3. \A m \in (i + 1)..last : Here(m) = {}
      BY <1>2, <1>8, <2>2
    <2>4. QED
      BY <2>1, <2>3 DEF Here
  <1>9. QED
    BY <1>4, <1>5, <1>6, <1>7, <1>8

(* Where a piece ends.                                                     *)
NextStart(text, starts, s) == Min({t \in starts : t > s} \cup {Len(text) + 1})

LEMMA NextStartIs ==
    ASSUME NEW text, Len(text) \in Nat, NEW starts \in SUBSET (1..Len(text)),
           NEW s \in 1..Len(text), NEW m \in (s + 1)..(Len(text) + 1),
           m = Len(text) + 1 \/ m \in starts,
           \A t \in starts : t > s => m <= t
    PROVE  NextStart(text, starts, s) = m
  <1> DEFINE T == {t \in starts : t > s} \cup {Len(text) + 1}
  <1>1. m \in T /\ \A t \in T : m <= t
    OBVIOUS
  <1>2. T \subseteq Int
    <2>1. starts \subseteq Int /\ Len(text) + 1 \in Int
      OBVIOUS
    <2>2. \A x \in T : x \in starts \/ x = Len(text) + 1
      OBVIOUS
    <2> HIDE DEF T
    <2>3. QED
      BY <2>1, <2>2
  <1> HIDE DEF T
  <1>3. \A x \in T : (\A t \in T : x <= t) => x = m
    BY <1>1, <1>2
  <1>4. Min(T) = m
    BY <1>1, <1>3 DEF Min
  <1>5. QED
    BY <1>4 DEF NextStart, T

LEMMA NextStartFacts ==
    ASSUME NEW text, Len(text) \in Nat, NEW starts \in SUBSET (1..Len(text)),
           NEW s \in 1..Len(text)
    PROVE  LET m == NextStart(text, starts, s)
           IN  /\ m \in (s + 1)..(Len(text) + 1)
               /\ m = Len(text) + 1 \/ m \in starts
               /\ \A t \in starts : t > s => m <= t
  <1> DEFINE T == {t \in starts : t > s} \cup {Len(text) + 1}
  <1>1. T \in SUBSET Nat /\ T # {}
    <2>1. starts \subseteq Nat /\ Len(text) + 1 \in Nat
      OBVIOUS
    <2>2. /\ \A x \in T : x \in starts \/ x = Len(text) + 1
          /\ Len(text) + 1 \in T
      OBVIOUS
    <2> HIDE DEF T
    <2>3. QED
      BY <2>1, <2>2
  <1>2. PICK m \in T : \A t \in T : m <= t
    <2> HIDE DEF T
    <2>1. QED
      BY <1>1, LeastElement
  <1>3. /\ m \in (s + 1)..(Len(text) + 1)
        /\ m = Len(text) + 1 \/ m \in starts
        /\ \A t \in starts : t > s => m <= t
    BY <1>2
  <1>4. NextStart(text, starts, s) = m
    BY <1>3, NextStartIs
  <1>5. QED
    BY <1>3, <1>4

LEMMA PieceIs ==
    ASSUME NEW text, NEW starts, NEW s
    PROVE  Piece(text, starts, s) = SubSeq(text, s, NextStart(text, starts, s) - 1)
  BY DEF Piece, NextStart

(* Every way to cut begins with a piece, and goes on with a way to cut the *)
(* rest.                                                                   *)
LEMMA CutsSplit ==
    ASSUME NEW text \in Seq(DOMAIN Code), NEW i \in 1..Len(text), NEW C \in Cuts(text, i)
    PROVE  \E m \in (i + 1)..(Len(text) + 1) : \E S \in Cuts(text, m) :
              C = {i} \cup S /\ Tokens(SubSeq(text, i, m - 1)) # {}
  <1> DEFINE m == NextStart(text, C, i)
             S == C \ {i}
  <1>1. Len(text) \in Nat
    OBVIOUS
  <1>2. /\ C \in SUBSET (i..Len(text)) /\ i \in C
        /\ \A s \in C : Tokens(Piece(text, C, s)) # {}
    BY DEF Cuts
  <1>3. C \in SUBSET (1..Len(text))
    BY <1>1, <1>2
  <1>4. /\ m \in (i + 1)..(Len(text) + 1)
        /\ m = Len(text) + 1 \/ m \in C
        /\ \A t \in C : t > i => m <= t
    BY <1>1, <1>3, NextStartFacts
  <1> HIDE DEF m
  <1>5. S \in SUBSET (m..Len(text))
    BY <1>1, <1>2, <1>4
  <1>6. m <= Len(text) => m \in S
    BY <1>1, <1>4
  <1>7. ASSUME NEW s \in S
        PROVE  Piece(text, S, s) = Piece(text, C, s)
    <2>1. {t \in S : t > s} = {t \in C : t > s}
      BY <1>1, <1>2, <1>5
    <2>2. QED
      BY <2>1 DEF Piece
  <1>8. S \in Cuts(text, m)
    BY <1>2, <1>5, <1>6, <1>7 DEF Cuts
  <1>9. Tokens(SubSeq(text, i, m - 1)) # {}
    BY <1>2, PieceIs DEF m
  <1>10. QED
    BY <1>2, <1>4, <1>8, <1>9

(* A piece before a way to cut the rest, and its byte before those of the  *)
(* rest.                                                                   *)
LEMMA CutsJoin ==
    ASSUME NEW text \in Seq(DOMAIN Code), NEW i \in 1..Len(text),
           NEW m \in (i + 1)..(Len(text) + 1), NEW S \in Cuts(text, m),
           NEW b, Tokens(SubSeq(text, i, m - 1)) = {b}
    PROVE  /\ {i} \cup S \in Cuts(text, i)
           /\ Spelled(text, {i} \cup S) = <<b>> \o Spelled(text, S)
  <1> DEFINE C == {i} \cup S
             n == Cardinality(S)
  <1>1. Len(text) \in Nat
    OBVIOUS
  <1>2. /\ S \in SUBSET (m..Len(text))
        /\ m <= Len(text) => m \in S
        /\ \A s \in S : Tokens(Piece(text, S, s)) # {}
    BY DEF Cuts
  <1>3. /\ \A s \in S : s > i /\ s \in Int /\ s >= m
        /\ i \notin S
        /\ C \in SUBSET (1..Len(text)) /\ C \in SUBSET (i..Len(text))
    BY <1>1, <1>2
  <1>4. Tokens(Piece(text, C, i)) = {b}
    <2>1. m = Len(text) + 1 \/ m \in C
      BY <1>1, <1>2
    <2>2. \A t \in C : t > i => m <= t
      BY <1>3
    <2> HIDE DEF C
    <2>3. NextStart(text, C, i) = m
      BY <1>1, <1>3, <2>1, <2>2, NextStartIs
    <2>4. QED
      BY <2>3, PieceIs
  <1>5. ASSUME NEW s \in S
        PROVE  Piece(text, C, s) = Piece(text, S, s)
    <2>1. {t \in C : t > s} = {t \in S : t > s}
      BY <1>3
    <2>2. QED
      BY <2>1 DEF Piece
  <1>6. C \in Cuts(text, i)
    <2>1. i \in C /\ \A s \in C : s = i \/ s \in S
      OBVIOUS
    <2> HIDE DEF C
    <2>2. \A s \in C : Tokens(Piece(text, C, s)) # {}
      BY <1>2, <1>4, <1>5, <2>1
    <2>3. QED
      BY <1>3, <2>1, <2>2 DEF Cuts
  <1>7. IsFiniteSet(S) /\ n \in Nat /\ Cardinality(C) = n + 1
    <2>1. IsFiniteSet(S)
      <3>1. IsFiniteSet(m..Len(text))
        BY <1>1, FS_Interval
      <3>2. QED
        BY <1>2, <3>1, FS_Subset
    <2>2. Cardinality(S \cup {i}) = n + 1
      BY <1>3, <2>1, FS_AddElement
    <2>3. S \cup {i} = C
      OBVIOUS
    <2>4. QED
      BY <2>1, <2>2, <2>3, FS_CardinalityType
  <1>8. Place(C, i) = 1
    <2>1. {t \in C : t <= i} = {i}
      BY <1>3
    <2>2. QED
      BY <2>1, FS_Singleton DEF Place
  <1>9. ASSUME NEW s \in S
        PROVE  Place(S, s) \in Nat \ {0} /\ Place(C, s) = Place(S, s) + 1
    <2> DEFINE B == {t \in S : t <= s}
    <2>1. B \in SUBSET S /\ s \in B /\ i \notin B
      BY <1>3
    <2>2. {t \in C : t <= s} = B \cup {i}
      BY <1>3
    <2>3. Place(S, s) = Cardinality(B) /\ Place(C, s) = Cardinality(B \cup {i})
      BY <2>2 DEF Place
    <2> HIDE DEF B
    <2>4. IsFiniteSet(B)
      BY <1>7, <2>1, FS_Subset
    <2>5. Cardinality(B) \in Nat /\ Cardinality(B) # 0
      BY <2>1, <2>4, FS_CardinalityType, FS_EmptySet
    <2>6. Cardinality(B \cup {i}) = Cardinality(B) + 1
      BY <2>1, <2>4, FS_AddElement
    <2>7. QED
      BY <2>3, <2>5, <2>6
  <1>10. KthTokens(text, C, 1) = {b}
    <2>1. {s \in C : Place(C, s) = 1} = {i}
      <3>1. i \in C /\ \A s \in C : s = i \/ s \in S
        OBVIOUS
      <3>2. ASSUME NEW s \in S PROVE Place(C, s) # 1
        <4> HIDE DEF C
        <4>1. QED
          BY <1>9
      <3> HIDE DEF C
      <3>3. QED
        BY <1>8, <3>1, <3>2
    <2>2. KthTokens(text, C, 1) = UNION {Tokens(Piece(text, C, s)) : s \in {i}}
      BY <2>1 DEF KthTokens
    <2>3. QED
      BY <1>4, <2>2
  <1>11. ASSUME NEW k \in 1..n
         PROVE  KthTokens(text, C, k + 1) = KthTokens(text, S, k)
    <2>1. {s \in C : Place(C, s) = k + 1} = {s \in S : Place(S, s) = k}
      <3>1. S \subseteq C /\ \A s \in C : s = i \/ s \in S
        OBVIOUS
      <3>2. ASSUME NEW s \in S PROVE Place(C, s) = k + 1 <=> Place(S, s) = k
        <4> HIDE DEF C
        <4>1. QED
          BY <1>7, <1>9
      <3>3. Place(C, i) # k + 1
        BY <1>7, <1>8
      <3> HIDE DEF C
      <3>4. QED
        BY <3>1, <3>2, <3>3
    <2>2. {Tokens(Piece(text, C, s)) : s \in {s \in S : Place(S, s) = k}}
            = {Tokens(Piece(text, S, s)) : s \in {s \in S : Place(S, s) = k}}
      BY <1>5
    <2>3. QED
      BY <2>1, <2>2 DEF KthTokens
  <1> DEFINE said == Spelled(text, S)
             all == Spelled(text, C)
  <1>12. /\ said = [k \in 1..n |-> said[k]]
         /\ \A k \in 1..n : said[k] = CHOOSE byte \in KthTokens(text, S, k) : TRUE
    BY DEF Spelled
  <1>13. /\ all = [k \in 1..(n + 1) |-> all[k]]
         /\ \A k \in 1..(n + 1) : all[k] = CHOOSE byte \in KthTokens(text, C, k) : TRUE
    <2> HIDE DEF C, n
    <2>1. all = [k \in 1..(n + 1) |-> CHOOSE byte \in KthTokens(text, C, k) : TRUE]
      BY <1>7 DEF Spelled
    <2>2. QED
      BY <2>1
  <1> HIDE DEF said, all, C, n
  <1>14. all[1] = b
    <2>1. 1 \in 1..(n + 1)
      BY <1>7
    <2>2. all[1] = CHOOSE byte \in {b} : TRUE
      BY <1>10, <1>13, <2>1
    <2>3. QED
      BY <2>2
  <1>15. \A k \in 1..n : all[k + 1] = said[k]
    <2> SUFFICES ASSUME NEW k \in 1..n PROVE all[k + 1] = said[k]
      OBVIOUS
    <2>1. k + 1 \in 1..(n + 1)
      BY <1>7
    <2>2. all[k + 1] = CHOOSE byte \in KthTokens(text, C, k + 1) : TRUE
      BY <1>13, <2>1
    <2>3. QED
      BY <1>11, <1>12, <2>2
  <1>16. all = <<b>> \o said
    <2> DEFINE V == {all[k] : k \in 1..(n + 1)}
    <2>1. all \in Seq(V) /\ Len(all) = n + 1
      BY <1>7, <1>13
    <2>2. \A k \in 1..n : said[k] \in V
      <3>1. \A k \in 1..n : k + 1 \in 1..(n + 1)
        BY <1>7
      <3>2. QED
        BY <1>15, <3>1
    <2>3. said \in Seq(V) /\ Len(said) = n
      <3> HIDE DEF V
      <3>1. QED
        BY <1>7, <1>12, <2>2
    <2>4. b \in V
      BY <1>7, <1>14
    <2> HIDE DEF V
    <2>5. <<b>> \in Seq(V) /\ Len(<<b>>) = 1 /\ <<b>>[1] = b
      BY <2>4
    <2>6. /\ <<b>> \o said \in Seq(V) /\ Len(<<b>> \o said) = n + 1
          /\ (<<b>> \o said)[1] = b
          /\ \A k \in 1..n : (<<b>> \o said)[k + 1] = said[k]
      BY <1>7, <2>3, <2>5
    <2>7. \A k \in 1..(n + 1) : all[k] = (<<b>> \o said)[k]
      <3>1. \A k \in 1..(n + 1) : k = 1 \/ (k - 1 \in 1..n /\ (k - 1) + 1 = k)
        BY <1>7
      <3>2. QED
        BY <1>14, <1>15, <2>6, <3>1
    <2>8. QED
      BY <2>1, <2>6, <2>7
  <1>17. QED
    BY <1>6, <1>16 DEF said, all, C

LEMMA CutsEnd ==
    ASSUME NEW text, Len(text) \in Nat
    PROVE  Cuts(text, Len(text) + 1) = {{}} /\ Spelled(text, {}) = << >>
  <1>1. (Len(text) + 1)..Len(text) = {}
    OBVIOUS
  <1>2. \A S : S \in Cuts(text, Len(text) + 1) <=> S = {}
    BY <1>1 DEF Cuts
  <1>3. Cardinality({}) = 0
    BY FS_EmptySet
  <1>4. 1..0 = {}
    OBVIOUS
  <1>5. Spelled(text, {}) = << >>
    BY <1>3, <1>4 DEF Spelled
  <1>6. QED
    BY <1>2, <1>5

(* What is decoded from i on is what the rest of the argument means.       *)
MeansFrom(text, i, bytes) ==
    IF bytes = NoValue THEN Cuts(text, i) = {}
    ELSE \E S : Cuts(text, i) = {S} /\ Spelled(text, S) = bytes

LEMMA MeansStep ==
    ASSUME NEW text \in Seq(DOMAIN Code), NEW i \in 1..(Len(text) + 1), NEW rest,
           \A j \in (i + 1)..(Len(text) + 1) : rest[j] \in Bytes /\ MeansFrom(text, j, rest[j])
    PROVE  Decoded(text, rest, i) \in Bytes /\ MeansFrom(text, i, Decoded(text, rest, i))
  <1> DEFINE now == Decoded(text, rest, i)
  <1>1. Len(text) \in Nat
    OBVIOUS
  <1>2. now \in Bytes
    BY DecodedBytes
  <1>3. NoValue \notin Seq(Char)
    BY CommandLineAssumption
  <1>4. CASE i = Len(text) + 1
    <2>1. now = << >>
      BY <1>1, <1>4 DEF Decoded
    <2>2. << >> # NoValue
      <3>1. << >> \in Seq(Char)
        OBVIOUS
      <3>2. QED
        BY <1>3, <3>1
    <2>3. QED
      BY <1>1, <1>2, <1>4, <2>1, <2>2, CutsEnd DEF MeansFrom
  <1>5. CASE i # Len(text) + 1
    <2>1. i \in 1..Len(text)
      BY <1>1, <1>5
    <2>2. CASE /\ now = NoValue
               /\ \A m \in (i + 1)..(Len(text) + 1) : Tokens(SubSeq(text, i, m - 1)) = {}
      <3>1. Cuts(text, i) = {}
        BY <2>1, <2>2, CutsSplit
      <3>2. QED
        BY <1>2, <2>2, <3>1 DEF MeansFrom
    <2>3. CASE \E n \in (i + 1)..(Len(text) + 1), b \in Char :
                  now = Prepend(b, rest[n]) /\ OnlyPiece(text, i, n, b)
      <3>1. PICK n \in (i + 1)..(Len(text) + 1), b \in Char :
                now = Prepend(b, rest[n]) /\ OnlyPiece(text, i, n, b)
        BY <2>3
      <3>2. rest[n] \in Bytes /\ MeansFrom(text, n, rest[n])
        OBVIOUS
      <3>3. Tokens(SubSeq(text, i, n - 1)) = {b}
        BY <3>1 DEF OnlyPiece
      <3>4. ASSUME NEW C \in Cuts(text, i)
            PROVE  \E S \in Cuts(text, n) : C = {i} \cup S
        <4>1. PICK m \in (i + 1)..(Len(text) + 1) : \E S \in Cuts(text, m) :
                 C = {i} \cup S /\ Tokens(SubSeq(text, i, m - 1)) # {}
          BY <2>1, CutsSplit
        <4>2. m = n
          BY <3>1, <4>1 DEF OnlyPiece
        <4>3. QED
          BY <4>1, <4>2
      <3>5. CASE rest[n] = NoValue
        <4>1. now = NoValue
          BY <3>1, <3>5 DEF Prepend
        <4>2. Cuts(text, n) = {}
          BY <3>2, <3>5 DEF MeansFrom
        <4>3. Cuts(text, i) = {}
          BY <3>4, <4>2
        <4>4. QED
          BY <1>2, <4>1, <4>3 DEF MeansFrom
      <3>6. CASE rest[n] # NoValue
        <4>1. now = <<b>> \o rest[n]
          BY <3>1, <3>6 DEF Prepend
        <4>2. rest[n] \in Seq(Char)
          BY <3>2, <3>6 DEF Bytes
        <4>3. now # NoValue
          <5>1. <<b>> \o rest[n] \in Seq(Char)
            BY <4>2
          <5>2. QED
            BY <1>3, <4>1, <5>1
        <4>4. PICK S : Cuts(text, n) = {S} /\ Spelled(text, S) = rest[n]
          BY <3>2, <3>6 DEF MeansFrom
        <4>5. S \in Cuts(text, n)
          BY <4>4
        <4>6. /\ {i} \cup S \in Cuts(text, i)
              /\ Spelled(text, {i} \cup S) = <<b>> \o Spelled(text, S)
          <5>1. n \in (i + 1)..(Len(text) + 1)
            OBVIOUS
          <5>2. \A T \in Cuts(text, n) : \A c : Tokens(SubSeq(text, i, n - 1)) = {c} =>
                    /\ {i} \cup T \in Cuts(text, i)
                    /\ Spelled(text, {i} \cup T) = <<c>> \o Spelled(text, T)
            BY <2>1, <5>1, CutsJoin
          <5>3. QED
            BY <3>3, <4>5, <5>2
        <4>7. Cuts(text, i) = {{i} \cup S}
          BY <3>4, <4>4, <4>6
        <4>8. Spelled(text, {i} \cup S) = now
          BY <4>1, <4>4, <4>6
        <4>9. QED
          BY <1>2, <4>3, <4>7, <4>8 DEF MeansFrom
      <3>7. QED
        BY <3>5, <3>6
    <2>4. QED
      BY <2>1, <2>2, <2>3, DecodedStep
  <1>6. QED
    BY <1>4, <1>5

LEMMA DecodeFacts ==
    ASSUME NEW text \in Seq(DOMAIN Code)
    PROVE  /\ decode_input_escapes(text) \in Bytes
           /\ MeansFrom(text, 1, decode_input_escapes(text))
  <1> DEFINE rest == CHOOSE f : IsDecoded(text, f)
             Right(k) == rest[k] \in Bytes /\ MeansFrom(text, k, rest[k])
  <1>1. decode_input_escapes(text) = rest[1]
    BY DEF decode_input_escapes, IsDecoded, Decoded
  <1>2. IsDecoded(text, rest)
    <2>1. \E f : IsDecoded(text, f)
      BY DecodedExists
    <2>2. QED
      BY <2>1
  <1> HIDE DEF rest
  <1>3. \A k \in 1..(Len(text) + 1) : rest[k] = Decoded(text, rest, k)
    BY <1>2 DEF IsDecoded
  <1> DEFINE n == Len(text) + 1
             T == {e \in 0..Len(text) : ~Right(n - e)}
  <1>4. T = {}
    <2> SUFFICES ASSUME T # {} PROVE FALSE
      OBVIOUS
    <2>1. PICK e \in T : \A d \in T : e <= d
      <3>1. T \in SUBSET Nat /\ T # {}
        OBVIOUS
      <3> HIDE DEF T
      <3>2. QED
        BY <3>1, LeastElement
    <2>2. e \in 0..Len(text) /\ ~Right(n - e)
      OBVIOUS
    <2>3. \A d \in 0..Len(text) : d < e => Right(n - d)
      <3>1. \A d \in 0..Len(text) : d < e => d \notin T
        <4> HIDE DEF T
        <4>1. QED
          BY <2>1, <2>2
      <3> HIDE DEF Right
      <3>2. QED
        BY <3>1
    <2>4. n - e \in 1..(Len(text) + 1)
      BY <2>2
    <2>5. ASSUME NEW j \in ((n - e) + 1)..(Len(text) + 1)
          PROVE  Right(j)
      <3> HIDE DEF Right
      <3>1. n - j \in 0..Len(text) /\ n - j < e /\ n - (n - j) = j
        BY <2>2
      <3>2. QED
        BY <2>3, <3>1
    <2>6. /\ Decoded(text, rest, n - e) \in Bytes
          /\ MeansFrom(text, n - e, Decoded(text, rest, n - e))
      BY <2>4, <2>5, MeansStep
    <2>7. QED
      BY <1>3, <2>2, <2>4, <2>6
  <1>5. Len(text) \in 0..Len(text) /\ n - Len(text) = 1
    OBVIOUS
  <1>6. Right(1)
    <2> HIDE DEF Right
    <2>1. QED
      BY <1>4, <1>5
  <1>7. QED
    BY <1>1, <1>6

(* The decoder is right: it throws iff the argument means nothing, and     *)
(* otherwise returns the only bytes that it means.                         *)
LEMMA DenotesFacts ==
    ASSUME NEW text \in Seq(DOMAIN Code)
    PROVE  LET bytes == decode_input_escapes(text)
           IN  IF bytes = NoValue THEN Denotes(text) = {}
               ELSE bytes \in Seq(Char) /\ Denotes(text) = {bytes}
  <1> DEFINE bytes == decode_input_escapes(text)
  <1>1. bytes \in Bytes /\ MeansFrom(text, 1, bytes)
    BY DecodeFacts
  <1>2. Denotes(text) = {Spelled(text, S) : S \in Cuts(text, 1)}
    BY DEF Denotes
  <1> HIDE DEF bytes
  <1>3. CASE bytes = NoValue
    <2>1. Cuts(text, 1) = {}
      BY <1>1, <1>3 DEF MeansFrom
    <2>2. QED
      BY <1>2, <1>3, <2>1 DEF bytes
  <1>4. CASE bytes # NoValue
    <2>1. PICK S : Cuts(text, 1) = {S} /\ Spelled(text, S) = bytes
      BY <1>1, <1>4 DEF MeansFrom
    <2>2. Denotes(text) = {bytes}
      BY <1>2, <2>1
    <2>3. bytes \in Seq(Char)
      BY <1>1, <1>4 DEF Bytes
    <2>4. QED
      BY <1>4, <2>2, <2>3 DEF bytes
  <1>5. QED
    BY <1>3, <1>4

-----------------------------------------------------------------------------
(* The invariant of the reads: the budget is what the last setter call     *)
(* allowed minus the reads since then, and no less than zero.              *)
StreamInv ==
    /\ IsIOModel(io)
    /\ limit \in Nat \cup {NoValue}
    /\ reads \in Seq(Seq(Char))
    /\ io.chars_until_eof =
          IF limit = NoValue THEN NoValue
          ELSE IF Len(reads) >= limit THEN 0 ELSE limit - Len(reads)
    /\ has_input(io) => limit = Len(io.input)
    /\ ReadsInOrder

InputInv ==
    /\ StreamInv
    /\ status = "typed" => options \in Arguments

LEMMA DefaultModel == IsIOModel(DefaultIOModel) /\ ~has_input(DefaultIOModel)
  <1>1. 0 \in Char
    BY MaxCharAssumption DEF Char
  <1>2. QED
    BY <1>1 DEF DefaultIOModel, IsIOModel, has_input

(* The setters.                                                            *)
LEMMA SetterFacts ==
    ASSUME NEW model, IsIOModel(model)
    PROVE  /\ \A char \in Char :
                 /\ IsIOModel(set_eof_char(model, char))
                 /\ has_input(set_eof_char(model, char)) <=> has_input(model)
                 /\ set_eof_char(model, char).input = model.input
                 /\ set_eof_char(model, char).chars_until_eof = model.chars_until_eof
           /\ \A keep \in BOOLEAN :
                 /\ IsIOModel(set_no_change_on_eof(model, keep))
                 /\ has_input(set_no_change_on_eof(model, keep)) <=> has_input(model)
                 /\ set_no_change_on_eof(model, keep).input = model.input
                 /\ set_no_change_on_eof(model, keep).chars_until_eof = model.chars_until_eof
           /\ ~has_input(model) =>
                 \A k \in Nat :
                    /\ IsIOModel(set_chars_until_eof(model, k))
                    /\ ~has_input(set_chars_until_eof(model, k))
           /\ \A bytes \in Seq(Char) :
                 /\ IsIOModel(set_input(model, bytes))
                 /\ set_input(model, bytes).input = bytes
                 /\ set_input(model, bytes).chars_until_eof = Len(bytes)
  <1>1. /\ model \in [chars_until_eof : Nat \cup {NoValue}, no_change_on_eof : BOOLEAN,
                      eof_char : Char, input : Seq(Char) \cup {NoValue}]
        /\ has_input(model) => model.chars_until_eof \in 0..Len(model.input)
    BY DEF IsIOModel
  <1>2. ASSUME NEW char \in Char
        PROVE  /\ IsIOModel(set_eof_char(model, char))
               /\ has_input(set_eof_char(model, char)) <=> has_input(model)
               /\ set_eof_char(model, char).input = model.input
               /\ set_eof_char(model, char).chars_until_eof = model.chars_until_eof
    BY <1>1 DEF set_eof_char, IsIOModel, has_input
  <1>3. ASSUME NEW keep \in BOOLEAN
        PROVE  /\ IsIOModel(set_no_change_on_eof(model, keep))
               /\ has_input(set_no_change_on_eof(model, keep)) <=> has_input(model)
               /\ set_no_change_on_eof(model, keep).input = model.input
               /\ set_no_change_on_eof(model, keep).chars_until_eof = model.chars_until_eof
    BY <1>1 DEF set_no_change_on_eof, IsIOModel, has_input
  <1>4. ASSUME ~has_input(model), NEW k \in Nat
        PROVE  /\ IsIOModel(set_chars_until_eof(model, k))
               /\ ~has_input(set_chars_until_eof(model, k))
    BY <1>1, <1>4 DEF set_chars_until_eof, IsIOModel, has_input
  <1>5. ASSUME NEW bytes \in Seq(Char)
        PROVE  /\ IsIOModel(set_input(model, bytes))
               /\ set_input(model, bytes).input = bytes
               /\ set_input(model, bytes).chars_until_eof = Len(bytes)
    <2>1. Len(bytes) \in Nat /\ Len(bytes) \in 0..Len(bytes)
      OBVIOUS
    <2>2. QED
      BY <1>1, <2>1 DEF set_input, IsIOModel, has_input
  <1>6. QED
    BY <1>2, <1>3, <1>4, <1>5

(* A setter call starts the count of the reads again.                      *)
LEMMA ConfigureKeeps ==
    ASSUME NEW model, IsIOModel(model),
           has_input(model) => model.chars_until_eof = Len(model.input),
           Configure(model)
    PROVE  StreamInv'
  <1>1. io' = model /\ limit' = model.chars_until_eof /\ reads' = << >>
    BY DEF Configure
  <1>2. limit' \in Nat \cup {NoValue} /\ reads' \in Seq(Seq(Char)) /\ Len(reads') = 0
    BY <1>1, ModelFacts
  <1>3. io'.chars_until_eof =
           IF limit' = NoValue THEN NoValue
           ELSE IF Len(reads') >= limit' THEN 0 ELSE limit' - Len(reads')
    BY <1>1, <1>2
  <1>4. (IsIOModel(io))' /\ (has_input(io) => limit = Len(io.input))'
    BY <1>1
  <1>5. ReadsInOrder'
    BY <1>2 DEF ReadsInOrder
  <1>6. QED
    BY <1>2, <1>3, <1>4, <1>5 DEF StreamInv

(* A read gets what is due, and counts.                                    *)
LEMMA ReadKeeps ==
    ASSUME StreamInv, NEW result, DueNow(io, result),
           io' = Spent(io), reads' = Append(reads, result), limit' = limit
    PROVE  StreamInv'
  <1>1. /\ IsIOModel(io) /\ limit \in Nat \cup {NoValue} /\ reads \in Seq(Seq(Char))
        /\ io.chars_until_eof =
              IF limit = NoValue THEN NoValue
              ELSE IF Len(reads) >= limit THEN 0 ELSE limit - Len(reads)
        /\ has_input(io) => limit = Len(io.input)
        /\ ReadsInOrder
    BY DEF StreamInv
  <1>2. /\ IsIOModel(io') /\ (has_input(io') <=> has_input(io)) /\ io'.input = io.input
        /\ AtEof(io') = AtEof(io)
    BY <1>1, SpentFacts
  <1> DEFINE n == Len(reads) + 1
  <1>3. n \in Nat \ {0} /\ Len(reads) \in Nat
    BY <1>1
  <1>4. limit # NoValue <=> limit \in Nat
    BY <1>1, NoValueAssumption
  <1>5. result \in Seq(Char)
    <2>1. CASE io.chars_until_eof = 0
      <3>1. result = AtEof(io)
        BY <2>1 DEF DueNow
      <3>2. io.eof_char \in Char
        BY <1>1 DEF IsIOModel
      <3>3. QED
        BY <3>1, <3>2 DEF AtEof
    <2>2. CASE io.chars_until_eof # 0 /\ has_input(io)
      <3>1. result = <<io.input[Len(io.input) - io.chars_until_eof + 1]>>
        BY <2>2 DEF DueNow
      <3>2. io.input \in Seq(Char) /\ io.chars_until_eof \in 1..Len(io.input)
        BY <1>1, <2>2, ModelFacts
      <3>3. Len(io.input) - io.chars_until_eof + 1 \in 1..Len(io.input)
        BY <3>2
      <3>4. io.input[Len(io.input) - io.chars_until_eof + 1] \in Char
        BY <3>2, <3>3
      <3>5. QED
        BY <3>1, <3>4
    <2>3. CASE io.chars_until_eof # 0 /\ ~has_input(io)
      <3>1. result = AllPossibleChars \/ \E char \in Char : result = <<char>>
        BY <2>3 DEF DueNow
      <3>2. AllPossibleChars \in Seq(Char)
        BY MaxCharAssumption DEF AllPossibleChars, Char
      <3>3. \A char \in Char : <<char>> \in Seq(Char)
        OBVIOUS
      <3>4. QED
        BY ONLY <3>1, <3>2, <3>3
    <2>4. QED
      BY <2>1, <2>2, <2>3
  <1>6. /\ reads' \in Seq(Seq(Char)) /\ Len(reads') = n
        /\ reads'[n] = result
        /\ \A k \in 1..Len(reads) : reads'[k] = reads[k]
    BY <1>1, <1>5
  <1>7. io'.chars_until_eof =
           IF limit = NoValue THEN NoValue ELSE IF n >= limit THEN 0 ELSE limit - n
    <2>1. io'.chars_until_eof =
             IF io.chars_until_eof # NoValue /\ io.chars_until_eof > 0
             THEN io.chars_until_eof - 1 ELSE io.chars_until_eof
      BY <1>1, ModelFacts DEF Spent
    <2>2. io.chars_until_eof = NoValue <=> io.chars_until_eof \notin Nat
      BY <1>1, ModelFacts
    <2>3. CASE limit = NoValue
      BY <1>1, <2>1, <2>3
    <2>4. CASE limit # NoValue
      BY <1>1, <1>3, <1>4, <2>1, <2>2, <2>4
    <2>5. QED
      BY <2>3, <2>4
  <1>8. IF limit # NoValue /\ n > limit THEN result = AtEof(io)
        ELSE IF has_input(io) THEN result = <<io.input[n]>>
        ELSE result = AllPossibleChars \/ Len(result) = 1
    <2>1. io.chars_until_eof = 0 <=> limit # NoValue /\ n > limit
      <3>1. NoValue # 0
        BY NoValueAssumption
      <3>2. QED
        BY <1>1, <1>3, <1>4, <3>1
    <2>2. CASE limit # NoValue /\ n > limit
      BY <2>1, <2>2 DEF DueNow
    <2>3. CASE ~(limit # NoValue /\ n > limit) /\ has_input(io)
      <3>1. result = <<io.input[Len(io.input) - io.chars_until_eof + 1]>>
        BY <2>1, <2>3 DEF DueNow
      <3>2. limit = Len(io.input) /\ Len(io.input) \in Nat
        BY <1>1, <2>3, ModelFacts
      <3>3. Len(io.input) - io.chars_until_eof + 1 = n
        BY <1>1, <1>3, <1>4, <2>3, <3>2
      <3>4. QED
        BY <2>3, <3>1, <3>3
    <2>4. CASE ~(limit # NoValue /\ n > limit) /\ ~has_input(io)
      <3>1. result = AllPossibleChars \/ \E char \in Char : result = <<char>>
        BY <2>1, <2>4 DEF DueNow
      <3>2. QED
        BY <2>4, <3>1
    <2>5. QED
      BY <2>2, <2>3, <2>4
  <1> HIDE DEF n
  <1>9. ReadsInOrder'
    <2> SUFFICES ASSUME NEW k \in 1..Len(reads')
                 PROVE  IF limit' # NoValue /\ k > limit' THEN reads'[k] = AtEof(io')
                        ELSE IF has_input(io') THEN reads'[k] = <<io'.input[k]>>
                        ELSE reads'[k] = AllPossibleChars \/ Len(reads'[k]) = 1
      BY DEF ReadsInOrder
    <2>1. CASE k = n
      BY <1>2, <1>6, <1>8, <2>1
    <2>2. CASE k # n
      <3>1. k \in 1..Len(reads) /\ reads'[k] = reads[k]
        BY <1>3, <1>6, <2>2 DEF n
      <3>2. IF limit # NoValue /\ k > limit THEN reads[k] = AtEof(io)
            ELSE IF has_input(io) THEN reads[k] = <<io.input[k]>>
            ELSE reads[k] = AllPossibleChars \/ Len(reads[k]) = 1
        BY <1>1, <3>1 DEF ReadsInOrder
      <3>3. QED
        BY <1>2, <3>1, <3>2
    <2>3. QED
      BY <2>1, <2>2
  <1>10. QED
    BY <1>1, <1>2, <1>6, <1>7, <1>9 DEF StreamInv

LEMMA ReadsKeep ==
    ASSUME StreamInv, ReadNextChar \/ ReadPossibleChars
    PROVE  StreamInv' /\ io' = Spent(io) /\ limit' = limit
  <1>1. IsIOModel(io)
    BY DEF StreamInv
  <1>2. CASE ReadNextChar
    <2>1. PICK read \in read_next_char(io, Char) :
             io' = read.io /\ reads' = Append(reads, Offer(io, read.result))
      BY <1>2 DEF ReadNextChar
    <2>2. limit' = limit
      BY <1>2 DEF ReadNextChar
    <2>3. read.io = Spent(io)
      <3>1. read.io \in {r.io : r \in read_next_char(io, Char)}
        BY <2>1
      <3>2. QED
        BY <1>1, <3>1, NextCharFacts
    <2>4. DueNow(io, Offer(io, read.result))
      <3> DEFINE offer == Offer(io, read.result)
      <3>1. offer \in {Offer(io, r.result) : r \in read_next_char(io, Char)}
        BY <2>1
      <3> HIDE DEF offer
      <3>2. offer \in IF io.chars_until_eof = 0 THEN {AtEof(io)}
                      ELSE IF has_input(io)
                      THEN {<<io.input[Len(io.input) - io.chars_until_eof + 1]>>}
                      ELSE {<<char>> : char \in Char}
        BY <1>1, <3>1, NextCharFacts
      <3>3. DueNow(io, offer)
        BY <3>2 DEF DueNow
      <3>4. QED
        BY <3>3 DEF offer
    <2>5. QED
      BY <2>1, <2>2, <2>3, <2>4, ReadKeeps
  <1>3. CASE ReadPossibleChars
    <2>1. /\ io' = read_possible_chars(io).io
          /\ reads' = Append(reads, read_possible_chars(io).chars)
          /\ limit' = limit
      BY <1>3 DEF ReadPossibleChars
    <2>2. /\ read_possible_chars(io).io = Spent(io)
          /\ DueNow(io, read_possible_chars(io).chars)
      BY <1>1, PossibleFacts
    <2>3. QED
      BY <2>1, <2>2, ReadKeeps
  <1>4. QED
    BY <1>2, <1>3

(* The input model that the options make.                                  *)
LEMMA MadeModel ==
    ASSUME options \in Arguments, IOOptionsValid
    PROVE  /\ IsIOModel(make_io_model)
           /\ has_input(make_io_model) =>
                 make_io_model.chars_until_eof = Len(make_io_model.input)
  <1> DEFINE Limited == IF Given("max_stdin_length")
                        THEN set_chars_until_eof(DefaultIOModel, options.max_stdin_length)
                        ELSE DefaultIOModel
             Pinned == IF Given("input")
                       THEN set_input(Limited, decode_input_escapes(options.input)) ELSE Limited
             Ended == IF Given("eof_char") THEN set_eof_char(Pinned, options.eof_char) ELSE Pinned
             Fine(model) ==
                IsIOModel(model) /\ (has_input(model) => model.chars_until_eof = Len(model.input))
  <1>1. /\ options.input # NoValue => options.input \in Seq(DOMAIN Code)
        /\ options.max_stdin_length \in Nat \cup {NoValue}
        /\ options.eof_char \in Char \cup {NoValue}
        /\ options.no_change_on_eof \in BOOLEAN
    BY CommandLineAssumption
  <1>2. IsIOModel(Limited) /\ ~has_input(Limited)
    <2>1. CASE Given("max_stdin_length")
      <3>1. options.max_stdin_length \in Nat
        BY <1>1, <2>1 DEF Given
      <3>2. QED
        BY <2>1, <3>1, DefaultModel, SetterFacts
    <2>2. CASE ~Given("max_stdin_length")
      BY <2>2, DefaultModel
    <2>3. QED
      BY <2>1, <2>2
  <1>3. Fine(Pinned)
    <2> HIDE DEF Limited
    <2>1. CASE Given("input")
      <3>1. options.input \in Seq(DOMAIN Code)
        BY <1>1, <2>1 DEF Given
      <3>2. decode_input_escapes(options.input) # NoValue
        BY <2>1 DEF IOOptionsValid
      <3>3. decode_input_escapes(options.input) \in Seq(Char)
        BY <3>1, <3>2, DecodeFacts DEF Bytes
      <3>4. QED
        BY <1>2, <2>1, <3>3, SetterFacts
    <2>2. CASE ~Given("input")
      BY <1>2, <2>2
    <2>3. QED
      BY <2>1, <2>2
  <1>4. Fine(Ended)
    <2> HIDE DEF Pinned
    <2>1. CASE Given("eof_char")
      <3>1. options.eof_char \in Char
        BY <1>1, <2>1 DEF Given
      <3>2. QED
        BY <1>3, <2>1, <3>1, SetterFacts
    <2>2. CASE ~Given("eof_char")
      BY <1>3, <2>2
    <2>3. QED
      BY <2>1, <2>2
  <1>5. make_io_model =
           IF options.no_change_on_eof THEN set_no_change_on_eof(Ended, TRUE) ELSE Ended
    BY DEF make_io_model
  <1> HIDE DEF Ended
  <1>6. Fine(make_io_model)
    <2>1. CASE options.no_change_on_eof
      BY <1>4, <1>5, <2>1, SetterFacts
    <2>2. CASE ~options.no_change_on_eof
      BY <1>4, <1>5, <2>2
    <2>3. QED
      BY <2>1, <2>2
  <1>7. QED
    BY <1>6

LEMMA InputStep == InputInv /\ [CommandNext]_<<stream, command>> => InputInv'
  <1> SUFFICES ASSUME InputInv, [CommandNext]_<<stream, command>> PROVE InputInv'
    OBVIOUS
  <1>1. StreamInv /\ (status = "typed" => options \in Arguments)
    BY DEF InputInv
  <1>2. IsIOModel(io) /\ (has_input(io) => limit = Len(io.input))
    BY <1>1 DEF StreamInv
  <1>3. CASE Reject
    <2>1. UNCHANGED stream /\ status' = "rejected"
      BY <1>3 DEF Reject
    <2>2. StreamInv'
      BY <1>1, <2>1 DEF stream, StreamInv, ReadsInOrder
    <2>3. QED
      BY <2>1, <2>2 DEF InputInv
  <1>4. CASE Build
    <2>1. IOOptionsValid /\ Configure(make_io_model) /\ status = "typed" /\ status' = "built"
      BY <1>4 DEF Build
    <2>2. StreamInv'
      BY <1>1, <2>1, MadeModel, ConfigureKeeps
    <2>3. QED
      BY <2>1, <2>2 DEF InputInv
  <1>5. CASE CallSetter
    <2>1. status = "library" /\ UNCHANGED command
      BY <1>5 DEF CallSetter
    <2>2. CASE SetCharsUntilEof
      <3>1. PICK n \in Budgets : Configure(set_chars_until_eof(io, n))
        BY <2>2 DEF SetCharsUntilEof
      <3>2. ~has_input(io) /\ n \in Nat
        BY <2>2, <3>1, StreamAssumption DEF SetCharsUntilEof
      <3>3. IsIOModel(set_chars_until_eof(io, n)) /\ ~has_input(set_chars_until_eof(io, n))
        BY <1>2, <3>2, SetterFacts
      <3>4. StreamInv'
        BY <3>1, <3>3, ConfigureKeeps
      <3>5. QED
        BY <2>1, <3>4 DEF InputInv, command
    <2>3. CASE SetInput
      <3>1. PICK bytes \in Inputs : Configure(set_input(io, bytes))
        BY <2>3 DEF SetInput
      <3>2. bytes \in Seq(Char)
        BY <3>1, StreamAssumption
      <3>3. /\ IsIOModel(set_input(io, bytes))
            /\ set_input(io, bytes).chars_until_eof = Len(set_input(io, bytes).input)
        BY <1>2, <3>2, SetterFacts
      <3>4. StreamInv'
        BY <3>1, <3>3, ConfigureKeeps
      <3>5. QED
        BY <2>1, <3>4 DEF InputInv, command
    <2>4. QED
      BY <1>5, <2>2, <2>3 DEF CallSetter
  <1>6. CASE Read
    <2>1. (ReadNextChar \/ ReadPossibleChars) /\ UNCHANGED command
      BY <1>6 DEF Read
    <2>2. StreamInv'
      BY <1>1, <2>1, ReadsKeep
    <2>3. QED
      BY <1>1, <2>1, <2>2 DEF InputInv, command
  <1>7. CASE UNCHANGED <<stream, command>>
    BY <1>1, <1>7 DEF stream, command, InputInv, StreamInv, ReadsInOrder
  <1>8. QED
    BY <1>3, <1>4, <1>5, <1>6, <1>7 DEF CommandNext

LEMMA InputInit == TypedInit \/ LibraryInit => InputInv
  <1> SUFFICES ASSUME TypedInit \/ LibraryInit PROVE InputInv
    OBVIOUS
  <1>1. /\ IsIOModel(io) /\ ~has_input(io) /\ io.chars_until_eof = NoValue
        /\ limit = NoValue /\ reads = << >>
    <2>1. DefaultIOModel.chars_until_eof = NoValue
      BY DEF DefaultIOModel
    <2>2. CASE TypedInit
      BY <2>1, <2>2, DefaultModel DEF TypedInit
    <2>3. CASE LibraryInit
      <3>1. limit = NoValue /\ reads = << >>
        BY <2>3 DEF LibraryInit, StreamInit
      <3>2. PICK char \in Char, keep \in BOOLEAN :
               io = set_no_change_on_eof(set_eof_char(DefaultIOModel, char), keep)
        BY <2>3 DEF LibraryInit, StreamInit
      <3>3. QED
        BY <2>1, <3>1, <3>2, DefaultModel, SetterFacts
    <2>4. QED
      BY <2>2, <2>3
  <1>2. StreamInv
    <2>1. reads \in Seq(Seq(Char)) /\ Len(reads) = 0
      BY <1>1
    <2>2. ReadsInOrder
      BY <2>1 DEF ReadsInOrder
    <2>3. QED
      BY <1>1, <2>1, <2>2 DEF StreamInv
  <1>3. status = "typed" => options \in Arguments
    BY DEF TypedInit, LibraryInit
  <1>4. QED
    BY <1>2, <1>3 DEF InputInv

(* However the setters and the two readers are mixed, and whatever the     *)
(* options and the length of the input: the k-th read gets the k-th byte,  *)
(* or what the budget and the end of the input leave.                      *)
THEOREM InOrder == CommandSpec => []ReadsInOrder
  <1>1. InputInv => ReadsInOrder
    BY DEF InputInv, StreamInv
  <1>2. QED
    BY <1>1, InputInit, InputStep, PTL DEF CommandSpec

(* In every state of the input model the pure alphabet of the state graph  *)
(* is what both stateful readers deliver, with the same budget left.       *)
THEOREM GraphReads == CommandSpec => []GraphAgrees
  <1>1. InputInv => GraphAgrees
    BY ModelAgrees DEF InputInv, StreamInv
  <1>2. QED
    BY <1>1, InputInit, InputStep, PTL DEF CommandSpec

-----------------------------------------------------------------------------
(* What a setter sets, and what it leaves alone.                           *)
LEMMA SetterFields ==
    ASSUME NEW model, IsIOModel(model)
    PROVE  /\ \A char \in Char :
                 /\ set_eof_char(model, char).eof_char = char
                 /\ set_eof_char(model, char).no_change_on_eof = model.no_change_on_eof
           /\ \A keep \in BOOLEAN :
                 /\ set_no_change_on_eof(model, keep).no_change_on_eof = keep
                 /\ set_no_change_on_eof(model, keep).eof_char = model.eof_char
           /\ \A bytes :
                 /\ set_input(model, bytes).eof_char = model.eof_char
                 /\ set_input(model, bytes).no_change_on_eof = model.no_change_on_eof
           /\ \A n :
                 /\ set_chars_until_eof(model, n).chars_until_eof = n
                 /\ set_chars_until_eof(model, n).eof_char = model.eof_char
                 /\ set_chars_until_eof(model, n).no_change_on_eof = model.no_change_on_eof
  <1>1. model \in [chars_until_eof : Nat \cup {NoValue}, no_change_on_eof : BOOLEAN,
                   eof_char : Char, input : Seq(Char) \cup {NoValue}]
    BY DEF IsIOModel
  <1>2. \A char \in Char :
           /\ set_eof_char(model, char).eof_char = char
           /\ set_eof_char(model, char).no_change_on_eof = model.no_change_on_eof
    BY <1>1 DEF set_eof_char
  <1>3. \A keep \in BOOLEAN :
           /\ set_no_change_on_eof(model, keep).no_change_on_eof = keep
           /\ set_no_change_on_eof(model, keep).eof_char = model.eof_char
    BY <1>1 DEF set_no_change_on_eof
  <1>4. \A bytes :
           /\ set_input(model, bytes).eof_char = model.eof_char
           /\ set_input(model, bytes).no_change_on_eof = model.no_change_on_eof
    BY <1>1 DEF set_input
  <1>5. \A n :
           /\ set_chars_until_eof(model, n).chars_until_eof = n
           /\ set_chars_until_eof(model, n).eof_char = model.eof_char
           /\ set_chars_until_eof(model, n).no_change_on_eof = model.no_change_on_eof
    BY <1>1 DEF set_chars_until_eof
  <1>6. QED
    BY <1>2, <1>3, <1>4, <1>5

(* The models that the options make are those that were typed.             *)
TypedEnd ==
    IF options.no_change_on_eof THEN << >>
    ELSE <<IF Given("eof_char") THEN options.eof_char ELSE 0>>

IsTyped(model, budget) ==
    /\ IF Given("input") THEN model.input = decode_input_escapes(options.input)
       ELSE ~has_input(model) /\ budget = options.max_stdin_length
    /\ AtEof(model) = TypedEnd

OptionTypes ==
    /\ options.input # NoValue => options.input \in Seq(DOMAIN Code)
    /\ options.memory_size \in Nat \cup {NoValue}
    /\ options.max_stdin_length \in Nat \cup {NoValue}
    /\ options.eof_char \in Char \cup {NoValue}
    /\ options.no_change_on_eof \in BOOLEAN

LEMMA MadeAsTyped ==
    ASSUME options \in Arguments, IOOptionsValid
    PROVE  IsTyped(make_io_model, make_io_model.chars_until_eof)
  <1> DEFINE Limited == IF Given("max_stdin_length")
                        THEN set_chars_until_eof(DefaultIOModel, options.max_stdin_length)
                        ELSE DefaultIOModel
             Pinned == IF Given("input")
                       THEN set_input(Limited, decode_input_escapes(options.input)) ELSE Limited
             Ended == IF Given("eof_char") THEN set_eof_char(Pinned, options.eof_char) ELSE Pinned
             Input(model) ==
                IF Given("input") THEN model.input = decode_input_escapes(options.input)
                ELSE ~has_input(model) /\ model.chars_until_eof = options.max_stdin_length
  <1>1. OptionTypes
    BY CommandLineAssumption DEF OptionTypes
  <1>2. /\ IsIOModel(Limited) /\ ~has_input(Limited)
        /\ Limited.chars_until_eof = options.max_stdin_length
        /\ Limited.eof_char = 0 /\ Limited.no_change_on_eof = FALSE
    <2>1. /\ DefaultIOModel.chars_until_eof = NoValue /\ DefaultIOModel.eof_char = 0
          /\ DefaultIOModel.no_change_on_eof = FALSE
      BY DEF DefaultIOModel
    <2>2. CASE Given("max_stdin_length")
      <3>1. options.max_stdin_length \in Nat
        BY <1>1, <2>2 DEF Given, OptionTypes
      <3>2. Limited = set_chars_until_eof(DefaultIOModel, options.max_stdin_length)
        BY <2>2
      <3> HIDE DEF Limited
      <3>3. IsIOModel(Limited) /\ ~has_input(Limited)
        BY <3>1, <3>2, DefaultModel, SetterFacts
      <3>4. QED
        BY <2>1, <3>2, <3>3, DefaultModel, SetterFields
    <2>3. CASE ~Given("max_stdin_length")
      BY <2>1, <2>3, DefaultModel DEF Given
    <2>4. QED
      BY <2>2, <2>3
  <1> HIDE DEF Limited
  <1>3. /\ IsIOModel(Pinned) /\ Input(Pinned)
        /\ Pinned.eof_char = 0 /\ Pinned.no_change_on_eof = FALSE
    <2>1. CASE Given("input")
      <3>1. decode_input_escapes(options.input) \in Seq(Char)
        BY <1>1, <2>1, DecodeFacts DEF Given, OptionTypes, IOOptionsValid, Bytes
      <3>2. Pinned = set_input(Limited, decode_input_escapes(options.input))
        BY <2>1
      <3> HIDE DEF Pinned
      <3>3. IsIOModel(Pinned) /\ Pinned.input = decode_input_escapes(options.input)
        BY <1>2, <3>1, <3>2, SetterFacts
      <3>4. Pinned.eof_char = 0 /\ Pinned.no_change_on_eof = FALSE
        BY <1>2, <3>2, SetterFields
      <3>5. QED
        BY <2>1, <3>3, <3>4
    <2>2. CASE ~Given("input")
      BY <1>2, <2>2
    <2>3. QED
      BY <2>1, <2>2
  <1> HIDE DEF Pinned
  <1>4. /\ IsIOModel(Ended) /\ Input(Ended)
        /\ Ended.eof_char = IF Given("eof_char") THEN options.eof_char ELSE 0
        /\ Ended.no_change_on_eof = FALSE
    <2>1. CASE Given("eof_char")
      <3>1. options.eof_char \in Char
        BY <1>1, <2>1 DEF Given, OptionTypes
      <3>2. Ended = set_eof_char(Pinned, options.eof_char)
        BY <2>1
      <3> HIDE DEF Ended
      <3>3. /\ IsIOModel(Ended) /\ (has_input(Ended) <=> has_input(Pinned))
            /\ Ended.input = Pinned.input
            /\ Ended.chars_until_eof = Pinned.chars_until_eof
        BY <1>3, <3>1, <3>2, SetterFacts
      <3>4. Ended.eof_char = options.eof_char /\ Ended.no_change_on_eof = FALSE
        BY <1>3, <3>1, <3>2, SetterFields
      <3>5. QED
        BY <1>3, <2>1, <3>3, <3>4
    <2>2. CASE ~Given("eof_char")
      BY <1>3, <2>2
    <2>3. QED
      BY <2>1, <2>2
  <1>5. make_io_model =
           IF options.no_change_on_eof THEN set_no_change_on_eof(Ended, TRUE) ELSE Ended
    BY DEF make_io_model, Ended, Pinned, Limited
  <1> HIDE DEF Ended
  <1>6. CASE options.no_change_on_eof
    <2> DEFINE made == make_io_model
    <2>1. made = set_no_change_on_eof(Ended, TRUE)
      BY <1>5, <1>6
    <2> HIDE DEF made
    <2>2. /\ has_input(made) <=> has_input(Ended)
          /\ made.input = Ended.input
          /\ made.chars_until_eof = Ended.chars_until_eof
          /\ made.no_change_on_eof = TRUE
      BY <1>4, <2>1, SetterFacts, SetterFields
    <2>3. AtEof(made) = TypedEnd
      BY <1>6, <2>2 DEF AtEof, TypedEnd
    <2>4. Input(made)
      BY <1>4, <2>2
    <2>5. IsTyped(made, made.chars_until_eof)
      BY <2>3, <2>4 DEF IsTyped
    <2>6. QED
      BY <2>5 DEF made
  <1>7. CASE ~options.no_change_on_eof
    <2>1. make_io_model = Ended
      BY <1>5, <1>7
    <2>2. AtEof(Ended) = TypedEnd
      BY <1>4, <1>7 DEF AtEof, TypedEnd
    <2>3. IsTyped(Ended, Ended.chars_until_eof)
      BY <1>4, <2>2 DEF IsTyped
    <2>4. QED
      BY <2>1, <2>3
  <1>8. QED
    BY <1>6, <1>7

(* The largest value of a cell size, and how many contents that makes.     *)
LEMMA MaxOfSize ==
    ASSUME NEW size \in CellSize
    PROVE  get_max_value(size) + 1 = Cardinality(CellContents(size))
  <1> DEFINE Two == Char \X Char
             byte == MaxChar + 1
  <1>1. byte \in Nat /\ MaxChar = byte - 1
    BY MaxCharAssumption
  <1>2. IsFiniteSet(Char) /\ Cardinality(Char) = byte
    <2>1. /\ IsFiniteSet(0..MaxChar)
          /\ Cardinality(0..MaxChar) = IF 0 > MaxChar THEN 0 ELSE MaxChar - 0 + 1
      BY MaxCharAssumption, FS_Interval
    <2>2. QED
      BY <2>1, MaxCharAssumption DEF Char
  <1>3. IsFiniteSet(Two) /\ Cardinality(Two) = byte * byte
    BY <1>2, FS_Product
  <1>4. Cardinality(Two \X Two) = (byte * byte) * (byte * byte)
    BY <1>3, FS_Product
  <1> HIDE DEF byte
  <1>5. /\ byte * byte \in Nat
        /\ byte * byte * byte * byte = (byte * byte) * (byte * byte)
        /\ byte * byte * byte * byte \in Nat
    BY <1>1
  <1>6. /\ size = "8" => get_max_value(size) = byte - 1
        /\ size = "16" => get_max_value(size) = byte * byte - 1
        /\ size = "32" => get_max_value(size) = byte * byte * byte * byte - 1
    BY DEF get_max_value, byte
  <1>7. /\ size = "8" => CellContents(size) = Char
        /\ size = "16" => CellContents(size) = Two
        /\ size = "32" => CellContents(size) = Two \X Two
    BY DEF CellContents
  <1> DEFINE square == byte * byte
             fourth == byte * byte * byte * byte
  <1>8. CASE size = "8"
    BY <1>1, <1>2, <1>6, <1>7, <1>8
  <1>9. CASE size = "16"
    <2>1. /\ square \in Nat /\ get_max_value(size) = square - 1
          /\ Cardinality(CellContents(size)) = square
      BY <1>3, <1>5, <1>6, <1>7, <1>9
    <2> HIDE DEF square
    <2>2. QED
      BY <2>1
  <1>10. CASE size = "32"
    <2>1. /\ fourth \in Nat /\ get_max_value(size) = fourth - 1
          /\ Cardinality(CellContents(size)) = fourth
      BY <1>4, <1>5, <1>6, <1>7, <1>10
    <2> HIDE DEF fourth
    <2>2. QED
      BY <2>1
  <1>11. QED
    BY <1>8, <1>9, <1>10 DEF CellSize

LEMMA MadeMemory ==
    /\ make_memory_model.memory_size =
          IF Given("memory_size") THEN options.memory_size ELSE DefaultMemoryModel.memory_size
    /\ make_memory_model.max_value =
          IF Given("cell_size") THEN get_max_value(options.cell_size)
          ELSE DefaultMemoryModel.max_value
    /\ make_memory_model.wrapping = ~options.no_wrapping
  <1> DEFINE size == IF Given("memory_size") THEN options.memory_size
                     ELSE DefaultMemoryModel.memory_size
             sized == set_memory_size(DefaultMemoryModel, size)
             max == get_max_value(IF Given("cell_size") THEN options.cell_size ELSE "8")
             celled == set_cell_size(sized, max)
  <1>1. make_memory_model = set_wrapping(celled, ~options.no_wrapping)
    BY DEF make_memory_model
  <1>2. /\ DOMAIN DefaultMemoryModel = {"memory_size", "max_value", "wrapping"}
        /\ DefaultMemoryModel.max_value = MaxChar
    BY CommandLineAssumption
  <1>3. get_max_value("8") = DefaultMemoryModel.max_value
    BY <1>2, MaxCharAssumption DEF get_max_value
  <1> HIDE DEF size, max
  <1>4. /\ DOMAIN sized = {"memory_size", "max_value", "wrapping"}
        /\ sized.memory_size = size
    BY <1>2 DEF set_memory_size
  <1> HIDE DEF sized
  <1>5. /\ DOMAIN celled = {"memory_size", "max_value", "wrapping"}
        /\ celled.memory_size = size
        /\ celled.max_value = max
    BY <1>4 DEF set_cell_size
  <1> HIDE DEF celled
  <1>6. /\ make_memory_model.memory_size = size
        /\ make_memory_model.max_value = max
        /\ make_memory_model.wrapping = ~options.no_wrapping
    BY <1>1, <1>5 DEF set_wrapping
  <1>7. max = IF Given("cell_size") THEN get_max_value(options.cell_size)
              ELSE DefaultMemoryModel.max_value
    BY <1>3 DEF max
  <1>8. QED
    BY <1>6, <1>7 DEF size

(* The options decide between an error and a model, and reads leave alone  *)
(* what was typed: limit remembers the budget that they spend.             *)
AsBuilt ==
    /\ options \in Arguments
    /\ MemoryOptionsValid /\ IOOptionsValid
    /\ memory_model = make_memory_model
    /\ IsTyped(io, limit)

TypedInv ==
    /\ InputInv
    /\ status = "rejected" => options \in Arguments /\ ~(MemoryOptionsValid /\ IOOptionsValid)
    /\ status = "built" => AsBuilt

LEMMA TypedStep == TypedInv /\ [CommandNext]_<<stream, command>> => TypedInv'
  <1> SUFFICES ASSUME TypedInv, [CommandNext]_<<stream, command>> PROVE TypedInv'
    OBVIOUS
  <1>1. InputInv'
    BY InputStep DEF TypedInv
  <1>2. CASE Reject
    <2>1. /\ status = "typed" /\ status' = "rejected" /\ UNCHANGED options
          /\ ~(MemoryOptionsValid /\ IOOptionsValid)
      BY <1>2 DEF Reject
    <2>2. options \in Arguments
      BY <2>1 DEF TypedInv, InputInv
    <2>3. (MemoryOptionsValid /\ IOOptionsValid)' <=> (MemoryOptionsValid /\ IOOptionsValid)
      BY <2>1 DEF MemoryOptionsValid, IOOptionsValid, Given
    <2>4. QED
      BY <1>1, <2>1, <2>2, <2>3 DEF TypedInv
  <1>3. CASE Build
    <2>1. /\ status = "typed" /\ status' = "built" /\ UNCHANGED options
          /\ MemoryOptionsValid /\ IOOptionsValid
          /\ memory_model' = make_memory_model
          /\ io' = make_io_model /\ limit' = make_io_model.chars_until_eof
      BY <1>3 DEF Build, Configure
    <2>2. options \in Arguments
      BY <2>1 DEF TypedInv, InputInv
    <2>3. MemoryOptionsValid' /\ IOOptionsValid'
      BY <2>1 DEF MemoryOptionsValid, IOOptionsValid, Given
    <2>4. make_memory_model' = make_memory_model
      BY <2>1 DEF make_memory_model, Given
    <2>5. IsTyped(io, limit)'
      <3>1. IsTyped(make_io_model, make_io_model.chars_until_eof)
        BY <2>1, <2>2, MadeAsTyped
      <3>2. TypedEnd' = TypedEnd
        BY <2>1 DEF TypedEnd, Given
      <3>3. QED
        BY <2>1, <3>1, <3>2 DEF IsTyped, Given
    <2>6. QED
      BY <1>1, <2>1, <2>2, <2>3, <2>4, <2>5 DEF TypedInv, AsBuilt
  <1>4. CASE CallSetter
    <2>1. status' = "library"
      BY <1>4 DEF CallSetter, command
    <2>2. QED
      BY <1>1, <2>1 DEF TypedInv
  <1>5. CASE Read
    <2>1. /\ status \in {"library", "built"} /\ UNCHANGED command
          /\ ReadNextChar \/ ReadPossibleChars
      BY <1>5 DEF Read
    <2>2. IsIOModel(io) /\ io' = Spent(io) /\ limit' = limit
      BY <2>1, ReadsKeep DEF TypedInv, InputInv, StreamInv
    <2>3. /\ has_input(io') <=> has_input(io)
          /\ io'.input = io.input /\ AtEof(io') = AtEof(io)
      BY <2>2, SpentFacts
    <2>4. AsBuilt => AsBuilt'
      <3> SUFFICES ASSUME AsBuilt PROVE AsBuilt'
        OBVIOUS
      <3>1. UNCHANGED <<options, memory_model, status>>
        BY <2>1 DEF command
      <3>2. MemoryOptionsValid' /\ IOOptionsValid'
        BY <3>1 DEF AsBuilt, MemoryOptionsValid, IOOptionsValid, Given
      <3>3. make_memory_model' = make_memory_model
        BY <3>1 DEF make_memory_model, Given
      <3>4. TypedEnd' = TypedEnd
        BY <3>1 DEF TypedEnd, Given
      <3>5. IsTyped(io, limit)'
        BY <2>2, <2>3, <3>1, <3>4 DEF AsBuilt, IsTyped, Given
      <3>6. QED
        BY <3>1, <3>2, <3>3, <3>5 DEF AsBuilt
    <2>5. QED
      BY <1>1, <2>1, <2>4 DEF TypedInv, command
  <1>6. CASE UNCHANGED <<stream, command>>
    <2>1. UNCHANGED <<io, limit, options, memory_model, status>>
      BY <1>6 DEF stream, command
    <2>2. (MemoryOptionsValid /\ IOOptionsValid)' <=> (MemoryOptionsValid /\ IOOptionsValid)
      BY <2>1 DEF MemoryOptionsValid, IOOptionsValid, Given
    <2>3. make_memory_model' = make_memory_model
      BY <2>1 DEF make_memory_model, Given
    <2>4. IsTyped(io, limit)' <=> IsTyped(io, limit)
      BY <2>1 DEF IsTyped, TypedEnd, Given
    <2>5. QED
      BY <1>1, <2>1, <2>2, <2>3, <2>4 DEF TypedInv, AsBuilt
  <1>7. QED
    BY <1>2, <1>3, <1>4, <1>5, <1>6 DEF CommandNext

LEMMA TypedStart == TypedInit \/ LibraryInit => TypedInv
  <1> SUFFICES ASSUME TypedInit \/ LibraryInit PROVE TypedInv
    OBVIOUS
  <1>1. InputInv
    BY InputInit
  <1>2. status \in {"typed", "library"}
    BY DEF TypedInit, LibraryInit
  <1>3. QED
    BY <1>1, <1>2 DEF TypedInv

(* Which options are refused.                                              *)
LEMMA Refused ==
    ASSUME options \in Arguments
    PROVE  ~(MemoryOptionsValid /\ IOOptionsValid) <=>
              \/ options.memory_size = 0
              \/ Given("cell_size") /\ options.cell_size \notin CellSize
              \/ Given("input") /\ (Given("max_stdin_length") \/ Denotes(options.input) = {})
  <1>1. OptionTypes
    BY CommandLineAssumption DEF OptionTypes
  <1>2. ~MemoryOptionsValid <=>
           \/ options.memory_size = 0
           \/ Given("cell_size") /\ options.cell_size \notin CellSize
    <2>1. (Given("memory_size") => options.memory_size > 0) <=> options.memory_size # 0
      BY <1>1, NoValueAssumption DEF Given, OptionTypes
    <2>2. QED
      BY <2>1 DEF MemoryOptionsValid
  <1>3. ~IOOptionsValid <=>
           Given("input") /\ (Given("max_stdin_length") \/ Denotes(options.input) = {})
    <2>1. CASE Given("input")
      <3>1. options.input \in Seq(DOMAIN Code)
        BY <1>1, <2>1 DEF Given, OptionTypes
      <3>2. decode_input_escapes(options.input) = NoValue <=> Denotes(options.input) = {}
        BY <3>1, DenotesFacts
      <3>3. QED
        BY <2>1, <3>2 DEF IOOptionsValid
    <2>2. CASE ~Given("input")
      BY <2>2 DEF IOOptionsValid
    <2>3. QED
      BY <2>1, <2>2
  <1>4. QED
    BY <1>2, <1>3

(* What the built models answer.                                           *)
LEMMA BuiltReads ==
    ASSUME StreamInv, AsBuilt
    PROVE  /\ Given("input") => Cardinality(Denotes(options.input)) = 1
           /\ \A k \in DOMAIN reads :
                 IF Given("input") THEN
                     \A bytes \in Denotes(options.input) :
                         reads[k] = IF k <= Len(bytes) THEN <<bytes[k]>> ELSE TypedEnd
                 ELSE IF Given("max_stdin_length") /\ k > options.max_stdin_length
                 THEN reads[k] = TypedEnd
                 ELSE reads[k] = AllPossibleChars \/ Len(reads[k]) = 1
  <1>1. OptionTypes /\ options \in Arguments /\ IOOptionsValid
        /\ IsTyped(io, limit)
    BY CommandLineAssumption DEF AsBuilt, OptionTypes
  <1>2. /\ reads \in Seq(Seq(Char)) /\ DOMAIN reads = 1..Len(reads)
        /\ has_input(io) => limit = Len(io.input)
        /\ IsIOModel(io) /\ ReadsInOrder
    BY DEF StreamInv
  <1>3. \A k \in 1..Len(reads) :
           IF limit # NoValue /\ k > limit THEN reads[k] = TypedEnd
           ELSE IF has_input(io) THEN reads[k] = <<io.input[k]>>
           ELSE reads[k] = AllPossibleChars \/ Len(reads[k]) = 1
    BY <1>1, <1>2 DEF ReadsInOrder, IsTyped
  <1>4. CASE Given("input")
    <2> DEFINE bytes == decode_input_escapes(options.input)
    <2>1. options.input \in Seq(DOMAIN Code)
      BY <1>1, <1>4 DEF Given, OptionTypes
    <2>2. bytes # NoValue
      BY <1>1, <1>4 DEF IOOptionsValid
    <2>3. bytes \in Seq(Char) /\ Denotes(options.input) = {bytes}
      BY <2>1, <2>2, DenotesFacts
    <2>4. io.input = bytes
      BY <1>1, <1>4 DEF IsTyped
    <2> HIDE DEF bytes
    <2>5. has_input(io) /\ limit = Len(bytes) /\ limit \in Nat /\ limit # NoValue
      BY <1>2, <2>2, <2>3, <2>4, NoValueAssumption DEF has_input
    <2>6. Cardinality(Denotes(options.input)) = 1
      BY <2>3, FS_Singleton
    <2>7. ASSUME NEW k \in 1..Len(reads)
          PROVE  reads[k] = IF k <= Len(bytes) THEN <<bytes[k]>> ELSE TypedEnd
      <3>1. CASE k <= Len(bytes)
        BY <1>3, <2>4, <2>5, <3>1
      <3>2. CASE ~(k <= Len(bytes))
        BY <1>3, <2>5, <3>2
      <3>3. QED
        BY <3>1, <3>2
    <2>8. QED
      BY <1>2, <1>4, <2>3, <2>6, <2>7
  <1>5. CASE ~Given("input")
    <2>1. ~has_input(io) /\ limit = options.max_stdin_length
      BY <1>1, <1>5 DEF IsTyped
    <2>2. QED
      BY <1>2, <1>3, <1>5, <2>1 DEF Given
  <1>6. QED
    BY <1>4, <1>5

LEMMA TypedMeans == TypedInv => InputAsTyped
  <1> SUFFICES ASSUME TypedInv PROVE InputAsTyped
    OBVIOUS
  <1> DEFINE Or(option, default) == IF Given(option) THEN options[option] ELSE default
             Means == Denotes(options.input)
             AtEnd == IF options.no_change_on_eof THEN << >> ELSE <<Or("eof_char", 0)>>
  <1>1. AtEnd = TypedEnd
    BY DEF TypedEnd
  <1>2. ASSUME status \in {"rejected", "built"}
        PROVE  (status = "rejected") =
                  (\/ options.memory_size = 0
                   \/ Given("cell_size") /\ options.cell_size \notin CellSize
                   \/ Given("input") /\ (Given("max_stdin_length") \/ Means = {}))
    <2>1. options \in Arguments /\ (status = "rejected" <=> ~(MemoryOptionsValid /\ IOOptionsValid))
      BY <1>2 DEF TypedInv, AsBuilt
    <2>2. QED
      BY <2>1, Refused
  <1>3. ASSUME status = "built"
        PROVE  /\ memory_model.memory_size = Or("memory_size", DefaultMemoryModel.memory_size)
               /\ IF Given("cell_size")
                  THEN memory_model.max_value + 1 = Cardinality(CellContents(options.cell_size))
                  ELSE memory_model.max_value = DefaultMemoryModel.max_value
               /\ memory_model.wrapping = ~options.no_wrapping
    <2>1. memory_model = make_memory_model /\ MemoryOptionsValid
      BY <1>3 DEF TypedInv, AsBuilt
    <2>2. ASSUME Given("cell_size")
          PROVE  get_max_value(options.cell_size) + 1 = Cardinality(CellContents(options.cell_size))
      BY <2>1, <2>2, MaxOfSize DEF MemoryOptionsValid
    <2>3. QED
      BY <2>1, <2>2, MadeMemory
  <1>4. ASSUME status = "built"
        PROVE  /\ Given("input") => Cardinality(Means) = 1
               /\ \A k \in DOMAIN reads :
                     IF Given("input") THEN
                         \A bytes \in Means :
                             reads[k] = IF k <= Len(bytes) THEN <<bytes[k]>> ELSE AtEnd
                     ELSE IF Given("max_stdin_length") /\ k > options.max_stdin_length
                     THEN reads[k] = AtEnd
                     ELSE reads[k] = AllPossibleChars \/ Len(reads[k]) = 1
    <2>1. StreamInv /\ AsBuilt
      BY <1>4 DEF TypedInv, InputInv
    <2> HIDE DEF AtEnd, Means
    <2>2. QED
      BY <1>1, <2>1, BuiltReads DEF Means
  <1>5. QED
    BY <1>2, <1>3, <1>4 DEF InputAsTyped

(* Whatever is typed, --input is refused iff it cannot be cut into         *)
(* characters and escapes; otherwise it has one meaning, which is what the *)
(* reads return, byte by byte and then the end as asked for; and the tape  *)
(* has the cells, the cell width and the edges that were asked for, or the *)
(* defaults.                                                               *)
THEOREM AsTyped == CommandSpec => []InputAsTyped
  <1>1. QED
    BY TypedMeans, TypedStart, TypedStep, PTL DEF CommandSpec

-----------------------------------------------------------------------------
(* One call of the program keeps both invariants: the first until a file   *)
(* is parsed and the second from then on.                                  *)
CallInv ==
    /\ TypedInv
    /\ parsed \in BOOLEAN
    /\ parsed => IInv
    /\ ~parsed => prog = NoProgram /\ Begin

(* Without instructions there is nothing to fold, and the end stutters.    *)
LEMMA WithoutProgram ==
    ASSUME prog = NoProgram, Begin
    PROVE  FoldingExact /\ HiddenUnobserved /\ StartsAtBlock /\ Branching
  <1>1. prog.ops = << >> /\ state.pc = 1
    BY DEF NoProgram, ParsedProgram, Begin, initial_state
  <1>2. is_end(prog, state.pc)
    BY <1>1 DEF is_end, instr_count
  <1>3. ~InBlock
    BY <1>2 DEF InBlock
  <1>4. Successors(prog, folding, state) = <<state>>
    BY <1>2 DEF Successors
  <1>5. Branching
    BY <1>4 DEF Branching, IsInjective
  <1>6. QED
    BY <1>3, <1>5 DEF FoldingExact, HiddenUnobserved, StartsAtBlock

LEMMA CallStart == ProcessInit => CallInv
  BY TypedStart DEF ProcessInit, CallInv

LEMMA CallStep ==
    ASSUME SmallTapes
    PROVE  CallInv /\ [ProcessNext]_<<stream, command, walk, parsed>> => CallInv'
  <1>1. Init' => IInv'
    BY InitIInv, PTL
  <1> SUFFICES ASSUME CallInv, [ProcessNext]_<<stream, command, walk, parsed>>
               PROVE  CallInv'
    OBVIOUS
  <1>2. CASE Command
    <2>1. TypedInv'
      BY <1>2, TypedStep DEF CallInv, Command
    <2>2. ~parsed /\ UNCHANGED <<prog, folding, state, parsed>>
      BY <1>2 DEF Command, walk
    <2>3. NoProgram' = NoProgram
      BY DEF NoProgram
    <2>4. QED
      BY <2>1, <2>2, <2>3 DEF CallInv, Begin
  <1>3. CASE Parse
    <2>1. TypedInv'
      BY <1>3, TypedStep DEF CallInv, Parse
    <2>2. Init' /\ parsed' = TRUE
      BY <1>3 DEF Parse, Init, Begin
    <2>3. QED
      BY <1>1, <2>1, <2>2 DEF CallInv
  <1>4. CASE Walk
    <2>1. TypedInv'
      BY <1>4, TypedStep DEF CallInv, Walk
    <2>2. parsed /\ Next /\ parsed' = parsed
      BY <1>4 DEF Walk
    <2>3. IInv'
      BY <2>2, NextIInv DEF CallInv
    <2>4. QED
      BY <2>1, <2>2, <2>3 DEF CallInv
  <1>5. CASE UNCHANGED <<stream, command, walk, parsed>>
    <2>1. TypedInv'
      BY <1>5, TypedStep DEF CallInv
    <2>2. UNCHANGED vars /\ parsed' = parsed
      BY <1>5 DEF walk, vars
    <2>3. parsed => IInv'
      BY <2>2, NextIInv DEF CallInv
    <2>4. UNCHANGED <<prog, state>> /\ NoProgram' = NoProgram
      BY <2>2 DEF vars, NoProgram
    <2>5. QED
      BY <2>1, <2>2, <2>3, <2>4 DEF CallInv, Begin
  <1>6. QED
    BY <1>2, <1>3, <1>4, <1>5 DEF ProcessNext

(* One call of the program, with whatever options and file: it reads what  *)
(* was typed, in order, and when it parses the file instead, the runs of   *)
(* the state graph have no dead end, and folding is exact and hides        *)
(* nothing that is observed.                                               *)
THEOREM CallIsCorrect ==
    ASSUME SmallTapes
    PROVE  ProcessSpec =>
              [](/\ ReadsInOrder /\ GraphAgrees /\ InputAsTyped
                 /\ FoldingExact /\ HiddenUnobserved /\ StartsAtBlock /\ Branching)
  <1>1. CallInv => ReadsInOrder /\ GraphAgrees
    BY ModelAgrees DEF CallInv, TypedInv, InputInv, StreamInv
  <1>2. CallInv => InputAsTyped
    BY TypedMeans DEF CallInv
  <1>3. CallInv => FoldingExact /\ HiddenUnobserved /\ StartsAtBlock /\ Branching
    <2>1. IInv => FoldingExact /\ HiddenUnobserved /\ StartsAtBlock /\ Branching
      BY FoldsExactly, HidesNothing, Branches DEF IInv
    <2>2. QED
      BY <2>1, WithoutProgram DEF CallInv
  <1>4. QED
    BY <1>1, <1>2, <1>3, CallStart, CallStep, PTL DEF ProcessSpec
=============================================================================

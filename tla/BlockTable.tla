----------------------------- MODULE BlockTable -----------------------------
(***************************************************************************)
(* build_blocks() of src/brainfuck/program.cpp: folds the maximal runs of  *)
(* + - and of > < into blocks, once, while a program is parsed.            *)
(*                                                                         *)
(* One action per loop iteration.  Instruction pointers start at 1.  The   *)
(* history variables effect and effects record what the folded             *)
(* instructions do one at a time.                                          *)
(***************************************************************************)
EXTENDS Program

CONSTANTS
    Programs,   \* instruction sequences (ops) considered
    Models      \* memory models considered

ASSUME BlockTableAssumption ==
    /\ Programs \subseteq Seq(Instruction)
    /\ \A m \in Models : IsModel(m)

VARIABLES
    ops,    \* argument: the instructions
    labels, \* argument: the labelled instruction pointers
    model,  \* argument: the memory model
    pc,     \* the outer loop's counter: start of the current run
    end,    \* the inner loops' counter
    delta,  \* delta of a value run, net of a pointer run
    low,    \* pointer after the run from cell 0 (clamping tape)
    high,   \* pointer after the run from the last cell
    blocks, \* the table, one entry per instruction pointer
    effect, \* history: the run so far as a function, one instruction at a time
    effects,\* history: the effect of the block that covers each pointer
    mode    \* control point: "scan", "values", "pointers" or "done"

vars == <<ops, labels, model, pc, end, delta, low, high, blocks, effect, effects, mode>>
args == <<ops, labels, model>>
counters == <<delta, low, high>>

LastCell == model.memory_size - 1

Init ==
    /\ ops \in Programs
    /\ labels \in SUBSET (1..(Len(ops) + 1))
    /\ model \in Models
    /\ pc = 1
    /\ end = 1
    /\ delta = 0
    /\ low = 0
    /\ high = 0
    /\ blocks = << >>
    /\ effect = << >>
    /\ effects = << >>
    /\ mode = "scan"

(* Faulty variant: a run goes on across a label.                           *)
InRunAcrossLabels == end <= Len(ops)

(* The loop conditions of the two inner loops, up to the instruction class.*)
InRun == end <= Len(ops) /\ (end = pc \/ end \notin labels)

StartValues ==
    /\ mode = "scan"
    /\ pc <= Len(ops)
    /\ is_value_instruction(ops[pc])
    /\ delta' = 0
    /\ end' = pc
    /\ effect' = [v \in CellValues(model) |-> v]
    /\ mode' = "values"
    /\ UNCHANGED <<args, pc, low, high, blocks, effects>>

ExtendValues ==
    /\ mode = "values"
    /\ InRun
    /\ is_value_instruction(ops[end])
    /\ delta' = IF ops[end] = "inc" THEN delta + 1 ELSE delta - 1
    /\ end' = end + 1
    /\ effect' = [v \in DOMAIN effect |->
                     IF ops[end] = "inc" THEN next_value(model, effect[v])
                     ELSE prev_value(model, effect[v])]
    /\ UNCHANGED <<args, pc, low, high, blocks, effects, mode>>

StartPointers ==
    /\ mode = "scan"
    /\ pc <= Len(ops)
    /\ is_pointer_instruction(ops[pc])
    /\ delta' = 0
    /\ low' = 0
    /\ high' = LastCell
    /\ end' = pc
    /\ effect' = [p \in Cells(model) |-> p]
    /\ mode' = "pointers"
    /\ UNCHANGED <<args, pc, blocks, effects>>

(* Faulty variant: a bound that is not clamped to the tape.                *)
RightUnclamped(bound) == bound + 1

Right(bound) == IF bound < LastCell THEN bound + 1 ELSE bound
Left(bound) == IF bound > 0 THEN bound - 1 ELSE bound

ExtendRight ==
    /\ mode = "pointers"
    /\ InRun
    /\ ops[end] = "right"
    /\ delta' = delta + 1
    /\ low' = Right(low)
    /\ high' = Right(high)
    /\ end' = end + 1
    /\ effect' = [p \in DOMAIN effect |-> pointer_right(model, effect[p])]
    /\ UNCHANGED <<args, pc, blocks, effects, mode>>

ExtendLeft ==
    /\ mode = "pointers"
    /\ InRun
    /\ ops[end] = "left"
    /\ delta' = delta - 1
    /\ low' = Left(low)
    /\ high' = Left(high)
    /\ end' = end + 1
    /\ effect' = [p \in DOMAIN effect |-> pointer_left(model, effect[p])]
    /\ UNCHANGED <<args, pc, blocks, effects, mode>>

(* Every pointer of the run from pc to end - 1 gets the same block.        *)
Store(block) ==
    /\ blocks' = blocks \o [i \in 1..(end - pc) |-> block]
    /\ effects' = effects \o [i \in 1..(end - pc) |-> effect]
    /\ pc' = end
    /\ mode' = "scan"
    /\ UNCHANGED <<args, end, counters, effect>>

(* Faulty variant: the modulus is off by one.                              *)
StoreValuesModuloMax ==
    /\ mode = "values"
    /\ ~(InRun /\ is_value_instruction(ops[end]))
    /\ Store([kind |-> "values", end |-> end,
              delta |-> Remainder(delta, model.max_value),
              low |-> 0, high |-> LastCell])

(* The value run ends: its delta is reduced to the cell width.             *)
StoreValues ==
    /\ mode = "values"
    /\ ~(InRun /\ is_value_instruction(ops[end]))
    /\ Store([kind |-> "values", end |-> end,
              delta |-> Remainder(delta, model.max_value + 1),
              low |-> 0, high |-> LastCell])

StorePointers ==
    /\ mode = "pointers"
    /\ ~(InRun /\ is_pointer_instruction(ops[end]))
    /\ Store([kind |-> "pointers", end |-> end, delta |-> delta,
              low |-> low, high |-> high])

StoreSingle ==
    /\ mode = "scan"
    /\ pc <= Len(ops)
    /\ ~is_value_instruction(ops[pc])
    /\ ~is_pointer_instruction(ops[pc])
    /\ blocks' = Append(blocks, [kind |-> "single", end |-> pc + 1, delta |-> 0,
                                 low |-> 0, high |-> LastCell])
    /\ effects' = Append(effects, << >>)
    /\ pc' = pc + 1
    /\ UNCHANGED <<args, end, counters, effect, mode>>

Return ==
    /\ mode = "scan"
    /\ pc > Len(ops)
    /\ mode' = "done"
    /\ UNCHANGED <<args, pc, end, counters, blocks, effect, effects>>

Next ==
    \/ StartValues \/ ExtendValues \/ StoreValues
    \/ StartPointers \/ ExtendRight \/ ExtendLeft \/ StorePointers
    \/ StoreSingle \/ Return

Spec == Init /\ [][Next]_vars

-----------------------------------------------------------------------------
(* The loops compute the table that the state graph is built from: all     *)
(* pointers of a longest run of one class share its block, and only the    *)
(* first of them is labelled ("a folded block must never cross a label").  *)
TableIsFolded == mode = "done" => blocks = FoldedTable(ops, labels, model)

(* No sum of a pointer and a net move leaves the range of int64_t.         *)
InRange(ptr, net) == Signed(ptr) + net \in (-HalfWord)..(HalfWord - 1)

(* "> and < folding is exact on both tape modes": the folded move agrees   *)
(* with the moves of the run one at a time, from every cell.               *)
PointerFoldExact ==
    \A i \in 1..Len(blocks) :
        blocks[i].kind = "pointers" =>
            \A p \in Cells(model) :
                InRange(p, blocks[i].delta) =>
                    move_pointer(model, p, blocks[i].delta, blocks[i].low, blocks[i].high)
                        = effects[i][p]

(* "Value folding is exact", for runs longer than the cell width too.      *)
ValueFoldExact ==
    \A i \in 1..Len(blocks) :
        blocks[i].kind = "values" =>
            \A v \in CellValues(model) :
                shift_value(model, v, blocks[i].delta) = effects[i][v]
=============================================================================

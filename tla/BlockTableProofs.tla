-------------------------- MODULE BlockTableProofs --------------------------
(***************************************************************************)
(* build_blocks() folds exactly: for every program, every placing of the   *)
(* labels, every tape and every cell width, a folded block does what its   *)
(* instructions do one at a time.                                          *)
(***************************************************************************)
EXTENDS BlockTable, OperatorProofs

-----------------------------------------------------------------------------
(* The inductive invariant.  Until a run is stored, the net delta and the  *)
(* two bounds say what the instructions of the run so far have done.       *)
Block == [kind : BlockKind, end : Nat, delta : Int, low : Nat, high : Nat]
Effect(m) == [CellValues(m) -> CellValues(m)] \cup [Cells(m) -> Cells(m)] \cup {<< >>}

TypeInv ==
    /\ ops \in Seq(Instruction)
    /\ model \in Models
    /\ pc \in 1..(Len(ops) + 1)
    /\ end \in Nat
    /\ delta \in Int
    /\ low \in Nat /\ high \in Nat
    /\ blocks \in Seq(Block) /\ Len(blocks) = pc - 1
    /\ effects \in Seq(Effect(model)) /\ Len(effects) = pc - 1
    /\ mode \in {"scan", "values", "pointers", "done"}
    /\ mode \in {"values", "pointers"} => end \in pc..(Len(ops) + 1)

ValueRun ==
    mode = "values" =>
        /\ effect \in [CellValues(model) -> CellValues(model)]
        /\ \A v \in CellValues(model) :
              Congruent(v + delta, effect[v], model.max_value + 1)

Moves(p) ==
    IF model.wrapping THEN Congruent(p + delta, effect[p], model.memory_size)
    ELSE effect[p] = Clamped(p + delta, low, high)

PointerRun ==
    mode = "pointers" =>
        /\ effect \in [Cells(model) -> Cells(model)]
        /\ low \in Cells(model) /\ high \in Cells(model) /\ low <= high
        /\ \A p \in Cells(model) : Moves(p)

Inv == TypeInv /\ ValueRun /\ PointerRun

-----------------------------------------------------------------------------
LEMMA ModelFacts ==
    ASSUME TypeInv
    PROVE  /\ IsModel(model)
           /\ model.memory_size \in Nat \ {0}
           /\ model.max_value \in Nat
           /\ Cells(model) \subseteq Nat
           /\ CellValues(model) \subseteq Nat
           /\ LastCell \in Cells(model)
           /\ 0 \in Cells(model)
  BY BlockTableAssumption, HalfWordAssumption
     DEF TypeInv, IsModel, Cells, CellValues, LastCell, Word

(* What storing a block adds to the two tables.                            *)
LEMMA Stores ==
    ASSUME NEW S, NEW table \in Seq(S), NEW entry \in S, NEW n \in Nat
    PROVE  /\ table \o [i \in 1..n |-> entry] \in Seq(S)
           /\ Len(table \o [i \in 1..n |-> entry]) = Len(table) + n
           /\ \A i \in 1..Len(table) : (table \o [j \in 1..n |-> entry])[i] = table[i]
           /\ \A i \in (Len(table) + 1)..(Len(table) + n) :
                 (table \o [j \in 1..n |-> entry])[i] = entry
  <1> DEFINE more == [i \in 1..n |-> entry]
  <1>1. more \in Seq(S) /\ Len(more) = n
    OBVIOUS
  <1>2. \A i \in 1..n : more[i] = entry
    OBVIOUS
  <1> HIDE DEF more
  <1>3. table \o more \in Seq(S) /\ Len(table \o more) = Len(table) + n
    BY <1>1
  <1>4. \A i \in 1..Len(table) : (table \o more)[i] = table[i]
    BY <1>1
  <1>5. ASSUME NEW i \in (Len(table) + 1)..(Len(table) + n)
        PROVE  (table \o more)[i] = entry
    <2>1. i - Len(table) \in 1..n
      BY <1>5
    <2>2. (table \o more)[i] = more[i - Len(table)]
      BY <1>1, <2>1
    <2>3. QED
      BY <1>2, <2>1, <2>2
  <1>6. QED
    BY <1>3, <1>4, <1>5 DEF more

(* The moves on a tape that does not, and the bounds that follow them.     *)
LEMMA BoundSteps ==
    ASSUME TypeInv, NEW lo \in Cells(model), NEW hi \in Cells(model), lo <= hi
    PROVE  /\ Right(lo) \in Cells(model) /\ Right(hi) \in Cells(model) /\ Right(lo) <= Right(hi)
           /\ Left(lo) \in Cells(model) /\ Left(hi) \in Cells(model) /\ Left(lo) <= Left(hi)
  BY ModelFacts DEF Cells, Right, Left, LastCell

LEMMA ClampedSteps ==
    ASSUME TypeInv, ~model.wrapping, NEW sum \in Int,
           NEW lo \in Cells(model), NEW hi \in Cells(model), lo <= hi
    PROVE  /\ pointer_right(model, Clamped(sum, lo, hi)) = Clamped(sum + 1, Right(lo), Right(hi))
           /\ pointer_left(model, Clamped(sum, lo, hi)) = Clamped(sum - 1, Left(lo), Left(hi))
  BY ModelFacts DEF Cells, Right, Left, LastCell, Clamped, pointer_right, pointer_left

-----------------------------------------------------------------------------
LEMMA InitInv == Init => Inv /\ ValueFoldExact /\ PointerFoldExact
  <1> SUFFICES ASSUME Init PROVE Inv /\ ValueFoldExact /\ PointerFoldExact
    OBVIOUS
  <1>1. TypeInv
    BY BlockTableAssumption DEF Init, TypeInv
  <1>2. Len(blocks) = 0
    BY DEF Init
  <1>3. QED
    BY <1>1, <1>2 DEF Init, Inv, ValueRun, PointerRun, ValueFoldExact, PointerFoldExact

LEMMA Stored ==
    ASSUME NEW S, NEW table \in Seq(S), NEW entry \in S, NEW n \in Nat,
           NEW longer, longer = table \o [i \in 1..n |-> entry]
    PROVE  /\ longer \in Seq(S)
           /\ Len(longer) = Len(table) + n
           /\ \A i \in 1..Len(table) : longer[i] = table[i]
           /\ \A i \in (Len(table) + 1)..(Len(table) + n) : longer[i] = entry
  BY Stores

(* The two tables after a run is stored.                                   *)
LEMMA StoreTypes ==
    ASSUME TypeInv, mode \in {"values", "pointers"}, NEW block \in Block,
           effect \in Effect(model), Store(block)
    PROVE  /\ TypeInv'
           /\ Len(blocks) \in Nat
           /\ \A i \in 1..Len(blocks') :
                 \/ i \in 1..Len(blocks) /\ blocks'[i] = blocks[i] /\ effects'[i] = effects[i]
                 \/ i \in pc..(end - 1) /\ blocks'[i] = block /\ effects'[i] = effect
  <1>1. end \in pc..(Len(ops) + 1) /\ pc \in Nat /\ end - pc \in Nat /\ end \in Nat
    BY DEF TypeInv
  <1>2. blocks \in Seq(Block) /\ Len(blocks) = pc - 1 /\ Len(blocks) \in Nat
    BY DEF TypeInv
  <1>3. effects \in Seq(Effect(model)) /\ Len(effects) = pc - 1
    BY DEF TypeInv
  <1>4. blocks' = blocks \o [i \in 1..(end - pc) |-> block]
    BY DEF Store
  <1>5. effects' = effects \o [i \in 1..(end - pc) |-> effect]
    BY DEF Store
  <1>6. /\ blocks' \in Seq(Block)
        /\ Len(blocks') = end - 1
        /\ \A i \in 1..Len(blocks) : blocks'[i] = blocks[i]
        /\ \A i \in (Len(blocks) + 1)..(Len(blocks) + (end - pc)) : blocks'[i] = block
    <2> DEFINE n == end - pc
    <2>1. /\ n \in Nat /\ block \in Block /\ blocks \in Seq(Block)
          /\ blocks' = blocks \o [i \in 1..n |-> block]
      BY <1>1, <1>2, <1>4
    <2>2. Len(blocks) + n = end - 1
      BY <1>1, <1>2
    <2> HIDE DEF n
    <2>3. /\ blocks' \in Seq(Block)
          /\ Len(blocks') = Len(blocks) + n
          /\ \A i \in 1..Len(blocks) : blocks'[i] = blocks[i]
          /\ \A i \in (Len(blocks) + 1)..(Len(blocks) + n) : blocks'[i] = block
      BY ONLY <2>1, Stored
    <2>4. QED
      BY <2>2, <2>3 DEF n
  <1>7. /\ effects' \in Seq(Effect(model))
        /\ Len(effects') = end - 1
        /\ \A i \in 1..Len(effects) : effects'[i] = effects[i]
        /\ \A i \in (Len(effects) + 1)..(Len(effects) + (end - pc)) : effects'[i] = effect
    <2> DEFINE E == Effect(model)
               n == end - pc
    <2>1. /\ n \in Nat /\ effect \in E /\ effects \in Seq(E)
          /\ effects' = effects \o [i \in 1..n |-> effect]
      BY <1>1, <1>3, <1>5
    <2>2. Len(effects) + n = end - 1
      BY <1>1, <1>3
    <2> HIDE DEF E, n
    <2>3. /\ effects' \in Seq(E)
          /\ Len(effects') = Len(effects) + n
          /\ \A i \in 1..Len(effects) : effects'[i] = effects[i]
          /\ \A i \in (Len(effects) + 1)..(Len(effects) + n) : effects'[i] = effect
      BY ONLY <2>1, Stored
    <2>4. QED
      BY <2>2, <2>3 DEF E, n
  <1>8. TypeInv'
    BY <1>1, <1>6, <1>7 DEF TypeInv, Store, args, counters
  <1>9. \A i \in 1..Len(blocks') :
            \/ i \in 1..Len(blocks)
            \/ i \in (Len(blocks) + 1)..(Len(blocks) + (end - pc)) /\ i \in pc..(end - 1)
    BY <1>1, <1>2, <1>6
  <1>10. QED
    BY <1>2, <1>3, <1>6, <1>7, <1>8, <1>9

(* What a step has to keep.  The folded moves need the tape to be smaller  *)
(* than half a word (the run block_table_huge_tape shows that they are not *)
(* exact otherwise).                                                       *)
SmallTapes == \A m \in Models : m.memory_size < HalfWord

LEMMA StartValuesInv ==
    ASSUME Inv, StartValues
    PROVE  Inv' /\ UNCHANGED <<model, blocks, effects>>
  <1>1. /\ TypeInv /\ IsModel(model)
    BY ModelFacts DEF Inv
  <1>2. TypeInv'
    BY <1>1 DEF TypeInv, StartValues, args
  <1>3. \A v \in CellValues(model) : Congruent(v + 0, v, model.max_value + 1)
    <2> SUFFICES ASSUME NEW v \in CellValues(model)
                 PROVE  Congruent(v + 0, v, model.max_value + 1)
      OBVIOUS
    <2>1. v \in Int /\ model.max_value + 1 \in Int /\ v + 0 = v
      BY <1>1, ModelFacts
    <2>2. QED
      BY <2>1, CongruentSelf
  <1>4. ValueRun'
    BY <1>3 DEF ValueRun, StartValues, args
  <1>5. QED
    BY <1>2, <1>4 DEF Inv, PointerRun, StartValues, args

LEMMA ExtendValuesInv ==
    ASSUME Inv, ExtendValues
    PROVE  Inv' /\ UNCHANGED <<model, blocks, effects>>
  <1> DEFINE n == model.max_value + 1
             step(v) == IF ops[end] = "inc" THEN next_value(model, effect[v])
                        ELSE prev_value(model, effect[v])
  <1>1. /\ TypeInv /\ IsModel(model) /\ n \in Nat /\ CellValues(model) \subseteq Nat
        /\ delta \in Int
        /\ end \in pc..(Len(ops) + 1) /\ end <= Len(ops)
        /\ pc \in Nat /\ Len(ops) \in Nat
    BY ModelFacts DEF Inv, TypeInv, ExtendValues, InRun
  <1>2. TypeInv'
    BY <1>1 DEF TypeInv, ExtendValues, args
  <1>3. /\ effect \in [CellValues(model) -> CellValues(model)]
        /\ \A v \in CellValues(model) : Congruent(v + delta, effect[v], n)
    BY DEF Inv, ValueRun, ExtendValues
  <1>4. ASSUME NEW v \in CellValues(model)
        PROVE  /\ step(v) \in CellValues(model)
               /\ Congruent(v + delta', step(v), n)
    <2>1. /\ effect[v] \in CellValues(model) /\ v \in Int /\ effect[v] \in Int
          /\ v + delta \in Int /\ n \in Int
      BY <1>1, <1>3
    <2> DEFINE sum == v + delta
    <2>2. sum \in Int /\ Congruent(sum, effect[v], n)
      BY <1>3, <2>1
    <2>6. sum + 1 = v + (delta + 1) /\ sum - 1 = v + (delta - 1)
      BY <1>1, <2>1
    <2> HIDE DEF n, sum
    <2>3. CASE ops[end] = "inc"
      <3>1. step(v) = next_value(model, effect[v]) /\ delta' = delta + 1
        BY <2>3 DEF ExtendValues
      <3>2. /\ next_value(model, effect[v]) \in CellValues(model)
            /\ Congruent(effect[v] + 1, next_value(model, effect[v]), n)
        BY <1>1, <2>1, ValueSteps DEF n
      <3>3. Congruent(sum + 1, effect[v] + 1, n)
        BY <1>1, <2>1, <2>2, CongruentSum
      <3>4. Congruent(sum + 1, next_value(model, effect[v]), n)
        <4>1. /\ sum + 1 \in Int /\ effect[v] + 1 \in Int
              /\ next_value(model, effect[v]) \in Int
          BY <1>1, <2>1, <2>2, <3>2
        <4>2. QED
          BY <2>1, <3>2, <3>3, <4>1, CongruentTransitive
      <3>5. sum + 1 = v + (delta + 1)
        BY <2>6
      <3>6. QED
        BY <3>1, <3>2, <3>4, <3>5
    <2>4. CASE ops[end] # "inc"
      <3>1. step(v) = prev_value(model, effect[v]) /\ delta' = delta - 1
        BY <2>4 DEF ExtendValues
      <3>2. /\ prev_value(model, effect[v]) \in CellValues(model)
            /\ Congruent(effect[v] - 1, prev_value(model, effect[v]), n)
        BY <1>1, <2>1, ValueSteps DEF n
      <3>3. Congruent(sum + (-1), effect[v] + (-1), n)
        BY <1>1, <2>1, <2>2, CongruentSum
      <3>4. /\ effect[v] + (-1) = effect[v] - 1 /\ sum + (-1) = v + (delta - 1)
            /\ sum + (-1) \in Int /\ effect[v] + (-1) \in Int
        BY <2>1, <2>2, <2>6
      <3>5. Congruent(v + (delta - 1), prev_value(model, effect[v]), n)
        BY <1>1, <2>1, <3>2, <3>3, <3>4, CongruentTransitive
      <3>6. QED
        BY <3>1, <3>2, <3>5
    <2>5. QED
      BY <2>3, <2>4
  <1>5. effect' = [v \in CellValues(model) |-> step(v)]
    BY <1>3 DEF ExtendValues
  <1>6. UNCHANGED model /\ mode' = "values"
    BY DEF ExtendValues, args
  <1>7. effect' \in [CellValues(model) -> CellValues(model)]
    BY <1>4, <1>5
  <1>8. \A v \in CellValues(model) : Congruent(v + delta', effect'[v], n)
    BY <1>4, <1>5
  <1>9. ValueRun'
    BY <1>6, <1>7, <1>8 DEF ValueRun
  <1>10. QED
    BY <1>2, <1>6, <1>9 DEF Inv, PointerRun, ExtendValues

LEMMA StoreValuesInv ==
    ASSUME Inv, StoreValues
    PROVE  /\ Inv'
           /\ ValueFoldExact => ValueFoldExact'
           /\ PointerFoldExact => PointerFoldExact'
  <1> DEFINE block == [kind |-> "values", end |-> end,
                       delta |-> Remainder(delta, model.max_value + 1),
                       low |-> 0, high |-> LastCell]
  <1>1. /\ TypeInv /\ mode = "values" /\ IsModel(model)
        /\ model.max_value + 1 \in Nat \ {0} /\ LastCell \in Nat /\ end \in Nat /\ delta \in Int
        /\ CellValues(model) \subseteq Nat
    BY ModelFacts DEF Inv, TypeInv, StoreValues
  <1>2. /\ effect \in [CellValues(model) -> CellValues(model)]
        /\ \A v \in CellValues(model) : Congruent(v + delta, effect[v], model.max_value + 1)
    BY <1>1 DEF Inv, ValueRun
  <1>3. block \in Block
    <2>1. block.delta \in Int
      BY <1>1, CongruentRemainder
    <2>2. QED
      BY <1>1, <2>1 DEF Block, BlockKind
  <1>4. effect \in Effect(model)
    BY <1>2 DEF Effect
  <1>5. Store(block) /\ model' = model /\ mode' = "scan"
    BY DEF StoreValues, Store, args
  <1>6. block.kind = "values" /\ block.delta = Remainder(delta, model.max_value + 1)
    OBVIOUS
  <1> HIDE DEF block
  <1>7. /\ TypeInv'
        /\ \A i \in 1..Len(blocks') :
              \/ i \in 1..Len(blocks) /\ blocks'[i] = blocks[i] /\ effects'[i] = effects[i]
              \/ blocks'[i] = block /\ effects'[i] = effect
    BY <1>1, <1>3, <1>4, <1>5, StoreTypes
  <1>8. Inv'
    BY <1>5, <1>7 DEF Inv, ValueRun, PointerRun
  <1>9. \A v \in CellValues(model) : shift_value(model, v, block.delta) = effect[v]
    BY <1>1, <1>2, <1>6, ShiftExact
  <1>10. ValueFoldExact => ValueFoldExact'
    BY <1>5, <1>7, <1>9 DEF ValueFoldExact
  <1>11. PointerFoldExact => PointerFoldExact'
    BY <1>5, <1>6, <1>7 DEF PointerFoldExact
  <1>12. QED
    BY <1>8, <1>10, <1>11

LEMMA StartPointersInv ==
    ASSUME Inv, StartPointers
    PROVE  Inv' /\ UNCHANGED <<model, blocks, effects>>
  <1>1. /\ TypeInv /\ IsModel(model) /\ LastCell \in Cells(model) /\ 0 \in Cells(model)
        /\ Cells(model) \subseteq Nat /\ model.memory_size \in Nat
    BY ModelFacts DEF Inv
  <1>2. TypeInv'
    BY <1>1 DEF TypeInv, StartPointers, args
  <1>3. ASSUME NEW p \in Cells(model)
        PROVE  /\ Congruent(p + 0, p, model.memory_size)
               /\ p = Clamped(p + 0, 0, LastCell)
    <2>1. p \in Int /\ p + 0 = p /\ p >= 0 /\ p <= LastCell
      BY <1>1 DEF Cells, LastCell
    <2>2. QED
      BY <1>1, <2>1, CongruentSelf DEF Clamped
  <1>4. /\ UNCHANGED model /\ mode' = "pointers" /\ delta' = 0 /\ low' = 0 /\ high' = LastCell
        /\ effect' = [p \in Cells(model) |-> p]
    BY DEF StartPointers, args
  <1>5. 0 <= LastCell
    BY <1>1 DEF LastCell, Cells
  <1>6. PointerRun'
    BY <1>1, <1>3, <1>4, <1>5 DEF PointerRun, Moves
  <1>7. QED
    BY <1>2, <1>4, <1>6 DEF Inv, ValueRun, StartPointers, args

(* One more move: step is the move, net the change of the delta.           *)
LEMMA ExtendPointers ==
    ASSUME Inv, ExtendRight \/ ExtendLeft
    PROVE  Inv' /\ UNCHANGED <<model, blocks, effects>>
  <1> DEFINE size == model.memory_size
             right == ops[end] = "right"
             step(p) == IF right THEN pointer_right(model, p) ELSE pointer_left(model, p)
             net == IF right THEN 1 ELSE -1
  <1>1. /\ TypeInv /\ IsModel(model) /\ size \in Int
        /\ Cells(model) \subseteq Nat
        /\ delta \in Int /\ net \in Int
        /\ end \in pc..(Len(ops) + 1) /\ end <= Len(ops)
        /\ pc \in Nat /\ Len(ops) \in Nat
    BY ModelFacts DEF Inv, TypeInv, ExtendRight, ExtendLeft, InRun
  <1>2. /\ effect \in [Cells(model) -> Cells(model)]
        /\ low \in Cells(model) /\ high \in Cells(model) /\ low <= high
        /\ \A p \in Cells(model) : Moves(p)
    BY DEF Inv, PointerRun, ExtendRight, ExtendLeft
  <1>3. /\ UNCHANGED <<ops, model, pc, blocks, effects, mode>> /\ mode = "pointers"
        /\ delta' = delta + net
        /\ end' = end + 1
        /\ effect' = [p \in Cells(model) |-> step(effect[p])]
        /\ low' = IF right THEN Right(low) ELSE Left(low)
        /\ high' = IF right THEN Right(high) ELSE Left(high)
    BY <1>1, <1>2 DEF ExtendRight, ExtendLeft, args
  <1>4. low' \in Cells(model) /\ high' \in Cells(model) /\ low' <= high'
    BY <1>1, <1>2, <1>3, BoundSteps
  <1>5. TypeInv'
    BY <1>1, <1>3, <1>4 DEF TypeInv
  <1>6. ASSUME NEW p \in Cells(model)
        PROVE  /\ step(effect[p]) \in Cells(model)
               /\ model.wrapping => Congruent(p + delta', step(effect[p]), size)
               /\ ~model.wrapping => step(effect[p]) = Clamped(p + delta', low', high')
    <2>1. /\ effect[p] \in Cells(model) /\ effect[p] \in Int /\ p \in Int
          /\ p + delta \in Int /\ (p + delta) + net = p + delta' /\ delta' \in Int
      BY <1>1, <1>2, <1>3
    <2>2. Moves(p)
      BY <1>2
    <2>3. /\ step(effect[p]) \in Cells(model) /\ step(effect[p]) \in Int
          /\ model.wrapping => Congruent(effect[p] + net, step(effect[p]), size)
      <3>1. effect[p] - 1 = effect[p] + (-1)
        BY <2>1
      <3>2. CASE right
        <4>1. step(effect[p]) = pointer_right(model, effect[p]) /\ net = 1
          BY <3>2
        <4> HIDE DEF step, net
        <4>2. QED
          BY <1>1, <2>1, <4>1, PointerSteps
      <3>3. CASE ~right
        <4>1. step(effect[p]) = pointer_left(model, effect[p]) /\ net = -1
          BY <3>3
        <4> HIDE DEF step, net
        <4>2. QED
          BY <1>1, <2>1, <3>1, <4>1, PointerSteps
      <3>4. QED
        BY <3>2, <3>3
    <2>4. ASSUME model.wrapping
          PROVE  Congruent(p + delta', step(effect[p]), size)
      <3>1. Congruent(p + delta, effect[p], size)
        BY <2>2, <2>4 DEF Moves
      <3> HIDE DEF size, net, step
      <3>2. Congruent((p + delta) + net, effect[p] + net, size)
        BY <1>1, <2>1, <3>1, CongruentSum
      <3>3. (p + delta) + net \in Int /\ effect[p] + net \in Int
        BY <1>1, <2>1
      <3>4. Congruent((p + delta) + net, step(effect[p]), size)
        BY <1>1, <2>3, <2>4, <3>2, <3>3, CongruentTransitive
      <3>5. QED
        BY <2>1, <3>4
    <2>5. ASSUME ~model.wrapping
          PROVE  step(effect[p]) = Clamped(p + delta', low', high')
      <3>1. effect[p] = Clamped(p + delta, low, high)
        BY <2>2, <2>5 DEF Moves
      <3>2. /\ pointer_right(model, effect[p])
                 = Clamped((p + delta) + 1, Right(low), Right(high))
            /\ pointer_left(model, effect[p])
                 = Clamped((p + delta) - 1, Left(low), Left(high))
        BY <1>1, <1>2, <2>1, <2>5, <3>1, ClampedSteps
      <3>3. right => p + delta' = (p + delta) + 1
        BY <2>1
      <3>4. ~right => p + delta' = (p + delta) - 1
        BY <2>1
      <3>5. CASE right
        BY <1>3, <3>2, <3>3, <3>5
      <3>6. CASE ~right
        BY <1>3, <3>2, <3>4, <3>6
      <3>7. QED
        BY <3>5, <3>6
    <2>6. QED
      BY <2>3, <2>4, <2>5
  <1>7. effect' \in [Cells(model) -> Cells(model)]
    BY <1>3, <1>6
  <1>8. \A p \in Cells(model) : effect'[p] = step(effect[p])
    BY <1>3
  <1>9. PointerRun'
    BY <1>3, <1>4, <1>6, <1>7, <1>8 DEF PointerRun, Moves
  <1>10. QED
    BY <1>3, <1>5, <1>9 DEF Inv, ValueRun

LEMMA StorePointersInv ==
    ASSUME Inv, StorePointers
    PROVE  /\ Inv'
           /\ ValueFoldExact => ValueFoldExact'
           /\ SmallTapes /\ PointerFoldExact => PointerFoldExact'
  <1> DEFINE block == [kind |-> "pointers", end |-> end, delta |-> delta,
                       low |-> low, high |-> high]
  <1>1. /\ TypeInv /\ mode = "pointers" /\ IsModel(model) /\ model \in Models
        /\ low \in Nat /\ high \in Nat /\ end \in Nat /\ delta \in Int
    BY ModelFacts DEF Inv, TypeInv, StorePointers
  <1>2. /\ effect \in [Cells(model) -> Cells(model)]
        /\ low \in Cells(model) /\ high \in Cells(model) /\ low <= high
        /\ \A p \in Cells(model) : Moves(p)
    BY <1>1 DEF Inv, PointerRun
  <1>3. block \in Block
    BY <1>1 DEF Block, BlockKind
  <1>4. effect \in Effect(model)
    BY <1>2 DEF Effect
  <1>5. Store(block) /\ model' = model /\ mode' = "scan"
    BY DEF StorePointers, Store, args
  <1>6. /\ block.kind = "pointers" /\ block.delta = delta
        /\ block.low = low /\ block.high = high
    OBVIOUS
  <1> HIDE DEF block
  <1>7. /\ TypeInv'
        /\ \A i \in 1..Len(blocks') :
              \/ i \in 1..Len(blocks) /\ blocks'[i] = blocks[i] /\ effects'[i] = effects[i]
              \/ blocks'[i] = block /\ effects'[i] = effect
    BY <1>1, <1>3, <1>4, <1>5, StoreTypes
  <1>8. Inv'
    BY <1>5, <1>7 DEF Inv, ValueRun, PointerRun
  <1>9. ASSUME SmallTapes, NEW p \in Cells(model)
        PROVE  move_pointer(model, p, block.delta, block.low, block.high) = effect[p]
    <2>1. model.memory_size < HalfWord /\ effect[p] \in Cells(model) /\ Moves(p)
      BY <1>1, <1>2, <1>9 DEF SmallTapes
    <2>2. CASE model.wrapping
      BY <1>1, <1>6, <2>1, <2>2, WrapExact DEF Moves
    <2>3. CASE ~model.wrapping
      BY <1>1, <1>2, <1>6, <2>1, <2>3, ClampExact DEF Moves
    <2>4. QED
      BY <2>2, <2>3
  <1>10. ValueFoldExact => ValueFoldExact'
    BY <1>5, <1>6, <1>7 DEF ValueFoldExact
  <1>11. SmallTapes /\ PointerFoldExact => PointerFoldExact'
    BY <1>5, <1>7, <1>9 DEF PointerFoldExact, InRange
  <1>12. QED
    BY <1>8, <1>10, <1>11

LEMMA StoreSingleInv ==
    ASSUME Inv, StoreSingle
    PROVE  /\ Inv'
           /\ ValueFoldExact => ValueFoldExact'
           /\ PointerFoldExact => PointerFoldExact'
  <1> DEFINE block == [kind |-> "single", end |-> pc + 1, delta |-> 0,
                       low |-> 0, high |-> LastCell]
  <1>1. /\ TypeInv /\ mode = "scan" /\ LastCell \in Nat /\ pc \in Nat
        /\ pc <= Len(ops) /\ Len(ops) \in Nat
        /\ blocks \in Seq(Block) /\ Len(blocks) = pc - 1
        /\ effects \in Seq(Effect(model)) /\ Len(effects) = pc - 1
    BY ModelFacts DEF Inv, TypeInv, StoreSingle
  <1>2. block \in Block
    BY <1>1 DEF Block, BlockKind
  <1>3. << >> \in Effect(model)
    BY DEF Effect
  <1>4. /\ blocks' = Append(blocks, block) /\ effects' = Append(effects, << >>)
        /\ pc' = pc + 1 /\ UNCHANGED <<args, end, counters, effect, mode>>
    BY DEF StoreSingle
  <1>5. block.kind = "single"
    OBVIOUS
  <1> HIDE DEF block
  <1>6. /\ blocks' \in Seq(Block) /\ Len(blocks') = pc' - 1
        /\ \A i \in 1..Len(blocks') :
              \/ i \in 1..Len(blocks) /\ blocks'[i] = blocks[i]
              \/ blocks'[i] = block
    BY <1>1, <1>2, <1>4
  <1>7. /\ effects' \in Seq(Effect(model)) /\ Len(effects') = pc' - 1
        /\ \A i \in 1..Len(effects) : effects'[i] = effects[i]
    <2> DEFINE E == Effect(model)
    <2>1. << >> \in E /\ effects \in Seq(E)
      BY <1>1, <1>3
    <2> HIDE DEF E
    <2>2. effects' \in Seq(E)
      BY <1>4, <2>1
    <2>3. QED
      BY <1>1, <1>4, <2>1, <2>2 DEF E
  <1>8. TypeInv'
    BY <1>1, <1>4, <1>6, <1>7 DEF TypeInv, args, counters
  <1>9. Inv'
    BY <1>1, <1>4, <1>8 DEF Inv, ValueRun, PointerRun
  <1>10. model' = model
    BY <1>4 DEF args
  <1>11. ValueFoldExact => ValueFoldExact'
    BY <1>1, <1>5, <1>6, <1>7, <1>10 DEF ValueFoldExact
  <1>12. PointerFoldExact => PointerFoldExact'
    BY SMTT(30), <1>1, <1>5, <1>6, <1>7, <1>10 DEF PointerFoldExact
  <1>13. QED
    BY <1>9, <1>11, <1>12

LEMMA StillInv ==
    ASSUME Inv, Return \/ UNCHANGED vars
    PROVE  Inv' /\ UNCHANGED <<model, blocks, effects>>
  BY DEF Return, vars, args, counters, Inv, TypeInv, ValueRun, PointerRun, Moves

(* What is in the tables stays exact while the tables do not change.       *)
LEMMA Unchanged ==
    ASSUME UNCHANGED <<model, blocks, effects>>
    PROVE  /\ ValueFoldExact => ValueFoldExact'
           /\ PointerFoldExact => PointerFoldExact'
  BY DEF ValueFoldExact, PointerFoldExact, InRange

LEMMA NextInv ==
    ASSUME Inv, [Next]_vars
    PROVE  /\ Inv'
           /\ ValueFoldExact => ValueFoldExact'
           /\ SmallTapes /\ PointerFoldExact => PointerFoldExact'
  <1>1. CASE StartValues
    BY <1>1, StartValuesInv, Unchanged
  <1>2. CASE ExtendValues
    BY <1>2, ExtendValuesInv, Unchanged
  <1>3. CASE StoreValues
    BY <1>3, StoreValuesInv
  <1>4. CASE StartPointers
    BY <1>4, StartPointersInv, Unchanged
  <1>5. CASE ExtendRight \/ ExtendLeft
    BY <1>5, ExtendPointers, Unchanged
  <1>6. CASE StorePointers
    BY <1>6, StorePointersInv
  <1>7. CASE StoreSingle
    BY <1>7, StoreSingleInv
  <1>8. CASE Return \/ UNCHANGED vars
    BY <1>8, StillInv, Unchanged
  <1>9. QED
    BY <1>1, <1>2, <1>3, <1>4, <1>5, <1>6, <1>7, <1>8 DEF Next

-----------------------------------------------------------------------------
(* The table is the one that the state graph is built from.  A run from    *)
(* first to end - 1 that may go on.                                        *)
RunOf(code, labelled, first, next, kind) ==
    /\ first \in 1..Len(code)
    /\ next \in first..(Len(code) + 1)
    /\ StartsBlock(code, labelled, first)
    /\ InstrClass(code[first]) = kind
    /\ Unbroken(code, labelled, first, next - 1)
    /\ \A i \in first..(next - 1) : InstrClass(code[i]) = kind

LEMMA RunStarts ==
    ASSUME NEW code \in Seq(Instruction), NEW labelled, NEW first \in 1..Len(code),
           StartsBlock(code, labelled, first)
    PROVE  RunOf(code, labelled, first, first, InstrClass(code[first]))
  BY DEF RunOf, Unbroken

LEMMA RunGoesOn ==
    ASSUME NEW code \in Seq(Instruction), NEW labelled, NEW first, NEW next, NEW kind,
           kind # "single", RunOf(code, labelled, first, next, kind),
           next <= Len(code), next = first \/ next \notin labelled,
           InstrClass(code[next]) = kind
    PROVE  RunOf(code, labelled, first, next + 1, kind)
  <1>1. first \in 1..Len(code) /\ next \in first..Len(code) /\ Len(code) \in Nat
    BY DEF RunOf
  <1>2. next # first => ~StartsBlock(code, labelled, next)
    <2> SUFFICES ASSUME next # first PROVE ~StartsBlock(code, labelled, next)
      OBVIOUS
    <2>1. next - 1 \in first..(next - 1) /\ next # 1 /\ next # Len(code) + 1
      BY <1>1
    <2>2. InstrClass(code[next - 1]) = kind
      BY <2>1 DEF RunOf
    <2>3. QED
      BY <2>1, <2>2 DEF StartsBlock
  <1>3. (next + 1) - 1 = next /\ next + 1 \in first..(Len(code) + 1)
    BY <1>1
  <1>4. Unbroken(code, labelled, first, next)
    <2> SUFFICES ASSUME NEW i \in (first + 1)..next
                 PROVE  ~StartsBlock(code, labelled, i)
      BY DEF Unbroken
    <2>1. i = next \/ i \in (first + 1)..(next - 1)
      BY <1>1
    <2>2. i = next => next # first
      BY <1>1
    <2>3. Unbroken(code, labelled, first, next - 1)
      BY DEF RunOf
    <2>4. QED
      BY <1>2, <2>1, <2>2, <2>3 DEF Unbroken
  <1>5. \A i \in first..next : InstrClass(code[i]) = kind
    <2> SUFFICES ASSUME NEW i \in first..next PROVE InstrClass(code[i]) = kind
      OBVIOUS
    <2>1. i = next \/ i \in first..(next - 1)
      BY <1>1
    <2>2. QED
      BY <2>1 DEF RunOf
  <1>6. QED
    BY <1>1, <1>3, <1>4, <1>5 DEF RunOf

LEMMA RunEnds ==
    ASSUME NEW code \in Seq(Instruction), NEW labelled, NEW first, NEW next, NEW kind,
           RunOf(code, labelled, first, next, kind),
           ~ /\ next <= Len(code)
             /\ next = first \/ next \notin labelled
             /\ InstrClass(code[next]) = kind
    PROVE  /\ next \in (first + 1)..(Len(code) + 1)
           /\ StartsBlock(code, labelled, next)
  <1>1. /\ first \in 1..Len(code) /\ next \in first..(Len(code) + 1) /\ Len(code) \in Nat
        /\ InstrClass(code[first]) = kind
    BY DEF RunOf
  <1>2. next # first
    BY <1>1
  <1>3. next \in (first + 1)..(Len(code) + 1)
    BY <1>1, <1>2
  <1>4. CASE next = Len(code) + 1
    BY <1>3, <1>4 DEF StartsBlock
  <1>5. CASE next # Len(code) + 1 /\ next \in labelled
    BY <1>3, <1>5 DEF StartsBlock
  <1>6. CASE next # Len(code) + 1 /\ next \notin labelled
    <2>1. next <= Len(code) /\ next - 1 \in first..(next - 1)
      BY <1>1, <1>3, <1>6
    <2>2. InstrClass(code[next]) # kind
      BY <1>6, <2>1
    <2>3. InstrClass(code[next - 1]) = kind
      BY <2>1 DEF RunOf
    <2>4. QED
      BY <1>3, <2>2, <2>3 DEF StartsBlock
  <1>7. QED
    BY <1>4, <1>5, <1>6

LEMMA RunFolded ==
    ASSUME NEW code \in Seq(Instruction), NEW labelled, NEW first, NEW next, NEW kind, NEW m,
           RunOf(code, labelled, first, next, kind),
           next \in (first + 1)..(Len(code) + 1),
           StartsBlock(code, labelled, next)
    PROVE  \A i \in first..(next - 1) :
              FoldedBlock(code, labelled, m, i) = RunBlock(m, code, kind, first, next)
  <1>1. /\ first \in 1..Len(code)
        /\ StartsBlock(code, labelled, first)
        /\ InstrClass(code[first]) = kind
        /\ \A i \in (first + 1)..(next - 1) : ~StartsBlock(code, labelled, i)
    BY DEF RunOf, Unbroken
  <1>2. QED
    BY <1>1, FoldedSpan

-----------------------------------------------------------------------------
(* What the loops know about the run from pc to end - 1 and about the      *)
(* blocks stored before it.                                                *)
ScansStart ==
    /\ mode = "scan" => StartsBlock(ops, labels, pc)
    /\ mode = "done" => pc = Len(ops) + 1

FoldsValues ==
    mode = "values" =>
        /\ RunOf(ops, labels, pc, end, "values")
        /\ delta = Net(ops, "inc", "dec", pc, end)

FoldsPointers ==
    mode = "pointers" =>
        /\ RunOf(ops, labels, pc, end, "pointers")
        /\ delta = Net(ops, "right", "left", pc, end)
        /\ low = ClampedMoves(model, ops, pc, end, 0)
        /\ high = ClampedMoves(model, ops, pc, end, LastCell)

FoldsTable == \A i \in 1..Len(blocks) : blocks[i] = FoldedBlock(ops, labels, model, i)

FoldInv == ScansStart /\ FoldsValues /\ FoldsPointers /\ FoldsTable

LEMMA StartRunFolds ==
    ASSUME TypeInv, FoldInv, StartValues \/ StartPointers
    PROVE  FoldInv'
  <1>1. /\ ops \in Seq(Instruction) /\ pc \in 1..Len(ops) /\ mode = "scan" /\ pc \in Nat
        /\ UNCHANGED <<ops, labels, model, pc, blocks>> /\ end' = pc /\ delta' = 0
    BY DEF TypeInv, StartValues, StartPointers, args
  <1>2. StartsBlock(ops, labels, pc)
    BY <1>1 DEF FoldInv, ScansStart
  <1>3. RunOf(ops, labels, pc, pc, InstrClass(ops[pc]))
    BY <1>1, <1>2, RunStarts
  <1>4. FoldsTable'
    BY <1>1 DEF FoldInv, FoldsTable
  <1>5. CASE StartValues
    <2>1. mode' = "values" /\ InstrClass(ops[pc]) = "values"
      BY <1>5, Classes DEF StartValues
    <2>2. Net(ops, "inc", "dec", pc, pc) = 0
      BY <1>1, NetNone
    <2>3. FoldsValues'
      BY <1>1, <1>3, <2>1, <2>2 DEF FoldsValues
    <2>4. QED
      BY <1>4, <2>1, <2>3 DEF FoldInv, ScansStart, FoldsPointers
  <1>6. CASE StartPointers
    <2>1. /\ mode' = "pointers" /\ InstrClass(ops[pc]) = "pointers"
          /\ low' = 0 /\ high' = LastCell /\ LastCell' = LastCell
      BY <1>1, <1>6, Classes DEF StartPointers, LastCell
    <2>2. /\ Net(ops, "right", "left", pc, pc) = 0
          /\ ClampedMoves(model, ops, pc, pc, 0) = 0
          /\ ClampedMoves(model, ops, pc, pc, LastCell) = LastCell
      BY <1>1, NetNone, ClampedMovesFirst
    <2>3. FoldsPointers'
      BY <1>1, <1>3, <2>1, <2>2 DEF FoldsPointers
    <2>4. QED
      BY <1>4, <2>1, <2>3 DEF FoldInv, ScansStart, FoldsValues
  <1>7. QED
    BY <1>5, <1>6

LEMMA ExtendValuesFolds ==
    ASSUME TypeInv, FoldInv, ExtendValues
    PROVE  FoldInv'
  <1>1. /\ ops \in Seq(Instruction) /\ pc \in Nat /\ end \in Nat /\ pc <= end /\ end <= Len(ops)
        /\ mode = "values" /\ mode' = "values" /\ end' = end + 1
        /\ UNCHANGED <<ops, labels, model, pc, blocks>>
        /\ end = pc \/ end \notin labels
        /\ ops[end] \in {"inc", "dec"} /\ is_value_instruction(ops[end])
        /\ delta' = IF ops[end] = "inc" THEN delta + 1 ELSE delta - 1
    BY DEF TypeInv, ExtendValues, InRun, args, is_value_instruction
  <1>2. RunOf(ops, labels, pc, end, "values") /\ delta = Net(ops, "inc", "dec", pc, end)
    BY <1>1 DEF FoldInv, FoldsValues
  <1>3. RunOf(ops, labels, pc, end + 1, "values")
    BY <1>1, <1>2, Classes, RunGoesOn
  <1>4. delta' = Net(ops, "inc", "dec", pc, end + 1)
    BY <1>1, <1>2, NetNext
  <1>5. FoldsTable'
    BY <1>1 DEF FoldInv, FoldsTable
  <1>6. FoldsValues'
    BY <1>1, <1>3, <1>4 DEF FoldsValues
  <1>7. QED
    BY <1>1, <1>5, <1>6 DEF FoldInv, ScansStart, FoldsPointers

LEMMA ExtendPointersFolds ==
    ASSUME Inv, FoldInv, ExtendRight \/ ExtendLeft
    PROVE  FoldInv'
  <1>1. /\ ops \in Seq(Instruction) /\ pc \in Nat /\ end \in Nat /\ pc <= end /\ end <= Len(ops)
        /\ mode = "pointers" /\ mode' = "pointers" /\ end' = end + 1
        /\ UNCHANGED <<ops, labels, model, pc, blocks>>
        /\ end = pc \/ end \notin labels
        /\ ops[end] \in {"right", "left"}
        /\ delta' = IF ops[end] = "right" THEN delta + 1 ELSE delta - 1
        /\ low' = IF ops[end] = "right" THEN Right(low) ELSE Left(low)
        /\ high' = IF ops[end] = "right" THEN Right(high) ELSE Left(high)
    BY DEF Inv, TypeInv, ExtendRight, ExtendLeft, InRun, args
  <1>2. /\ RunOf(ops, labels, pc, end, "pointers") /\ delta = Net(ops, "right", "left", pc, end)
        /\ low = ClampedMoves(model, ops, pc, end, 0)
        /\ high = ClampedMoves(model, ops, pc, end, LastCell)
    BY <1>1 DEF FoldInv, FoldsPointers
  <1>3. RunOf(ops, labels, pc, end + 1, "pointers")
    <2>1. InstrClass(ops[end]) = "pointers"
      BY <1>1, Classes DEF is_pointer_instruction
    <2>2. QED
      BY <1>1, <1>2, <2>1, RunGoesOn
  <1>4. delta' = Net(ops, "right", "left", pc, end + 1)
    BY <1>1, <1>2, NetNext
  <1>5. ASSUME NEW bound \in Cells(model)
        PROVE  ClampedMove(model, ops[end], bound)
                 = IF ops[end] = "right" THEN Right(bound) ELSE Left(bound)
    <2>1. IsModel(model) /\ Cells(model) \subseteq Nat
      BY ModelFacts DEF Inv
    <2>2. QED
      BY <2>1 DEF ClampedMove, Right, Left, LastCell, Cells, IsModel, pointer_right, pointer_left
  <1>6. low \in Cells(model) /\ high \in Cells(model)
    BY <1>1 DEF Inv, PointerRun
  <1>7. /\ low' = ClampedMoves(model, ops, pc, end + 1, 0)
        /\ high' = ClampedMoves(model, ops, pc, end + 1, LastCell)
    BY <1>1, <1>2, <1>5, <1>6, ClampedMovesNext
  <1>8. FoldsTable'
    BY <1>1 DEF FoldInv, FoldsTable
  <1>9. FoldsPointers'
    BY <1>1, <1>3, <1>4, <1>7 DEF FoldsPointers, LastCell
  <1>10. QED
    BY <1>1, <1>8, <1>9 DEF FoldInv, ScansStart, FoldsValues

(* Storing the block of a run that has ended.                              *)
LEMMA StoreFolds ==
    ASSUME TypeInv, FoldInv, NEW kind \in {"values", "pointers"}, mode = kind,
           RunOf(ops, labels, pc, end, kind),
           ~(InRun /\ InstrClass(ops[end]) = kind),
           NEW block \in Block, block = RunBlock(model, ops, kind, pc, end),
           effect \in Effect(model), Store(block)
    PROVE  FoldInv'
  <1>1. /\ UNCHANGED <<ops, labels, model>> /\ mode' = "scan" /\ pc' = end
        /\ ops \in Seq(Instruction)
    BY DEF Store, args, TypeInv
  <1>2. end \in (pc + 1)..(Len(ops) + 1) /\ StartsBlock(ops, labels, end)
    BY <1>1, RunEnds DEF InRun
  <1>3. \A i \in pc..(end - 1) : FoldedBlock(ops, labels, model, i) = block
    BY <1>1, <1>2, RunFolded
  <1>4. \A i \in 1..Len(blocks') :
            \/ i \in 1..Len(blocks) /\ blocks'[i] = blocks[i]
            \/ i \in pc..(end - 1) /\ blocks'[i] = block
    BY StoreTypes
  <1>5. FoldsTable'
    BY <1>1, <1>3, <1>4 DEF FoldInv, FoldsTable
  <1>6. QED
    BY <1>1, <1>2, <1>5 DEF FoldInv, ScansStart, FoldsValues, FoldsPointers

LEMMA StoreValuesFolds ==
    ASSUME Inv, FoldInv, StoreValues
    PROVE  FoldInv'
  <1> DEFINE block == [kind |-> "values", end |-> end,
                       delta |-> Remainder(delta, model.max_value + 1),
                       low |-> 0, high |-> LastCell]
  <1>1. /\ TypeInv /\ mode = "values" /\ LastCell \in Nat /\ end \in Nat /\ delta \in Int
        /\ model.max_value + 1 \in Nat \ {0}
    BY ModelFacts DEF Inv, TypeInv, StoreValues
  <1>2. block \in Block
    <2>1. block.delta \in Int
      BY <1>1, CongruentRemainder
    <2>2. QED
      BY <1>1, <2>1 DEF Block, BlockKind
  <1>3. effect \in Effect(model)
    BY <1>1 DEF Inv, ValueRun, Effect
  <1>4. RunOf(ops, labels, pc, end, "values") /\ delta = Net(ops, "inc", "dec", pc, end)
    BY <1>1 DEF FoldInv, FoldsValues
  <1>5. block = RunBlock(model, ops, "values", pc, end)
    BY <1>4 DEF RunBlock, Net, LastCell
  <1>6. Store(block) /\ ~(InRun /\ InstrClass(ops[end]) = "values")
    BY Classes DEF StoreValues
  <1> HIDE DEF block
  <1>7. QED
    BY <1>1, <1>2, <1>3, <1>4, <1>5, <1>6, StoreFolds

LEMMA StorePointersFolds ==
    ASSUME Inv, FoldInv, StorePointers
    PROVE  FoldInv'
  <1> DEFINE block == [kind |-> "pointers", end |-> end, delta |-> delta,
                       low |-> low, high |-> high]
  <1>1. /\ TypeInv /\ mode = "pointers" /\ end \in Nat /\ delta \in Int
        /\ low \in Nat /\ high \in Nat
    BY DEF Inv, TypeInv, StorePointers
  <1>2. block \in Block
    BY <1>1 DEF Block, BlockKind
  <1>3. effect \in Effect(model)
    BY <1>1 DEF Inv, PointerRun, Effect
  <1>4. /\ RunOf(ops, labels, pc, end, "pointers") /\ delta = Net(ops, "right", "left", pc, end)
        /\ low = ClampedMoves(model, ops, pc, end, 0)
        /\ high = ClampedMoves(model, ops, pc, end, LastCell)
    BY <1>1 DEF FoldInv, FoldsPointers
  <1>5. block = RunBlock(model, ops, "pointers", pc, end)
    BY <1>4 DEF RunBlock, Net, LastCell
  <1>6. Store(block) /\ ~(InRun /\ InstrClass(ops[end]) = "pointers")
    BY Classes DEF StorePointers
  <1> HIDE DEF block
  <1>7. QED
    BY <1>1, <1>2, <1>3, <1>4, <1>5, <1>6, StoreFolds

LEMMA StoreSingleFolds ==
    ASSUME Inv, FoldInv, StoreSingle
    PROVE  FoldInv'
  <1> DEFINE block == [kind |-> "single", end |-> pc + 1, delta |-> 0,
                       low |-> 0, high |-> LastCell]
  <1>1. /\ ops \in Seq(Instruction) /\ pc \in 1..Len(ops) /\ Len(ops) \in Nat /\ mode = "scan"
        /\ blocks \in Seq(Block) /\ Len(blocks) = pc - 1
        /\ LastCell \in Nat
    BY ModelFacts DEF Inv, TypeInv, StoreSingle
  <1>2. /\ UNCHANGED <<ops, labels, model, mode>> /\ pc' = pc + 1
        /\ blocks' = Append(blocks, block)
    BY DEF StoreSingle, args
  <1>3. InstrClass(ops[pc]) = "single"
    BY Classes DEF StoreSingle
  <1>4. StartsBlock(ops, labels, pc)
    BY <1>1 DEF FoldInv, ScansStart
  <1>5. StartsBlock(ops, labels, pc + 1)
    <2>1. (pc + 1) - 1 = pc
      BY <1>1
    <2>2. QED
      BY <1>3, <2>1 DEF StartsBlock
  <1>6. FoldedBlock(ops, labels, model, pc) = block
    <2>1. pc + 1 \in (pc + 1)..(Len(ops) + 1) /\ pc \in pc..((pc + 1) - 1)
      BY <1>1
    <2>2. \A i \in (pc + 1)..((pc + 1) - 1) : ~StartsBlock(ops, labels, i)
      BY <1>1
    <2>3. FoldedBlock(ops, labels, model, pc) = RunBlock(model, ops, "single", pc, pc + 1)
      BY <1>1, <1>3, <1>4, <1>5, <2>1, <2>2, FoldedSpan
    <2>4. QED
      BY <2>3 DEF RunBlock, LastCell
  <1>7. block \in Block
    BY <1>1 DEF Block, BlockKind
  <1> HIDE DEF block
  <1>8. \A i \in 1..Len(blocks') :
            \/ i \in 1..Len(blocks) /\ blocks'[i] = blocks[i]
            \/ i = pc /\ blocks'[i] = block
    BY <1>1, <1>2, <1>7
  <1>9. FoldsTable'
    BY <1>2, <1>6, <1>8 DEF FoldInv, FoldsTable
  <1>10. QED
    BY <1>1, <1>2, <1>5, <1>9 DEF FoldInv, ScansStart, FoldsValues, FoldsPointers

LEMMA InitFolds == Init => FoldInv
  BY DEF Init, FoldInv, ScansStart, FoldsValues, FoldsPointers, FoldsTable, StartsBlock

LEMMA NextFolds ==
    ASSUME Inv, FoldInv, [Next]_vars
    PROVE  FoldInv'
  <1>1. CASE StartValues \/ StartPointers
    BY <1>1, StartRunFolds DEF Inv
  <1>2. CASE ExtendValues
    BY <1>2, ExtendValuesFolds DEF Inv
  <1>3. CASE ExtendRight \/ ExtendLeft
    BY <1>3, ExtendPointersFolds
  <1>4. CASE StoreValues
    BY <1>4, StoreValuesFolds
  <1>5. CASE StorePointers
    BY <1>5, StorePointersFolds
  <1>6. CASE StoreSingle
    BY <1>6, StoreSingleFolds
  <1>7. CASE Return
    <2>1. pc = Len(ops) + 1
      BY <1>7 DEF Return, Inv, TypeInv
    <2>2. QED
      BY <1>7, <2>1
         DEF Return, FoldInv, ScansStart, FoldsValues, FoldsPointers, FoldsTable, args
  <1>8. CASE UNCHANGED vars
    BY <1>8 DEF vars, args, counters, FoldInv, ScansStart, FoldsValues, FoldsPointers,
                FoldsTable, LastCell
  <1>9. QED
    BY <1>1, <1>2, <1>3, <1>4, <1>5, <1>6, <1>7, <1>8 DEF Next

(* When the loops are done they have an entry for every instruction.       *)
LEMMA TableFolds ==
    ASSUME Inv, FoldInv
    PROVE  TableIsFolded
  <1> SUFFICES ASSUME mode = "done" PROVE blocks = FoldedTable(ops, labels, model)
    BY DEF TableIsFolded
  <1> DEFINE table == FoldedTable(ops, labels, model)
  <1>1. blocks \in Seq(Block) /\ Len(blocks) = Len(ops) /\ Len(ops) \in Nat
    BY DEF Inv, TypeInv, FoldInv, ScansStart
  <1>2. /\ DOMAIN table = 1..Len(ops)
        /\ \A i \in 1..Len(ops) : table[i] = FoldedBlock(ops, labels, model, i)
        /\ table = [i \in DOMAIN table |-> table[i]]
    BY DEF FoldedTable
  <1>3. \A i \in 1..Len(ops) : blocks[i] = table[i]
    BY <1>1, <1>2 DEF FoldInv, FoldsTable
  <1> HIDE DEF table
  <1>4. blocks = [i \in 1..Len(ops) |-> blocks[i]]
    BY <1>1
  <1>5. QED
    BY <1>2, <1>3, <1>4 DEF table

-----------------------------------------------------------------------------
(* Every reachable state of build_blocks() satisfies the invariant.        *)
THEOREM Invariance == Spec => []Inv
  <1>1. Inv /\ [Next]_vars => Inv'
    BY NextInv
  <1>2. QED
    BY <1>1, InitInv, PTL DEF Spec

(* "Value folding is exact", for runs of every length, every cell width    *)
(* that divides the word and every content: the reduced delta gives what   *)
(* the + and - of the run give one at a time.                              *)
THEOREM ValuesExact == Spec => []ValueFoldExact
  <1>1. Inv /\ ValueFoldExact /\ [Next]_vars => ValueFoldExact'
    BY NextInv
  <1>2. QED
    BY <1>1, InitInv, Invariance, PTL DEF Spec

(* "> and < folding is exact on both tape modes", on every tape that is    *)
(* smaller than half a word, from every cell and for runs of every length. *)
THEOREM PointersExact == ASSUME SmallTapes PROVE Spec => []PointerFoldExact
  <1>1. Inv /\ PointerFoldExact /\ [Next]_vars => PointerFoldExact'
    BY NextInv
  <1>2. QED
    BY <1>1, InitInv, Invariance, PTL DEF Spec

(* build_blocks() computes the table that the state graph is built from,   *)
(* for every program and every placing of the labels: a block is a longest *)
(* run of one class that no label interrupts, and all its pointers share   *)
(* it.                                                                     *)
THEOREM TableFolded == Spec => []TableIsFolded
  <1>1. Inv /\ FoldInv /\ [Next]_vars => FoldInv'
    BY NextFolds
  <1>2. Inv /\ FoldInv => TableIsFolded
    BY TableFolds
  <1>3. QED
    BY <1>1, <1>2, InitFolds, Invariance, PTL DEF Spec

=============================================================================

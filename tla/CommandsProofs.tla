--------------------------- MODULE CommandsProofs ---------------------------
(***************************************************************************)
(* The verdicts of the commands and the runs that they print, for every    *)
(* program whose tape is smaller than half a word.                         *)
(*                                                                         *)
(* The searches are characterised by sets of states: a run that satisfies  *)
(* what a search looks for exists iff a reachable state, or a set of       *)
(* states that sustains itself, exists.  The folded graph and the graph of *)
(* single instructions are then compared on such sets.  What is printed of *)
(* a run is walked instruction by instruction.                             *)
(***************************************************************************)
EXTENDS Commands, OperatorProofs

-----------------------------------------------------------------------------
(* Recursive definitions over a set D whose values are sets: each value is *)
(* a base and the values of what comes after.  The recursion may be        *)
(* circular.                                                               *)
IsUnionOf(D, base, kids, f) ==
    f = [x \in D |-> base[x] \cup UNION {f[y] : y \in kids[x]}]

KidsClosed(kids, S) == \A x \in S : kids[x] \subseteq S

Descendants(D, kids, x) ==
    {y \in D : \A S \in SUBSET D : x \in S /\ KidsClosed(kids, S) => y \in S}

LEMMA DescendantsFacts ==
    ASSUME NEW D, NEW kids, KidsClosed(kids, D), NEW x \in D
    PROVE  /\ Descendants(D, kids, x) \subseteq D
           /\ Descendants(D, kids, x)
                = {x} \cup UNION {Descendants(D, kids, y) : y \in kids[x]}
  <1> DEFINE Desc(y) == Descendants(D, kids, y)
             all == {x} \cup UNION {Desc(y) : y \in kids[x]}
  <1>1. /\ \A y : Desc(y) \subseteq D
        /\ \A y \in D : y \in Desc(y)
        /\ \A y \in D : KidsClosed(kids, Desc(y))
    BY DEF Descendants, KidsClosed
  <1>2. kids[x] \subseteq D
    BY DEF KidsClosed
  <1>3. all \subseteq Desc(x)
    BY <1>2 DEF Descendants, KidsClosed
  <1>4. Desc(x) \subseteq all
    <2>1. all \in SUBSET D /\ x \in all
      BY <1>1
    <2>2. KidsClosed(kids, all)
      <3> SUFFICES ASSUME NEW w \in all, NEW k \in kids[w]
                   PROVE  k \in all
        BY DEF KidsClosed
      <3>1. CASE w = x
        <4>1. k \in D /\ k \in kids[x]
          BY <1>2, <3>1
        <4>2. k \in Desc(k)
          BY <1>1, <4>1
        <4>3. QED
          BY <4>1, <4>2
      <3>2. CASE w # x
        <4> HIDE DEF Desc
        <4>1. PICK y \in kids[x] : w \in Desc(y)
          BY <3>2
        <4>2. k \in Desc(y)
          BY <1>1, <1>2, <4>1 DEF KidsClosed
        <4>3. QED
          BY <4>1, <4>2
      <3>3. QED
        BY <3>1, <3>2
    <2>3. QED
      <3> HIDE DEF all
      <3>1. QED
        BY <2>1, <2>2 DEF Descendants
  <1>5. QED
    BY <1>1, <1>3, <1>4

LEMMA UnionRecursion ==
    ASSUME NEW D, NEW base, NEW kids, KidsClosed(kids, D)
    PROVE  \E f : IsUnionOf(D, base, kids, f)
  <1> DEFINE Desc(y) == Descendants(D, kids, y)
             f == [x \in D |-> UNION {base[y] : y \in Desc(x)}]
             g == [x \in D |-> base[x] \cup UNION {f[y] : y \in kids[x]}]
  <1>1. ASSUME NEW x \in D PROVE f[x] = g[x]
    <2>1. Desc(x) = {x} \cup UNION {Desc(y) : y \in kids[x]}
      BY DescendantsFacts
    <2>2. kids[x] \subseteq D
      BY DEF KidsClosed
    <2>3. \A y \in kids[x] : f[y] = UNION {base[z] : z \in Desc(y)}
      BY <2>2
    <2> HIDE DEF Desc
    <2>4. f[x] = UNION {base[z] : z \in Desc(x)}
      OBVIOUS
    <2>5. g[x] = base[x] \cup UNION {f[y] : y \in kids[x]}
      OBVIOUS
    <2> HIDE DEF f, g
    <2>6. ASSUME NEW e \in f[x] PROVE e \in g[x]
      BY <2>1, <2>3, <2>4, <2>5, <2>6
    <2>7. ASSUME NEW e \in g[x] PROVE e \in f[x]
      BY <2>1, <2>3, <2>4, <2>5, <2>7
    <2>8. QED
      BY <2>6, <2>7
  <1>2. f = g
    <2>1. f = [x \in D |-> f[x]] /\ g = [x \in D |-> g[x]]
      OBVIOUS
    <2> HIDE DEF f, g
    <2>2. QED
      BY <1>1, <2>1
  <1>3. QED
    BY <1>2 DEF IsUnionOf

(* Recursive definitions that go on until they stop.                       *)
IsTailOf(D, stop, base, next, f) ==
    f = [x \in D |-> IF x \in stop THEN base[x] ELSE f[next[x]]]

LEMMA TailRecursion ==
    ASSUME NEW D, NEW stop, NEW base, NEW next, \A x \in D \ stop : next[x] \in D
    PROVE  \E f : IsTailOf(D, stop, base, next, f)
  <1> DEFINE before == [x \in D |-> IF x \in stop THEN base[x] ELSE {}]
             kids == [x \in D |-> IF x \in stop THEN {} ELSE {next[x]}]
  <1>1. KidsClosed(kids, D)
    BY DEF KidsClosed
  <1>2. PICK f : IsUnionOf(D, before, kids, f)
    <2> HIDE DEF before, kids
    <2>1. QED
      BY <1>1, UnionRecursion
  <1>3. \A x \in D : f[x] = before[x] \cup UNION {f[y] : y \in kids[x]}
    <2> HIDE DEF before, kids
    <2>1. QED
      BY <1>2 DEF IsUnionOf
  <1>4. ASSUME NEW x \in D PROVE f[x] = IF x \in stop THEN base[x] ELSE f[next[x]]
    <2>1. CASE x \in stop
      <3>1. before[x] = base[x] /\ kids[x] = {}
        BY <2>1
      <3>2. f[x] = before[x] \cup UNION {f[y] : y \in {}}
        BY <1>3, <3>1
      <3> HIDE DEF before, kids
      <3>3. QED
        BY <2>1, <3>1, <3>2
    <2>2. CASE x \notin stop
      <3>1. before[x] = {} /\ kids[x] = {next[x]}
        BY <2>2
      <3>2. f[x] = {} \cup UNION {f[y] : y \in {next[x]}}
        BY <1>3, <3>1
      <3>3. QED
        BY <2>2, <3>2
    <2>3. QED
      BY <2>1, <2>2
  <1>5. f = [x \in D |-> f[x]]
    BY <1>2 DEF IsUnionOf
  <1>6. f = [x \in D |-> IF x \in stop THEN base[x] ELSE f[next[x]]]
    BY <1>4, <1>5
  <1>7. QED
    BY <1>6 DEF IsTailOf

-----------------------------------------------------------------------------
(* Of values that are subsets of a finite set, one is not part of another. *)
LEMMA LargestValue ==
    ASSUME NEW K, IsFiniteSet(K), NEW Bad, Bad # {},
           NEW v, \A x \in Bad : v[x] \subseteq K
    PROVE  \E x \in Bad : \A y \in Bad : v[x] \subseteq v[y] => v[y] = v[x]
  <1> DEFINE T == {Cardinality(K \ v[x]) : x \in Bad}
  <1>1. \A x \in Bad : /\ IsFiniteSet(K \ v[x]) /\ Cardinality(K \ v[x]) \in Nat
    <2> TAKE x \in Bad
    <2>1. K \ v[x] \in SUBSET K
      OBVIOUS
    <2>2. IsFiniteSet(K \ v[x])
      BY <2>1, FS_Subset
    <2>3. QED
      BY <2>2, FS_CardinalityType
  <1>2. T \in SUBSET Nat /\ T # {}
    BY <1>1
  <1>3. PICK t \in T : \A u \in T : t <= u
    <2> HIDE DEF T
    <2>1. QED
      BY <1>2, LeastElement
  <1>4. PICK x \in Bad : t = Cardinality(K \ v[x])
    OBVIOUS
  <1>5. ASSUME NEW y \in Bad, v[x] \subseteq v[y]
        PROVE  v[y] = v[x]
    <2>1. Cardinality(K \ v[x]) <= Cardinality(K \ v[y])
      BY <1>3, <1>4
    <2>2. K \ v[y] \in SUBSET (K \ v[x])
      BY <1>5
    <2>3. /\ Cardinality(K \ v[y]) <= Cardinality(K \ v[x])
          /\ Cardinality(K \ v[x]) = Cardinality(K \ v[y]) => K \ v[x] = K \ v[y]
      BY <1>1, <2>2, FS_Subset
    <2>4. Cardinality(K \ v[x]) = Cardinality(K \ v[y])
      BY <1>1, <2>1, <2>3
    <2>5. K \ v[x] = K \ v[y]
      BY <2>3, <2>4
    <2>6. v[x] \subseteq K /\ v[y] \subseteq K
      OBVIOUS
    <2>7. QED
      BY <2>5, <2>6
  <1>6. QED
    BY <1>5

LEMMA LargestSet ==
    ASSUME NEW K, IsFiniteSet(K), NEW Bad \in SUBSET SUBSET K, Bad # {}
    PROVE  \E x \in Bad : \A y \in Bad : x \subseteq y => y = x
  <1> DEFINE v == [x \in Bad |-> x]
  <1>1. \A x \in Bad : v[x] \subseteq K
    OBVIOUS
  <1>2. PICK x \in Bad : \A y \in Bad : v[x] \subseteq v[y] => v[y] = v[x]
    <2> HIDE DEF v
    <2>1. \E x \in Bad : \A y \in Bad : v[x] \subseteq v[y] => v[y] = v[x]
      BY ONLY <1>1, LargestValue, IsFiniteSet(K), Bad # {}
    <2>2. QED
      BY ONLY <2>1
  <1>3. QED
    BY <1>2

-----------------------------------------------------------------------------
(* The states of a program: finitely many, and the updates stay inside.    *)
Remaining(p) ==
    IF p.io_model.chars_until_eof = NoValue THEN {NoValue}
    ELSE 0..p.io_model.chars_until_eof

LEMMA KStateMembers ==
    ASSUME NEW p, IsProgram(p)
    PROVE  /\ Remaining(p) \subseteq BudgetValues
           /\ \A s : s \in KState(p) <=> IsState(p, s) /\ s.remaining \in Remaining(p)
  <1>1. Remaining(p) \subseteq BudgetValues
    BY ProgramFacts DEF Remaining, BudgetValues, IsIOModel
  <1>2. ASSUME NEW s, s \in KState(p)
        PROVE  IsState(p, s) /\ s.remaining \in Remaining(p)
    BY <1>1, <1>2 DEF KState, IsState, State, Tapes, Model, Remaining, instr_count
  <1>3. ASSUME NEW s, IsState(p, s), s.remaining \in Remaining(p)
        PROVE  s \in KState(p)
    BY <1>3 DEF KState, IsState, State, Tapes, Model, Remaining, instr_count
  <1>4. QED
    BY <1>1, <1>2, <1>3

LEMMA InitialState ==
    ASSUME NEW p, IsProgram(p), NEW fold \in Folding
    PROVE  /\ initial_state(p) \in KState(p)
           /\ AtStart(p, fold, initial_state(p))
  <1>1. /\ IsIOModel(p.io_model) /\ 0 \in Cells(Model(p)) /\ 0 \in CellValues(Model(p))
        /\ Len(p.ops) \in Nat
    BY ProgramFacts, TapeFacts
  <1>2. initial_state(p) \in KState(p)
    BY <1>1 DEF initial_state, KState, Model, instr_count, IsIOModel
  <1>3. AtStart(p, fold, initial_state(p))
    BY DEF AtStart, initial_state, StartsBlock
  <1>4. QED
    BY <1>2, <1>3

(* A record stands for its fields, and the memory for its graph.           *)
Parts(p, s) ==
    <<<<s.pc, s.mem_ptr>>,
      <<{<<cell, s.memory[cell]>> : cell \in Cells(Model(p))}, s.remaining>>>>

LEMMA PartsInjective ==
    ASSUME NEW p, IsProgram(p), NEW s \in KState(p), NEW t \in KState(p),
           Parts(p, s) = Parts(p, t)
    PROVE  s = t
  <1>1. /\ s.pc = t.pc /\ s.mem_ptr = t.mem_ptr /\ s.remaining = t.remaining
        /\ {<<cell, s.memory[cell]>> : cell \in Cells(Model(p))}
              = {<<cell, t.memory[cell]>> : cell \in Cells(Model(p))}
    BY DEF Parts
  <1>2. ASSUME NEW cell \in Cells(Model(p)) PROVE s.memory[cell] = t.memory[cell]
    <2>1. <<cell, s.memory[cell]>> \in {<<c, t.memory[c]>> : c \in Cells(Model(p))}
      BY <1>1
    <2>2. QED
      BY <2>1
  <1>3. IsState(p, s) /\ IsState(p, t)
    BY KStateMembers
  <1>4. s.memory = t.memory
    BY <1>2, <1>3 DEF IsState, Tapes
  <1>5. QED
    BY <1>1, <1>3, <1>4 DEF IsState

LEMMA KStateFinite ==
    ASSUME NEW p, IsProgram(p)
    PROVE  IsFiniteSet(KState(p))
  <1> DEFINE A == 1..(Len(p.ops) + 1)
             B == Cells(Model(p))
             V == CellValues(Model(p))
             C == SUBSET (B \X V)
             R == Remaining(p)
             whole == (A \X B) \X (C \X R)
             f == [s \in KState(p) |-> Parts(p, s)]
  <1>1. /\ Len(p.ops) \in Nat /\ Model(p).memory_size \in Nat /\ Model(p).max_value \in Nat
        /\ IsIOModel(p.io_model)
    BY ProgramFacts, TapeFacts
  <1>2. IsFiniteSet(A) /\ IsFiniteSet(B) /\ IsFiniteSet(V)
    <2>1. Len(p.ops) + 1 \in Int /\ Model(p).memory_size - 1 \in Int /\ Model(p).max_value \in Int
      BY <1>1
    <2>2. QED
      BY <2>1, FS_Interval DEF Cells, CellValues
  <1>3. IsFiniteSet(R)
    <2>1. CASE p.io_model.chars_until_eof = NoValue
      BY <2>1, FS_Singleton DEF Remaining
    <2>2. CASE p.io_model.chars_until_eof # NoValue
      <3>1. p.io_model.chars_until_eof \in Int
        BY <1>1, <2>2 DEF IsIOModel
      <3>2. QED
        BY <2>2, <3>1, FS_Interval DEF Remaining
    <2>3. QED
      BY <2>1, <2>2
  <1>4. IsFiniteSet(whole)
    <2> HIDE DEF A, B, V, R
    <2>1. IsFiniteSet(B \X V)
      BY <1>2, FS_Product
    <2>2. IsFiniteSet(C)
      BY <2>1, FS_SUBSET
    <2> HIDE DEF C
    <2>3. IsFiniteSet(A \X B) /\ IsFiniteSet(C \X R)
      BY <1>2, <1>3, <2>2, FS_Product
    <2>4. QED
      BY <2>3, FS_Product
  <1>5. ASSUME NEW s \in KState(p) PROVE Parts(p, s) \in whole
    <2>1. /\ s.pc \in A /\ s.mem_ptr \in B /\ s.memory \in [B -> V] /\ s.remaining \in R
      BY KStateMembers DEF IsState, Tapes
    <2>2. {<<cell, s.memory[cell]>> : cell \in B} \in C
      BY <2>1
    <2> HIDE DEF A, V, C, R
    <2>3. QED
      BY <2>1, <2>2 DEF Parts
  <1>6. f \in [KState(p) -> whole]
    <2> HIDE DEF whole
    <2>1. QED
      BY <1>5
  <1>7. f \in Injection(KState(p), whole)
    <2>1. \A s, t \in KState(p) : f[s] = f[t] => s = t
      BY PartsInjective
    <2> HIDE DEF f, whole
    <2>2. QED
      BY <1>6, <2>1 DEF Injection, IsInjective
  <1>8. QED
    <2> HIDE DEF f, whole
    <2>1. QED
      BY <1>4, <1>7, FS_Injection

(* The table's entry for a pointer inside a run is that of its start.      *)
LEMMA EntryOfRun ==
    ASSUME NEW p, IsProgram(p), NEW pc \in 1..Len(p.ops)
    PROVE  \E first \in 1..Len(p.ops), end \in 1..(Len(p.ops) + 1) :
              /\ first < end
              /\ block_at(p, pc) = RunBlock(Model(p), p.ops, InstrClass(p.ops[first]), first, end)
  <1> DEFINE labelled == Labelled(p)
             first == BlockStart(p.ops, labelled, pc)
             end == BlockEnd(p.ops, labelled, pc)
  <1>1. p.ops \in Seq(Instruction) /\ p.blocks = FoldedTable(p.ops, labelled, Model(p))
        /\ Len(p.ops) \in Nat
    BY ProgramFacts
  <1>2. /\ first \in 1..pc /\ StartsBlock(p.ops, labelled, first)
        /\ \A i \in (first + 1)..pc : ~StartsBlock(p.ops, labelled, i)
    BY <1>1, BlockStartFacts
  <1>3. /\ end \in (pc + 1)..(Len(p.ops) + 1) /\ StartsBlock(p.ops, labelled, end)
        /\ \A i \in (pc + 1)..(end - 1) : ~StartsBlock(p.ops, labelled, i)
    BY <1>1, BlockEndFacts
  <1>4. block_at(p, pc) = FoldedBlock(p.ops, labelled, Model(p), pc)
    BY <1>1 DEF block_at, FoldedTable
  <1> HIDE DEF first, end, labelled
  <1>5. /\ first \in 1..Len(p.ops) /\ end \in (first + 1)..(Len(p.ops) + 1)
        /\ pc \in first..(end - 1) /\ end \in 1..(Len(p.ops) + 1) /\ first < end
    BY <1>1, <1>2, <1>3
  <1>6. \A i \in (first + 1)..(end - 1) : ~StartsBlock(p.ops, labelled, i)
    <2> TAKE i \in (first + 1)..(end - 1)
    <2>1. i \in (first + 1)..pc \/ i \in (pc + 1)..(end - 1)
      BY <1>1, <1>5
    <2>2. QED
      BY <1>2, <1>3, <2>1
  <1>7. FoldedBlock(p.ops, labelled, Model(p), pc)
          = RunBlock(Model(p), p.ops, InstrClass(p.ops[first]), first, end)
    BY <1>1, <1>2, <1>3, <1>5, <1>6, FoldedSpan
  <1>8. QED
    BY <1>4, <1>5, <1>7

LEMMA EntryBounds ==
    ASSUME NEW p, IsProgram(p), NEW pc \in 1..Len(p.ops), block_at(p, pc).kind = "pointers"
    PROVE  /\ block_at(p, pc).delta \in Int
           /\ block_at(p, pc).low \in Cells(Model(p))
           /\ block_at(p, pc).high \in Cells(Model(p))
           /\ block_at(p, pc).low <= block_at(p, pc).high
  <1> DEFINE m == Model(p)
  <1>1. PICK first \in 1..Len(p.ops), end \in 1..(Len(p.ops) + 1) :
              /\ first < end
              /\ block_at(p, pc) = RunBlock(m, p.ops, InstrClass(p.ops[first]), first, end)
    BY EntryOfRun
  <1>2. /\ block_at(p, pc).delta = Net(p.ops, "right", "left", first, end)
        /\ block_at(p, pc).low = ClampedMoves(m, p.ops, first, end, 0)
        /\ block_at(p, pc).high = ClampedMoves(m, p.ops, first, end, m.memory_size - 1)
    BY <1>1 DEF RunBlock, Net
  <1>3. /\ IsModel(m) /\ first \in Nat /\ end \in Nat /\ first <= end
        /\ 0 \in Cells(m) /\ m.memory_size - 1 \in Cells(m) /\ 0 <= m.memory_size - 1
    BY <1>1, ProgramFacts, TapeFacts DEF Cells
  <1>4. Net(p.ops, "right", "left", first, end) \in Int
    BY <1>3, NetInt
  <1> HIDE DEF m
  <1>5. /\ ClampedMoves(m, p.ops, first, end, 0) \in Cells(m)
        /\ ClampedMoves(m, p.ops, first, end, m.memory_size - 1) \in Cells(m)
        /\ ClampedMoves(m, p.ops, first, end, 0)
              <= ClampedMoves(m, p.ops, first, end, m.memory_size - 1)
    BY <1>3, ClampedOrder
  <1>6. QED
    BY <1>2, <1>4, <1>5 DEF m

LEMMA MovedInside ==
    ASSUME NEW m, IsModel(m), m.memory_size < HalfWord,
           NEW ptr \in Cells(m), NEW net \in Int,
           NEW low \in Cells(m), NEW high \in Cells(m), low <= high
    PROVE  move_pointer(m, ptr, net, low, high) \in Cells(m)
  <1>1. CASE m.wrapping
    <2> DEFINE q == (ptr + net) % m.memory_size
    <2>1. m.memory_size \in Nat \ {0} /\ ptr + net \in Int
      BY HalfWordAssumption DEF IsModel, Word, Cells
    <2>2. q \in 0..(m.memory_size - 1) /\ Congruent(q, ptr + net, m.memory_size)
      BY <2>1, CongruentMod
    <2>3. q \in Cells(m) /\ q \in Int /\ m.memory_size \in Int
      BY <2>1, <2>2 DEF Cells
    <2> HIDE DEF q
    <2>4. Congruent(ptr + net, q, m.memory_size)
      BY <2>1, <2>2, <2>3, CongruentSymmetric
    <2>5. move_pointer(m, ptr, net, low, high) = q
      BY <1>1, <2>3, <2>4, WrapExact
    <2>6. QED
      BY <2>3, <2>5
  <1>2. CASE ~m.wrapping
    <2>1. move_pointer(m, ptr, net, low, high) = Clamped(ptr + net, low, high)
      BY <1>2, ClampExact
    <2>2. ptr \in Int /\ low \in Int /\ high \in Int
      BY HalfWordAssumption DEF Cells, IsModel, Word
    <2>3. Clamped(ptr + net, low, high) \in Cells(m)
      BY HalfWordAssumption, <2>2 DEF Clamped, Cells, IsModel, Word
    <2>4. QED
      BY <2>1, <2>3
  <1>3. QED
    BY <1>1, <1>2

LEMMA NormalizedInside ==
    ASSUME NEW m, IsModel(m), NEW v \in Int
    PROVE  normalize_value(m, v) \in CellValues(m)
  <1>1. m.max_value + 1 \in Nat \ {0} /\ m.max_value \in Nat
    BY DEF IsModel
  <1>2. v % (m.max_value + 1) \in 0..((m.max_value + 1) - 1)
    BY <1>1, CongruentMod
  <1>3. QED
    BY <1>1, <1>2 DEF normalize_value, CellValues

(* Only a read touches the budget, and takes one off it.                   *)
LEMMA BudgetKept ==
    ASSUME NEW p, NEW s, IsState(p, s), NEW next, NEW value, NEW ptr
    PROVE  /\ Goto(s, next).remaining = s.remaining
           /\ Point(s, ptr, next).remaining = s.remaining
           /\ Write(s, value, next).remaining = s.remaining
  <1>1. Goto(s, next).remaining = s.remaining
    BY Gone, StateFields
  <1>2. Point(s, ptr, next).remaining = s.remaining
    BY Pointed, StateFields
  <1>3. Write(s, value, next).remaining = s.remaining
    <2> DEFINE tape == [s.memory EXCEPT ![s.mem_ptr] = value]
    <2>1. Write(s, value, next) = State(next, s.mem_ptr, tape, s.remaining)
      BY Written
    <2> HIDE DEF tape
    <2>2. QED
      BY <2>1, StateFields
  <1>4. QED
    BY <1>1, <1>2, <1>3

LEMMA SingleBudget ==
    ASSUME NEW p, IsProgram(p), NEW s \in KState(p), s.pc \in 1..Len(p.ops),
           NEW i \in DOMAIN SingleSuccessors(p, s)
    PROVE  SingleSuccessors(p, s)[i].remaining \in Remaining(p)
  <1>1. IsState(p, s) /\ s.remaining \in Remaining(p)
    BY KStateMembers
  <1>2. CASE p.ops[s.pc] = "get"
    <2>1. SingleSuccessors(p, s) = ReadSuccessors(p, s)
      BY <1>2 DEF SingleSuccessors
    <2>2. ReadSuccessors(p, s)
            = [j \in DOMAIN ReadValues(p, s) |-> ReadTo(s, ReadValues(p, s)[j])]
      BY <1>1, ReadStates
    <2>3. SingleSuccessors(p, s)[i] = ReadTo(s, ReadValues(p, s)[i])
      BY <2>1, <2>2
    <2>4. SingleSuccessors(p, s)[i].remaining = BudgetLeft(s)
      BY <2>3, StateFields DEF ReadTo
    <2>5. BudgetLeft(s) \in Remaining(p)
      <3>1. p.io_model.chars_until_eof \in Nat \cup {NoValue}
        BY ProgramFacts DEF IsIOModel
      <3>2. QED
        BY <1>1, <3>1, NoValueAssumption DEF BudgetLeft, Remaining
    <2>6. QED
      BY <2>4, <2>5
  <1>3. CASE p.ops[s.pc] # "get"
    <2>1. PICK t : SingleSuccessors(p, s) = <<t>>
      BY <1>1, <1>3, OneSuccessor
    <2>2. t.remaining = s.remaining
      <3>1. p.ops[s.pc] \in Instruction
        BY ProgramFacts
      <3>2. \E next, value, ptr :
              t \in {Goto(s, next), Point(s, ptr, next), Write(s, value, next)}
        <4>1. \E next, value, ptr : SingleSuccessors(p, s) \in
                 {<<Goto(s, next)>>, <<Point(s, ptr, next)>>, <<Write(s, value, next)>>}
          BY <1>3, <3>1 DEF SingleSuccessors, Instruction
        <4>2. QED
          BY <2>1, <4>1
      <3>3. QED
        BY <1>1, <3>2, BudgetKept
    <2>3. SingleSuccessors(p, s)[i] = t
      BY <2>1
    <2>4. QED
      BY <1>1, <2>2, <2>3
  <1>4. QED
    BY <1>2, <1>3

(* A transition from any state, also from inside a block, ends in a state. *)
LEMMA SuccessorsInside ==
    ASSUME NEW p, IsProgram(p), SmallTape(p), NEW fold \in Folding, NEW s \in KState(p)
    PROVE  /\ Successors(p, fold, s) \in Seq(KState(p))
           /\ After(p, fold, s) \subseteq KState(p)
  <1> DEFINE m == Model(p)
             block == ChosenBlock(p, fold, s.pc)
  <1>1. /\ IsState(p, s) /\ s.remaining \in Remaining(p)
        /\ s.pc \in 1..(Len(p.ops) + 1) /\ Len(p.ops) \in Nat
        /\ s.mem_ptr \in Cells(m) /\ s.memory \in Tapes(p) /\ s.remaining \in BudgetValues
        /\ IsModel(m)
    BY KStateMembers, ProgramFacts DEF IsState
  <1>2. Successors(p, fold, s) \in Seq(KState(p))
    <2>1. CASE is_end(p, s.pc)
      BY <2>1 DEF Successors
    <2>2. CASE ~is_end(p, s.pc) /\ block.kind = "single"
      <3>1. s.pc \in 1..Len(p.ops)
        BY <1>1, <2>2 DEF is_end, instr_count
      <3>2. Successors(p, fold, s) = SingleSuccessors(p, s)
        BY <2>2 DEF Successors
      <3>3. \A i \in DOMAIN SingleSuccessors(p, s) : SingleSuccessors(p, s)[i] \in KState(p)
        BY <1>1, <3>1, SingleFacts, SingleBudget, KStateMembers DEF Follows
      <3>4. \E n \in Nat : DOMAIN SingleSuccessors(p, s) = 1..n
            /\ SingleSuccessors(p, s) = [i \in 1..n |-> SingleSuccessors(p, s)[i]]
        <4>1. CASE p.ops[s.pc] = "get"
          <5>1. SingleSuccessors(p, s) = ReadSuccessors(p, s)
            BY <4>1 DEF SingleSuccessors
          <5>2. ReadSuccessors(p, s)
                  = [j \in DOMAIN ReadValues(p, s) |-> ReadTo(s, ReadValues(p, s)[j])]
            BY <1>1, <3>1, ReadStates
          <5>3. ReadValues(p, s) \in Seq(CellValues(m))
            BY <1>1, ValuesRead
          <5>4. DOMAIN ReadValues(p, s) = 1..Len(ReadValues(p, s))
                /\ Len(ReadValues(p, s)) \in Nat
            BY <5>3
          <5>5. QED
            BY <5>1, <5>2, <5>4
        <4>2. CASE p.ops[s.pc] # "get"
          <5>1. PICK t : SingleSuccessors(p, s) = <<t>>
            BY <1>1, <3>1, <4>2, OneSuccessor
          <5>2. DOMAIN <<t>> = 1..1 /\ <<t>> = [i \in 1..1 |-> <<t>>[i]]
            OBVIOUS
          <5>3. QED
            BY <5>1, <5>2
        <4>3. QED
          BY <4>1, <4>2
      <3>5. QED
        BY <3>2, <3>3, <3>4
    <2>3. CASE ~is_end(p, s.pc) /\ block.kind # "single"
      <3>1. s.pc \in 1..Len(p.ops)
        BY <1>1, <2>3 DEF is_end, instr_count
      <3>2. /\ block = block_at(p, s.pc)
            /\ block.end \in 1..(Len(p.ops) + 1)
            /\ block.kind \in {"values", "pointers"}
        <4>1. IsProgram(p) /\ fold \in Folding /\ ChosenBlock(p, fold, s.pc).kind # "single"
          BY <1>1, <2>3
        <4>2. /\ block = block_at(p, s.pc)
              /\ InstrClass(p.ops[s.pc]) \in {"values", "pointers"}
              /\ block.end \in (s.pc + 1)..(Len(p.ops) + 1)
          BY ONLY <3>1, <4>1, ChosenRun
        <4>3. block_at(p, s.pc).kind = InstrClass(p.ops[s.pc])
          BY ONLY <3>1, <4>1, Entry
        <4> HIDE DEF block
        <4>4. block.end \in 1..(Len(p.ops) + 1)
          BY ONLY <3>1, <4>2
        <4>5. QED
          BY ONLY <4>2, <4>3, <4>4
      <3>3. ASSUME NEW t, Successors(p, fold, s) = <<t>>, IsState(p, t),
                   t.remaining = s.remaining
            PROVE  Successors(p, fold, s) \in Seq(KState(p))
        <4>1. t \in KState(p)
          BY <1>1, <3>3, KStateMembers
        <4>2. QED
          BY <3>3, <4>1
      <3>4. CASE block.kind = "values"
        <4> DEFINE value == shift_value(m, CurrentCell(s), block.delta)
                   t == Write(s, value, block.end)
        <4>1. Successors(p, fold, s) = <<t>>
          BY <2>3, <3>4 DEF Successors, Model
        <4>2. value \in CellValues(m)
          <5>1. CurrentCell(s) \in CellValues(m)
            BY <1>1, CurrentContent
          <5>2. CurrentCell(s) \in Int /\ Word \in Nat \ {0}
            BY <5>1, HalfWordAssumption DEF CellValues, Word, IsModel
          <5>3. block.delta \in Int
            <6>1. PICK first \in 1..Len(p.ops), end \in 1..(Len(p.ops) + 1) :
                    /\ first < end
                    /\ block_at(p, s.pc)
                         = RunBlock(m, p.ops, InstrClass(p.ops[first]), first, end)
              BY <3>1, EntryOfRun
            <6>2. block.delta = Remainder(Net(p.ops, "inc", "dec", first, end), m.max_value + 1)
              BY <3>2, <3>4, <6>1 DEF RunBlock, Net
            <6>3. Net(p.ops, "inc", "dec", first, end) \in Int
              BY NetInt
            <6>4. m.max_value + 1 \in Nat \ {0}
              BY <1>1 DEF IsModel
            <6> HIDE DEF m, block
            <6>5. Remainder(Net(p.ops, "inc", "dec", first, end), m.max_value + 1)
                    \in (-(m.max_value + 1) + 1)..((m.max_value + 1) - 1)
              BY <6>3, <6>4, CongruentRemainder
            <6>6. QED
              BY <6>2, <6>5
          <5> DEFINE sum == CurrentCell(s) + (block.delta % Word)
          <5> HIDE DEF m, block
          <5>4. sum \in Int
            <6>1. block.delta % Word \in 0..(Word - 1)
              BY ONLY <5>2, <5>3, CongruentMod
            <6>2. QED
              BY ONLY <5>2, <6>1
          <5> HIDE DEF sum
          <5>5. sum % Word \in Int
            <6>1. sum % Word \in 0..(Word - 1)
              BY ONLY <5>2, <5>4, CongruentMod
            <6>2. QED
              BY ONLY <5>2, <6>1
          <5>6. normalize_value(m, sum % Word) \in CellValues(m)
            BY <1>1, <5>5, NormalizedInside
          <5>7. QED
            BY <5>6 DEF shift_value, sum
        <4> HIDE DEF m, block, value
        <4>3. t = State(block.end, s.mem_ptr, [s.memory EXCEPT ![s.mem_ptr] = value], s.remaining)
          BY <1>1, Written
        <4>4. [s.memory EXCEPT ![s.mem_ptr] = value] \in Tapes(p)
          BY <1>1, <4>2, WrittenTape DEF m
        <4>5. IsState(p, t) /\ t.remaining = s.remaining
          BY <1>1, <3>2, <4>3, <4>4, MadeState, StateFields DEF m
        <4>6. QED
          BY <3>3, <4>1, <4>5
      <3>5. CASE block.kind = "pointers"
        <4> DEFINE ptr == move_pointer(m, s.mem_ptr, block.delta, block.low, block.high)
                   t == Point(s, ptr, block.end)
        <4>1. Successors(p, fold, s) = <<t>>
          BY <2>3, <3>5 DEF Successors, Model
        <4>2. ptr \in Cells(m)
          <5>1. /\ block.delta \in Int /\ block.low \in Cells(m) /\ block.high \in Cells(m)
                /\ block.low <= block.high
            BY <3>1, <3>2, <3>5, EntryBounds
          <5>2. m.memory_size < HalfWord
            BY DEF SmallTape
          <5> HIDE DEF m, block
          <5>3. QED
            BY <1>1, <5>1, <5>2, MovedInside
        <4> HIDE DEF m, block, ptr
        <4>3. t = State(block.end, ptr, s.memory, s.remaining)
          BY <1>1, Pointed
        <4>4. IsState(p, t) /\ t.remaining = s.remaining
          BY <1>1, <3>2, <4>2, <4>3, MadeState, StateFields DEF m
        <4>5. QED
          BY <3>3, <4>1, <4>4
      <3>6. QED
        BY <3>2, <3>4, <3>5
    <2>4. QED
      BY <2>1, <2>2, <2>3
  <1>3. After(p, fold, s) \subseteq KState(p)
    <2> DEFINE seq == Successors(p, fold, s)
    <2>1. \A i \in DOMAIN seq : seq[i] \in KState(p)
      <3>1. seq \in Seq(KState(p))
        BY <1>2
      <3> HIDE DEF seq
      <3>2. QED
        BY <3>1
    <2>2. QED
      BY <2>1 DEF After, ToSet
  <1>4. QED
    BY <1>2, <1>3

-----------------------------------------------------------------------------
(* The states of all runs are the smallest set with the initial state that *)
(* no transition leaves.                                                   *)
Fits(p) == IsProgram(p) /\ SmallTape(p)

StaysIn(p, fold, S) == \A s \in S : After(p, fold, s) \subseteq S

Beyond(p, fold, seen) == (UNION {After(p, fold, s) : s \in seen}) \ seen

IsClosure(p, fold, c) ==
    c = [seen \in SUBSET KState(p) |->
            IF Beyond(p, fold, seen) = {} THEN seen ELSE c[seen \cup Beyond(p, fold, seen)]]

LEMMA BeyondInside ==
    ASSUME NEW p, Fits(p), NEW fold \in Folding, NEW seen \in SUBSET KState(p)
    PROVE  seen \cup Beyond(p, fold, seen) \in SUBSET KState(p)
  BY SuccessorsInside DEF Beyond, Fits

LEMMA BeyondFacts ==
    ASSUME NEW p, NEW fold, NEW seen
    PROVE  /\ Beyond(p, fold, seen) = {} <=> StaysIn(p, fold, seen)
           /\ Beyond(p, fold, seen) # {} => seen \cup Beyond(p, fold, seen) # seen
  <1>1. \A t : t \in Beyond(p, fold, seen)
                <=> (\E s \in seen : t \in After(p, fold, s)) /\ t \notin seen
    <2> TAKE t
    <2>1. t \in UNION {After(p, fold, s) : s \in seen} <=> \E s \in seen : t \in After(p, fold, s)
      BY Zenon
    <2>2. t \in Beyond(p, fold, seen)
            <=> t \in UNION {After(p, fold, s) : s \in seen} /\ t \notin seen
      BY DEF Beyond
    <2>3. QED
      BY <2>1, <2>2
  <1>2. StaysIn(p, fold, seen) <=> \A s \in seen : \A t \in After(p, fold, s) : t \in seen
    BY DEF StaysIn
  <1>3. Beyond(p, fold, seen) = {} <=> \A t : t \notin Beyond(p, fold, seen)
    OBVIOUS
  <1>4. Beyond(p, fold, seen) = {} <=> StaysIn(p, fold, seen)
    BY <1>1, <1>2, <1>3
  <1>5. Beyond(p, fold, seen) # {} => seen \cup Beyond(p, fold, seen) # seen
    <2> SUFFICES ASSUME NEW t \in Beyond(p, fold, seen)
                 PROVE  seen \cup Beyond(p, fold, seen) # seen
      OBVIOUS
    <2>1. t \notin seen
      BY <1>1
    <2>2. QED
      BY <2>1
  <1>6. QED
    BY <1>4, <1>5

LEMMA ClosureExists ==
    ASSUME NEW p, Fits(p), NEW fold \in Folding
    PROVE  \E c : IsClosure(p, fold, c)
  <1> DEFINE D == SUBSET KState(p)
             stop == {seen \in D : Beyond(p, fold, seen) = {}}
             base == [seen \in D |-> seen]
             next == [seen \in D |-> seen \cup Beyond(p, fold, seen)]
  <1>1. \A seen \in D \ stop : next[seen] \in D
    BY BeyondInside
  <1>2. PICK c : IsTailOf(D, stop, base, next, c)
    <2> HIDE DEF D, stop, base, next
    <2>1. QED
      BY <1>1, TailRecursion
  <1>3. c = [seen \in D |-> IF seen \in stop THEN base[seen] ELSE c[next[seen]]]
    <2> HIDE DEF D, stop, base, next
    <2>1. QED
      BY <1>2 DEF IsTailOf
  <1>4. \A seen \in D : (IF seen \in stop THEN base[seen] ELSE c[next[seen]])
           = IF Beyond(p, fold, seen) = {} THEN seen ELSE c[seen \cup Beyond(p, fold, seen)]
    OBVIOUS
  <1>5. [seen \in D |-> IF seen \in stop THEN base[seen] ELSE c[next[seen]]]
           = [seen \in D |-> IF Beyond(p, fold, seen) = {} THEN seen
                             ELSE c[seen \cup Beyond(p, fold, seen)]]
    BY <1>4
  <1>6. IsClosure(p, fold, c)
    BY <1>3, <1>5 DEF IsClosure
  <1>7. QED
    BY <1>6

LEMMA ClosureFacts ==
    ASSUME NEW p, Fits(p), NEW fold \in Folding, NEW c, IsClosure(p, fold, c),
           NEW seen \in SUBSET KState(p)
    PROVE  /\ seen \subseteq c[seen]
           /\ c[seen] \subseteq KState(p)
           /\ StaysIn(p, fold, c[seen])
           /\ \A S : seen \subseteq S /\ StaysIn(p, fold, S) => c[seen] \subseteq S
  <1> DEFINE K == KState(p)
             Good(P) == /\ P \subseteq c[P]
                        /\ c[P] \subseteq K
                        /\ StaysIn(p, fold, c[P])
                        /\ \A S : P \subseteq S /\ StaysIn(p, fold, S) => c[P] \subseteq S
             Bad == {P \in SUBSET K : ~Good(P)}
             v == [P \in Bad |-> P]
  <1>1. \A P \in SUBSET K :
           c[P] = IF Beyond(p, fold, P) = {} THEN P ELSE c[P \cup Beyond(p, fold, P)]
    BY DEF IsClosure
  <1>2. Bad = {}
    <2> SUFFICES ASSUME Bad # {} PROVE FALSE
      OBVIOUS
    <2>1. PICK P \in Bad : \A Q \in Bad : v[P] \subseteq v[Q] => v[Q] = v[P]
      <3>1. IsFiniteSet(K) /\ Bad # {} /\ \A P \in Bad : v[P] \subseteq K
        BY KStateFinite DEF Fits
      <3> HIDE DEF Bad, v, K
      <3>2. QED
        BY <3>1, LargestValue
    <2>2. P \in SUBSET K /\ ~Good(P)
      OBVIOUS
    <2>3. CASE Beyond(p, fold, P) = {}
      <3>1. c[P] = P
        BY <1>1, <2>2, <2>3
      <3>2. StaysIn(p, fold, P)
        BY <2>3, BeyondFacts
      <3>3. QED
        BY <2>2, <3>1, <3>2
    <2>4. CASE Beyond(p, fold, P) # {}
      <3> DEFINE Q == P \cup Beyond(p, fold, P)
      <3>1. Q \in SUBSET K /\ P \subseteq Q /\ Q # P
        <4>1. Q \in SUBSET K
          BY <2>2, BeyondInside
        <4>2. Q # P
          BY <2>4, BeyondFacts
        <4>3. QED
          BY <4>1, <4>2
      <3>2. Q \notin Bad
        BY <2>1, <3>1
      <3>3. c[P] = c[Q]
        BY <1>1, <2>2, <2>4
      <3>4. Good(Q)
        BY <3>1, <3>2
      <3>5. \A S : P \subseteq S /\ StaysIn(p, fold, S) => Q \subseteq S
        BY DEF StaysIn, Beyond
      <3> HIDE DEF Q
      <3>6. Good(P)
        BY <3>1, <3>3, <3>4, <3>5
      <3>7. QED
        BY <2>2, <3>6
    <2>5. QED
      BY <2>3, <2>4
  <1>3. Good(seen)
    BY <1>2
  <1>4. QED
    BY <1>3

LEMMA StatesFacts ==
    ASSUME NEW p, Fits(p), NEW fold \in Folding
    PROVE  /\ initial_state(p) \in States(p, fold)
           /\ States(p, fold) \subseteq KState(p)
           /\ StaysIn(p, fold, States(p, fold))
           /\ \A S : initial_state(p) \in S /\ StaysIn(p, fold, S) => States(p, fold) \subseteq S
  <1> DEFINE c == CHOOSE d : IsClosure(p, fold, d)
  <1>1. IsClosure(p, fold, c)
    BY ClosureExists
  <1>2. States(p, fold) = c[{initial_state(p)}]
    BY DEF States, IsClosure, Beyond
  <1>3. {initial_state(p)} \in SUBSET KState(p)
    BY InitialState DEF Fits
  <1> HIDE DEF c
  <1>4. QED
    BY <1>1, <1>2, <1>3, ClosureFacts

(* No run stops inside a block that is folded.                             *)
LEMMA StatesAtStart ==
    ASSUME NEW p, Fits(p), NEW fold \in Folding, NEW s \in States(p, fold)
    PROVE  IsState(p, s) /\ AtStart(p, fold, s)
  <1> DEFINE S == {t \in KState(p) : AtStart(p, fold, t)}
  <1>1. initial_state(p) \in S
    BY InitialState DEF Fits
  <1>2. StaysIn(p, fold, S)
    <2> SUFFICES ASSUME NEW t \in S PROVE After(p, fold, t) \subseteq S
      BY DEF StaysIn
    <2>1. After(p, fold, t) \subseteq KState(p)
      BY SuccessorsInside DEF Fits
    <2>2. IsState(p, t) /\ AtStart(p, fold, t)
      BY KStateMembers DEF Fits
    <2>3. \A i \in DOMAIN Successors(p, fold, t) : AtStart(p, fold, Successors(p, fold, t)[i])
      BY <2>2, Transitions DEF Fits
    <2>4. QED
      BY <2>1, <2>3 DEF After, ToSet
  <1>3. s \in S
    <2> HIDE DEF S
    <2>1. QED
      BY <1>1, <1>2, StatesFacts
  <1>4. QED
    BY <1>3, KStateMembers DEF Fits

-----------------------------------------------------------------------------
(* The shortest paths: there is one iff a state of the goal can be         *)
(* reached, and it meets the goal at its end only.                         *)
Paths(p) == Seq(KState(p)) \ {<< >>}

LastOf(paths) == {Last(path) : path \in paths}

Found(goal, paths) == {path \in paths : Last(path) \in goal}

Longer(p, fold, paths) ==
    UNION {{Append(path, s) : s \in After(p, fold, Last(path)) \ LastOf(paths)} : path \in paths}

IsShortest(p, fold, goal, f) ==
    f = [paths \in SUBSET Paths(p) |->
            IF Found(goal, paths) # {} \/ Longer(p, fold, paths) = {} THEN Found(goal, paths)
            ELSE f[paths \cup Longer(p, fold, paths)]]

Follow(p, fold, path) ==
    \A i \in 1..(Len(path) - 1) : path[i + 1] \in After(p, fold, path[i])

(* A run up to the first state of the goal.                                *)
GoesTo(p, fold, goal, path) ==
    /\ path[1] = initial_state(p)
    /\ Follow(p, fold, path)
    /\ \A i \in 1..(Len(path) - 1) : path[i] \notin goal

AllGo(p, fold, goal, paths) == \A path \in paths : GoesTo(p, fold, goal, path)

LEMMA LongerMember ==
    ASSUME NEW p, NEW fold, NEW paths, NEW q
    PROVE  q \in Longer(p, fold, paths) <=>
              \E path \in paths : \E s \in After(p, fold, Last(path)) :
                  s \notin LastOf(paths) /\ q = Append(path, s)
  <1> DEFINE more(path) == {Append(path, s) : s \in After(p, fold, Last(path)) \ LastOf(paths)}
  <1>1. Longer(p, fold, paths) = UNION {more(path) : path \in paths}
    BY DEF Longer
  <1>2. \A path : q \in more(path) <=>
                    \E s \in After(p, fold, Last(path)) :
                        s \notin LastOf(paths) /\ q = Append(path, s)
    OBVIOUS
  <1> HIDE DEF more
  <1>3. q \in UNION {more(path) : path \in paths} <=> \E path \in paths : q \in more(path)
    BY Zenon
  <1>4. QED
    BY <1>1, <1>2, <1>3

LEMMA PathGrows ==
    ASSUME NEW p, NEW path \in Paths(p), NEW s \in KState(p)
    PROVE  /\ Last(path) \in KState(p)
           /\ Len(path) \in Nat /\ Len(path) # 0
           /\ Append(path, s) \in Paths(p)
           /\ Len(Append(path, s)) = Len(path) + 1
           /\ Last(Append(path, s)) = s
           /\ \A i \in 1..Len(path) : Append(path, s)[i] = path[i]
  <1>1. path \in Seq(KState(p)) /\ path # << >>
    BY DEF Paths
  <1>2. Len(path) \in Nat /\ Len(path) # 0 /\ Len(path) \in 1..Len(path)
    BY <1>1
  <1>3. QED
    BY <1>1, <1>2, AppendFacts DEF Paths, Last

LEMMA LongerInside ==
    ASSUME NEW p, Fits(p), NEW fold \in Folding, NEW paths \in SUBSET Paths(p)
    PROVE  /\ paths \cup Longer(p, fold, paths) \in SUBSET Paths(p)
           /\ LastOf(paths) \subseteq KState(p)
           /\ LastOf(paths \cup Longer(p, fold, paths))
                = LastOf(paths) \cup Beyond(p, fold, LastOf(paths))
           /\ Longer(p, fold, paths) = {} => StaysIn(p, fold, LastOf(paths))
           /\ Longer(p, fold, paths) # {} => Beyond(p, fold, LastOf(paths)) # {}
  <1> DEFINE longer == Longer(p, fold, paths)
             lasts == LastOf(paths)
  <1>1. \A path \in paths : /\ Last(path) \in lasts /\ Last(path) \in KState(p)
                            /\ After(p, fold, Last(path)) \subseteq KState(p)
    <2> TAKE path \in paths
    <2>1. initial_state(p) \in KState(p)
      BY InitialState DEF Fits
    <2>2. Last(path) \in KState(p)
      BY <2>1, PathGrows
    <2>3. QED
      BY <2>2, SuccessorsInside DEF LastOf, Fits
  <1>2. \A path \in paths : \A s \in After(p, fold, Last(path)) :
           s \notin lasts => Append(path, s) \in longer
    BY LongerMember
  <1>3. \A q \in longer : q \in Paths(p) /\ Last(q) \in Beyond(p, fold, lasts)
    <2> TAKE q \in longer
    <2>1. PICK path \in paths : \E s \in After(p, fold, Last(path)) :
             s \notin lasts /\ q = Append(path, s)
      BY LongerMember
    <2> PICK s \in After(p, fold, Last(path)) : s \notin lasts /\ q = Append(path, s)
      BY <2>1
    <2>2. s \in KState(p) /\ Last(path) \in lasts
      BY <1>1
    <2>3. q \in Paths(p) /\ Last(q) = s
      BY <2>1, <2>2, PathGrows
    <2>4. s \in Beyond(p, fold, lasts)
      BY <2>1, <2>2 DEF Beyond
    <2>5. QED
      BY <2>3, <2>4
  <1>4. \A s \in Beyond(p, fold, lasts) : \E q \in longer : Last(q) = s
    <2> TAKE s \in Beyond(p, fold, lasts)
    <2>1. PICK t \in lasts : s \in After(p, fold, t) /\ s \notin lasts
      BY DEF Beyond
    <2>2. PICK path \in paths : t = Last(path)
      BY DEF LastOf
    <2>3. Append(path, s) \in longer /\ s \in KState(p)
      BY <1>1, <1>2, <2>1, <2>2
    <2>4. Last(Append(path, s)) = s
      BY <2>3, PathGrows
    <2>5. QED
      BY <2>3, <2>4
  <1> HIDE DEF longer, lasts
  <1>5. paths \cup longer \in SUBSET Paths(p)
    BY <1>3
  <1>6. lasts \subseteq KState(p)
    BY <1>1 DEF lasts, LastOf
  <1>7. LastOf(paths \cup longer) = lasts \cup Beyond(p, fold, lasts)
    <2>1. \A s : s \in LastOf(paths \cup longer)
                   <=> s \in lasts \/ \E q \in longer : s = Last(q)
      BY DEF LastOf, lasts
    <2>2. QED
      BY <1>3, <1>4, <2>1
  <1>8. longer = {} => StaysIn(p, fold, lasts)
    BY <1>4, BeyondFacts
  <1>9. longer # {} => Beyond(p, fold, lasts) # {}
    BY <1>3
  <1>10. QED
    BY <1>5, <1>6, <1>7, <1>8, <1>9 DEF longer, lasts

LEMMA ShortestExists ==
    ASSUME NEW p, Fits(p), NEW fold \in Folding, NEW goal
    PROVE  \E f : IsShortest(p, fold, goal, f)
  <1> DEFINE D == SUBSET Paths(p)
             stop == {paths \in D : Found(goal, paths) # {} \/ Longer(p, fold, paths) = {}}
             base == [paths \in D |-> Found(goal, paths)]
             next == [paths \in D |-> paths \cup Longer(p, fold, paths)]
  <1>1. \A paths \in D \ stop : next[paths] \in D
    BY LongerInside
  <1>2. PICK f : IsTailOf(D, stop, base, next, f)
    <2> HIDE DEF D, stop, base, next
    <2>1. QED
      BY <1>1, TailRecursion
  <1>3. f = [paths \in D |-> IF paths \in stop THEN base[paths] ELSE f[next[paths]]]
    <2> HIDE DEF D, stop, base, next
    <2>1. QED
      BY <1>2 DEF IsTailOf
  <1>4. \A paths \in D : (IF paths \in stop THEN base[paths] ELSE f[next[paths]])
           = IF Found(goal, paths) # {} \/ Longer(p, fold, paths) = {} THEN Found(goal, paths)
             ELSE f[paths \cup Longer(p, fold, paths)]
    OBVIOUS
  <1>5. [paths \in D |-> IF paths \in stop THEN base[paths] ELSE f[next[paths]]]
           = [paths \in D |->
                IF Found(goal, paths) # {} \/ Longer(p, fold, paths) = {} THEN Found(goal, paths)
                ELSE f[paths \cup Longer(p, fold, paths)]]
    BY <1>4
  <1>6. IsShortest(p, fold, goal, f)
    BY <1>3, <1>5 DEF IsShortest
  <1>7. QED
    BY <1>6

LEMMA ShortestFacts ==
    ASSUME NEW p, Fits(p), NEW fold \in Folding, NEW goal,
           NEW f, IsShortest(p, fold, goal, f),
           NEW paths \in SUBSET Paths(p), AllGo(p, fold, goal, paths)
    PROVE  /\ \A path \in f[paths] : /\ path \in Paths(p) /\ Last(path) \in goal
                                     /\ GoesTo(p, fold, goal, path)
           /\ f[paths] = {} <=> \E S : /\ LastOf(paths) \subseteq S /\ StaysIn(p, fold, S)
                                       /\ \A s \in S : s \notin goal
  <1> DEFINE K == KState(p)
             Reached(P) == \A path \in f[P] : /\ path \in Paths(p) /\ Last(path) \in goal
                                              /\ GoesTo(p, fold, goal, path)
             Avoided(P) == \E S : /\ LastOf(P) \subseteq S /\ StaysIn(p, fold, S)
                                  /\ \A s \in S : s \notin goal
             Good(P) == Reached(P) /\ (f[P] = {} <=> Avoided(P))
             Fine(P) == AllGo(p, fold, goal, P)
             Bad == {P \in SUBSET Paths(p) : Fine(P) /\ ~Good(P)}
             v == [P \in Bad |-> LastOf(P)]
  <1>1. \A P \in SUBSET Paths(p) :
           f[P] = IF Found(goal, P) # {} \/ Longer(p, fold, P) = {} THEN Found(goal, P)
                  ELSE f[P \cup Longer(p, fold, P)]
    BY DEF IsShortest
  <1>2. Bad = {}
    <2> SUFFICES ASSUME Bad # {} PROVE FALSE
      OBVIOUS
    <2>1. PICK P \in Bad : \A Q \in Bad : v[P] \subseteq v[Q] => v[Q] = v[P]
      <3>1. \A P \in SUBSET Paths(p) : LastOf(P) \subseteq K
        BY LongerInside
      <3>2. IsFiniteSet(K) /\ Bad # {} /\ \A P \in Bad : v[P] \subseteq K
        BY <3>1, KStateFinite DEF Fits
      <3> HIDE DEF Bad, v, K
      <3>3. QED
        BY <3>2, LargestValue
    <2>2. P \in SUBSET Paths(p) /\ Fine(P) /\ ~Good(P)
      OBVIOUS
    <2> DEFINE longer == Longer(p, fold, P)
               Q == P \cup longer
               found == Found(goal, P)
    <2>3. CASE found # {}
      <3>1. f[P] = found
        BY <1>1, <2>2, <2>3
      <3>2. Reached(P)
        BY <2>2, <3>1 DEF Found, AllGo
      <3>3. ~Avoided(P)
        BY <2>3 DEF Found, LastOf
      <3> HIDE DEF Reached, Avoided, found
      <3>4. Good(P)
        BY <2>3, <3>1, <3>2, <3>3
      <3>5. QED
        BY <2>2, <3>4
    <2>4. CASE found = {} /\ longer = {}
      <3>1. f[P] = {}
        BY <1>1, <2>2, <2>4
      <3>2. StaysIn(p, fold, LastOf(P))
        BY <2>2, <2>4, LongerInside
      <3>3. \A s \in LastOf(P) : s \notin goal
        BY <2>4 DEF Found, LastOf
      <3>4. Reached(P)
        BY <3>1
      <3>5. Avoided(P)
        BY <3>2, <3>3
      <3> HIDE DEF Reached, Avoided
      <3>6. Good(P)
        BY <3>1, <3>4, <3>5
      <3>7. QED
        BY <2>2, <3>6
    <2>5. CASE found = {} /\ longer # {}
      <3>1. f[P] = f[Q]
        BY <1>1, <2>2, <2>5
      <3>2. /\ Q \in SUBSET Paths(p)
            /\ LastOf(Q) = LastOf(P) \cup Beyond(p, fold, LastOf(P))
            /\ Beyond(p, fold, LastOf(P)) # {}
            /\ LastOf(P) \subseteq LastOf(Q)
            /\ LastOf(P) \subseteq K
        <4>1. P \in SUBSET Paths(p) /\ longer # {}
          BY <2>2, <2>5
        <4> HIDE DEF Bad
        <4>2. /\ Q \in SUBSET Paths(p) /\ LastOf(P) \subseteq K
              /\ LastOf(Q) = LastOf(P) \cup Beyond(p, fold, LastOf(P))
          BY <4>1, LongerInside
        <4>3. Beyond(p, fold, LastOf(P)) # {}
          BY <4>1, LongerInside
        <4> HIDE DEF Q
        <4>4. QED
          BY <4>2, <4>3
      <3>3. LastOf(Q) # LastOf(P)
        BY <3>2, BeyondFacts
      <3>4. Fine(Q)
        <4> SUFFICES ASSUME NEW q \in longer PROVE GoesTo(p, fold, goal, q)
          BY <2>2 DEF AllGo
        <4>1. PICK path \in P : \E s \in After(p, fold, Last(path)) :
                 s \notin LastOf(P) /\ q = Append(path, s)
          BY LongerMember
        <4> PICK s \in After(p, fold, Last(path)) : q = Append(path, s)
          BY <4>1
        <4>2. path \in Paths(p) /\ GoesTo(p, fold, goal, path) /\ Last(path) \notin goal
          BY <2>2, <2>5 DEF Found, AllGo
        <4>3. Last(path) \in K /\ s \in K
          <5>1. Last(path) \in K
            BY <3>2 DEF LastOf
          <5>2. After(p, fold, Last(path)) \subseteq K
            BY <5>1, SuccessorsInside DEF Fits
          <5>3. QED
            BY <5>1, <5>2
        <4>4. /\ Len(path) \in Nat /\ Len(path) # 0 /\ Len(q) = Len(path) + 1
              /\ Last(q) = s /\ \A i \in 1..Len(path) : q[i] = path[i]
          BY <4>2, <4>3, PathGrows
        <4> HIDE DEF longer
        <4>5. q[1] = initial_state(p)
          BY <4>2, <4>4 DEF GoesTo
        <4>6. ASSUME NEW i \in 1..(Len(q) - 1)
              PROVE  q[i + 1] \in After(p, fold, q[i]) /\ q[i] \notin goal
          <5>1. i \in 1..Len(path) /\ q[i] = path[i]
            BY <4>4
          <5>2. CASE i = Len(path)
            <6>1. q[i] = Last(path) /\ q[i + 1] = Last(q)
              BY <4>4, <5>1, <5>2 DEF Last
            <6>2. QED
              BY <4>2, <4>4, <6>1
          <5>3. CASE i # Len(path)
            <6>1. i \in 1..(Len(path) - 1) /\ i + 1 \in 1..Len(path)
              BY <4>4, <5>1, <5>3
            <6>2. path[i + 1] \in After(p, fold, path[i]) /\ path[i] \notin goal
              BY <4>2, <6>1 DEF GoesTo, Follow
            <6>3. q[i + 1] = path[i + 1]
              BY <4>4, <6>1
            <6>4. QED
              BY <5>1, <6>2, <6>3
          <5>4. QED
            BY <5>2, <5>3
        <4>7. QED
          BY <4>5, <4>6 DEF GoesTo, Follow
      <3>5. Good(Q)
        <4>1. Q \notin Bad
          BY <2>1, <3>2, <3>3
        <4> HIDE DEF Good, Fine
        <4>2. QED
          BY <3>2, <3>4, <4>1
      <3>6. \A S : LastOf(P) \subseteq S /\ StaysIn(p, fold, S) => LastOf(Q) \subseteq S
        BY <3>2 DEF StaysIn, Beyond
      <3>7. Avoided(P) <=> Avoided(Q)
        BY <3>2, <3>6
      <3> HIDE DEF Q, Avoided
      <3>8. Good(P)
        BY <3>1, <3>5, <3>7
      <3>9. QED
        BY <2>2, <3>8
    <2>6. QED
      BY <2>3, <2>4, <2>5
  <1>3. Good(paths)
    BY <1>2
  <1>4. QED
    BY <1>3

LEMMA PathsToFacts ==
    ASSUME NEW p, Fits(p), NEW fold \in Folding, NEW goal
    PROVE  /\ \A path \in PathsTo(p, fold, goal) :
                 /\ path \in Paths(p) /\ Last(path) \in goal
                 /\ GoesTo(p, fold, goal, path)
           /\ PathsTo(p, fold, goal) # {} <=> \E s \in States(p, fold) : s \in goal
  <1> DEFINE f == CHOOSE g : IsShortest(p, fold, goal, g)
             start == <<initial_state(p)>>
  <1>1. IsShortest(p, fold, goal, f)
    BY ShortestExists
  <1>2. PathsTo(p, fold, goal) = f[{start}]
    BY DEF PathsTo, IsShortest, Paths, Found, Longer, LastOf
  <1>3. /\ start \in Paths(p) /\ LastOf({start}) = {initial_state(p)}
        /\ GoesTo(p, fold, goal, start)
    <2>1. initial_state(p) \in KState(p)
      BY InitialState DEF Fits
    <2>2. start \in Paths(p) /\ Len(start) = 1 /\ start[1] = initial_state(p)
      BY <2>1 DEF Paths
    <2> HIDE DEF start
    <2>3. QED
      BY <2>2 DEF LastOf, Last, GoesTo, Follow
  <1> HIDE DEF f, start
  <1>4. /\ \A path \in f[{start}] : /\ path \in Paths(p) /\ Last(path) \in goal
                                    /\ GoesTo(p, fold, goal, path)
        /\ f[{start}] = {} <=> \E S : /\ LastOf({start}) \subseteq S /\ StaysIn(p, fold, S)
                                      /\ \A s \in S : s \notin goal
    <2>1. {start} \in SUBSET Paths(p) /\ AllGo(p, fold, goal, {start})
      BY <1>3 DEF AllGo
    <2>2. Fits(p) /\ fold \in Folding
      OBVIOUS
    <2> DEFINE set == {start}
    <2>3. set \in SUBSET Paths(p) /\ AllGo(p, fold, goal, set)
      BY <2>1
    <2> HIDE DEF set
    <2>4. /\ \A path \in f[set] : /\ path \in Paths(p) /\ Last(path) \in goal
                                   /\ GoesTo(p, fold, goal, path)
          /\ f[set] = {} <=> \E S : /\ LastOf(set) \subseteq S /\ StaysIn(p, fold, S)
                                     /\ \A s \in S : s \notin goal
      BY ONLY <1>1, <2>2, <2>3, ShortestFacts
    <2>5. QED
      BY <2>4 DEF set
  <1>5. (\E S : /\ LastOf({start}) \subseteq S /\ StaysIn(p, fold, S)
                /\ \A s \in S : s \notin goal)
          <=> \A s \in States(p, fold) : s \notin goal
    <2>1. /\ initial_state(p) \in States(p, fold) /\ StaysIn(p, fold, States(p, fold))
          /\ \A S : initial_state(p) \in S /\ StaysIn(p, fold, S) => States(p, fold) \subseteq S
      BY StatesFacts
    <2>2. QED
      BY <1>3, <2>1
  <1>6. QED
    BY <1>2, <1>4, <1>5

-----------------------------------------------------------------------------
(* The lassos inside a set of states: paths without repetition that come   *)
(* back.  There is one from a state iff the state is in a set, inside that *)
(* set of states, in which every state has a successor.                    *)
EntryOf(path, s) == CHOOSE k \in DOMAIN path : path[k] = s

Lasso(q, e) == [prefix |-> SubSeq(q, 1, e - 1), cycle |-> SubSeq(q, e, Len(q))]

Closing(p, fold, holds, path) ==
    {Lasso(path, EntryOf(path, s)) :
        s \in (After(p, fold, Last(path)) \cap holds) \cap ToSet(path)}

Fresh(p, fold, holds, path) == (After(p, fold, Last(path)) \cap holds) \ ToSet(path)

IsLassos(p, fold, holds, f) ==
    f = [path \in Seq(KState(p)) |->
            Closing(p, fold, holds, path)
            \cup UNION {f[Append(path, s)] : s \in Fresh(p, fold, holds, path)}]

Sustained(p, fold, S) == \A s \in S : \E t \in S : t \in After(p, fold, s)

Trail(p, fold, holds, path) ==
    /\ path \in Paths(p)
    /\ Follow(p, fold, path)
    /\ IsInjective(path)
    /\ \A i \in 1..Len(path) : path[i] \in holds

Closes(p, fold, holds, q, e) ==
    /\ Trail(p, fold, holds, q)
    /\ e \in 1..Len(q)
    /\ q[e] \in After(p, fold, Last(q))

LEMMA LassosExist ==
    ASSUME NEW p, NEW fold, NEW holds \in SUBSET KState(p)
    PROVE  \E f : IsLassos(p, fold, holds, f)
  <1> DEFINE D == Seq(KState(p))
             base == [path \in D |-> Closing(p, fold, holds, path)]
             kids == [path \in D |-> {Append(path, s) : s \in Fresh(p, fold, holds, path)}]
  <1>1. KidsClosed(kids, D)
    <2> SUFFICES ASSUME NEW path \in D, NEW s \in Fresh(p, fold, holds, path)
                 PROVE  Append(path, s) \in D
      BY DEF KidsClosed
    <2>1. s \in KState(p)
      BY DEF Fresh
    <2>2. QED
      BY <2>1
  <1>2. PICK f : IsUnionOf(D, base, kids, f)
    <2> HIDE DEF D, base, kids
    <2>1. QED
      BY <1>1, UnionRecursion
  <1>3. f = [path \in D |-> base[path] \cup UNION {f[y] : y \in kids[path]}]
    <2> HIDE DEF D, base, kids
    <2>1. QED
      BY <1>2 DEF IsUnionOf
  <1>4. ASSUME NEW path \in D
        PROVE  base[path] \cup UNION {f[y] : y \in kids[path]}
                 = Closing(p, fold, holds, path)
                   \cup UNION {f[Append(path, s)] : s \in Fresh(p, fold, holds, path)}
    <2> DEFINE fresh == Fresh(p, fold, holds, path)
    <2> HIDE DEF fresh
    <2>1. {f[y] : y \in {Append(path, s) : s \in fresh}} = {f[Append(path, s)] : s \in fresh}
      BY Zenon
    <2>2. kids[path] = {Append(path, s) : s \in fresh} /\ base[path] = Closing(p, fold, holds, path)
      BY DEF fresh
    <2> HIDE DEF kids, base, D
    <2>3. QED
      BY <2>1, <2>2 DEF fresh
  <1>5. [path \in D |-> base[path] \cup UNION {f[y] : y \in kids[path]}]
          = [path \in D |->
               Closing(p, fold, holds, path)
               \cup UNION {f[Append(path, s)] : s \in Fresh(p, fold, holds, path)}]
    <2> HIDE DEF base, kids, D
    <2>1. QED
      BY <1>4
  <1>6. IsLassos(p, fold, holds, f)
    BY <1>3, <1>5 DEF IsLassos
  <1>7. QED
    BY <1>6

LEMMA LassosMember ==
    ASSUME NEW p, NEW fold, NEW holds, NEW f, IsLassos(p, fold, holds, f),
           NEW path \in Seq(KState(p)), NEW l
    PROVE  l \in f[path] <=>
              \/ \E s \in After(p, fold, Last(path)) :
                    s \in holds /\ s \in ToSet(path) /\ l = Lasso(path, EntryOf(path, s))
              \/ \E s \in After(p, fold, Last(path)) :
                    s \in holds /\ s \notin ToSet(path) /\ l \in f[Append(path, s)]
  <1> DEFINE fresh == Fresh(p, fold, holds, path)
             more == UNION {f[Append(path, s)] : s \in fresh}
  <1>1. f[path] = Closing(p, fold, holds, path) \cup more
    BY DEF IsLassos
  <1>2. l \in Closing(p, fold, holds, path) <=>
          \E s \in After(p, fold, Last(path)) :
              s \in holds /\ s \in ToSet(path) /\ l = Lasso(path, EntryOf(path, s))
    BY DEF Closing
  <1>3. l \in more <=> \E s \in fresh : l \in f[Append(path, s)]
    <2> HIDE DEF fresh
    <2>1. QED
      BY Zenon
  <1>4. \A s : s \in fresh <=>
            s \in After(p, fold, Last(path)) /\ s \in holds /\ s \notin ToSet(path)
    BY DEF Fresh
  <1> HIDE DEF fresh, more
  <1>5. QED
    BY <1>1, <1>2, <1>3, <1>4

LEMMA ToSetGrows ==
    ASSUME NEW p, NEW path \in Paths(p), NEW s \in KState(p)
    PROVE  /\ ToSet(path) \subseteq KState(p)
           /\ ToSet(Append(path, s)) = ToSet(path) \cup {s}
           /\ \A t : t \in ToSet(path) <=> \E i \in 1..Len(path) : path[i] = t
  <1>1. path \in Seq(KState(p)) /\ Len(path) \in Nat /\ DOMAIN path = 1..Len(path)
    BY DEF Paths
  <1>2. /\ Append(path, s) \in Seq(KState(p))
        /\ DOMAIN Append(path, s) = 1..(Len(path) + 1)
        /\ \A i \in 1..Len(path) : Append(path, s)[i] = path[i]
        /\ Append(path, s)[Len(path) + 1] = s
    BY <1>1, AppendFacts
  <1>3. \A t : t \in ToSet(path) <=> \E i \in 1..Len(path) : path[i] = t
    BY <1>1 DEF ToSet
  <1>4. \A t : t \in ToSet(Append(path, s))
                 <=> \E i \in 1..(Len(path) + 1) : Append(path, s)[i] = t
    BY <1>2 DEF ToSet
  <1>5. \A i : i \in 1..(Len(path) + 1) <=> i \in 1..Len(path) \/ i = Len(path) + 1
    BY <1>1
  <1>6. \A t : t \in ToSet(Append(path, s)) <=> t \in ToSet(path) \/ t = s
    BY <1>2, <1>3, <1>4, <1>5
  <1>7. ToSet(path) \subseteq KState(p)
    BY <1>1, <1>3
  <1>8. QED
    BY <1>3, <1>6, <1>7

LEMMA TrailGrows ==
    ASSUME NEW p, NEW fold, NEW holds \in SUBSET KState(p),
           NEW path, Trail(p, fold, holds, path),
           NEW s \in After(p, fold, Last(path)), s \in holds, s \notin ToSet(path)
    PROVE  Trail(p, fold, holds, Append(path, s))
  <1> DEFINE q == Append(path, s)
  <1>1. path \in Paths(p) /\ s \in KState(p)
    BY DEF Trail
  <1>2. /\ Len(path) \in Nat /\ Len(path) # 0 /\ q \in Paths(p) /\ Len(q) = Len(path) + 1
        /\ \A i \in 1..Len(path) : q[i] = path[i]
    BY <1>1, PathGrows
  <1>3. q[Len(path) + 1] = s
    BY <1>1, <1>2, PathGrows DEF Last
  <1>4. DOMAIN q = 1..(Len(path) + 1) /\ DOMAIN path = 1..Len(path)
    BY <1>1, <1>2 DEF Paths
  <1>5. \A i \in 1..Len(path) : path[i] # s
    BY <1>1, ToSetGrows
  <1> HIDE DEF q
  <1>6. IsInjective(q)
    <2> SUFFICES ASSUME NEW a \in 1..(Len(path) + 1), NEW b \in 1..(Len(path) + 1), q[a] = q[b]
                 PROVE  a = b
      BY <1>4 DEF IsInjective
    <2>1. /\ a \in 1..Len(path) \/ a = Len(path) + 1
          /\ b \in 1..Len(path) \/ b = Len(path) + 1
      BY <1>2
    <2>2. \A i, j \in 1..Len(path) : path[i] = path[j] => i = j
      BY <1>4 DEF Trail, IsInjective
    <2>3. QED
      BY <1>2, <1>3, <1>5, <2>1, <2>2
  <1>7. Follow(p, fold, q)
    <2> SUFFICES ASSUME NEW i \in 1..(Len(q) - 1) PROVE q[i + 1] \in After(p, fold, q[i])
      BY DEF Follow
    <2>1. /\ i \in 1..Len(path)
          /\ i # Len(path) => i \in 1..(Len(path) - 1) /\ i + 1 \in 1..Len(path)
      BY <1>2
    <2>2. CASE i = Len(path)
      BY <1>2, <1>3, <2>1, <2>2 DEF Last
    <2>3. CASE i # Len(path)
      BY <1>2, <2>1, <2>3 DEF Trail, Follow
    <2>4. QED
      BY <2>2, <2>3
  <1>8. \A i \in 1..Len(q) : q[i] \in holds
    <2> TAKE i \in 1..Len(q)
    <2>1. i \in 1..Len(path) \/ i = Len(path) + 1
      BY <1>2
    <2>2. QED
      BY <1>2, <1>3, <2>1 DEF Trail
  <1>9. QED
    BY <1>2, <1>6, <1>7, <1>8 DEF Trail, q

LEMMA EntryUnique ==
    ASSUME NEW p, NEW path \in Paths(p), IsInjective(path), NEW e \in 1..Len(path)
    PROVE  EntryOf(path, path[e]) = e /\ path[e] \in ToSet(path)
  <1>1. DOMAIN path = 1..Len(path)
    BY DEF Paths
  <1>2. \A k \in DOMAIN path : path[k] = path[e] <=> k = e
    BY <1>1 DEF IsInjective
  <1>3. QED
    BY <1>1, <1>2 DEF EntryOf, ToSet

(* A path that begins with another one.                                    *)
Extends(q, path) ==
    /\ Len(path) <= Len(q)
    /\ \A i \in 1..Len(path) : q[i] = path[i]

(* What is found are trails that come back.                                *)
LEMMA LassosClose ==
    ASSUME NEW p, Fits(p), NEW fold, NEW holds \in SUBSET KState(p),
           NEW f, IsLassos(p, fold, holds, f),
           NEW path, Trail(p, fold, holds, path), NEW l \in f[path]
    PROVE  \E q, e : Closes(p, fold, holds, q, e) /\ Extends(q, path) /\ l = Lasso(q, e)
  <1> DEFINE K == KState(p)
             Shaped(x, y) == \E q, e : /\ Closes(p, fold, holds, q, e) /\ Extends(q, x)
                                       /\ y = Lasso(q, e)
             Bad == {x \in Paths(p) : /\ Trail(p, fold, holds, x)
                                      /\ \E y \in f[x] : ~Shaped(x, y)}
             v == [x \in Bad |-> ToSet(x)]
  <1>1. Bad = {}
    <2> SUFFICES ASSUME Bad # {} PROVE FALSE
      OBVIOUS
    <2>1. PICK x \in Bad : \A y \in Bad : v[x] \subseteq v[y] => v[y] = v[x]
      <3>1. initial_state(p) \in K
        BY InitialState DEF Fits, Folding
      <3>2. \A x \in Paths(p) : ToSet(x) \subseteq K
        BY <3>1, ToSetGrows
      <3>3. IsFiniteSet(K) /\ Bad # {} /\ \A x \in Bad : v[x] \subseteq K
        BY <3>2, KStateFinite DEF Fits
      <3> HIDE DEF Bad, v, K
      <3>4. QED
        BY <3>3, LargestValue
    <2>2. x \in Paths(p) /\ x \in Seq(K) /\ Trail(p, fold, holds, x)
      BY DEF Paths
    <2>3. PICK y \in f[x] : ~Shaped(x, y)
      OBVIOUS
    <2>4. \/ \E s \in After(p, fold, Last(x)) :
                s \in holds /\ s \in ToSet(x) /\ y = Lasso(x, EntryOf(x, s))
          \/ \E s \in After(p, fold, Last(x)) :
                s \in holds /\ s \notin ToSet(x) /\ y \in f[Append(x, s)]
      <3> HIDE DEF Bad, v, Shaped
      <3>1. QED
        BY <2>2, LassosMember
    <2>5. ASSUME NEW s \in After(p, fold, Last(x)), s \in holds, s \in ToSet(x),
                 y = Lasso(x, EntryOf(x, s))
          PROVE  FALSE
      <3>1. PICK e \in 1..Len(x) : x[e] = s
        BY <2>2, <2>5, ToSetGrows
      <3>2. EntryOf(x, s) = e
        BY <2>2, <3>1, EntryUnique DEF Trail
      <3>3. Closes(p, fold, holds, x, e)
        BY <2>2, <3>1 DEF Closes
      <3>4. Extends(x, x)
        <4>1. Len(x) \in Nat
          BY <2>2
        <4>2. QED
          BY <4>1 DEF Extends
      <3>5. Shaped(x, y)
        BY <2>5, <3>2, <3>3, <3>4
      <3>6. QED
        BY <2>3, <3>5
    <2>6. ASSUME NEW s \in After(p, fold, Last(x)), s \in holds, s \notin ToSet(x),
                 y \in f[Append(x, s)]
          PROVE  FALSE
      <3> DEFINE z == Append(x, s)
      <3>1. Trail(p, fold, holds, z)
        BY <2>2, <2>6, TrailGrows
      <3>2. /\ z \in Paths(p) /\ Len(z) = Len(x) + 1 /\ Len(x) \in Nat
            /\ \A i \in 1..Len(x) : z[i] = x[i]
        BY <2>2, <2>6, PathGrows
      <3>3. ToSet(z) = ToSet(x) \cup {s}
        BY <2>2, <2>6, ToSetGrows
      <3> HIDE DEF z
      <3>4. z \notin Bad
        BY <2>1, <2>6, <3>3
      <3>5. Shaped(z, y)
        <4>1. y \in f[z]
          BY <2>6 DEF z
        <4> HIDE DEF Shaped
        <4>2. QED
          BY <3>1, <3>2, <3>4, <4>1
      <3>6. PICK q, e : Closes(p, fold, holds, q, e) /\ Extends(q, z) /\ y = Lasso(q, e)
        BY <3>5
      <3>7. Extends(q, x)
        <4>1. Len(q) \in Nat
          BY <3>6 DEF Closes, Trail, Paths
        <4>2. \A i \in 1..Len(x) : i \in 1..Len(z)
          BY <3>2
        <4>3. QED
          BY <3>2, <3>6, <4>1, <4>2 DEF Extends
      <3>8. Shaped(x, y)
        BY <3>6, <3>7
      <3>9. QED
        BY <2>3, <3>8
    <2>7. QED
      BY <2>4, <2>5, <2>6
  <1>2. path \in Paths(p)
    BY DEF Trail
  <1>3. Shaped(path, l)
    BY <1>1, <1>2
  <1>4. QED
    BY <1>3

(* Every trail that comes back is found.                                   *)
LEMMA LassosComplete ==
    ASSUME NEW p, Fits(p), NEW fold, NEW holds \in SUBSET KState(p),
           NEW f, IsLassos(p, fold, holds, f),
           NEW q, NEW e, Closes(p, fold, holds, q, e)
    PROVE  Lasso(q, e) \in f[<<q[1]>>]
  <1> DEFINE n == Len(q)
             l == Lasso(q, e)
             Left(k) == SubSeq(q, 1, k)
             T == {d \in 0..(n - 1) : l \notin f[Left(n - d)]}
  <1>1. /\ q \in Paths(p) /\ q \in Seq(KState(p)) /\ n \in Nat /\ n # 0 /\ IsInjective(q)
        /\ Follow(p, fold, q) /\ \A i \in 1..n : q[i] \in holds
        /\ e \in 1..n /\ q[e] \in After(p, fold, q[n])
    BY DEF Closes, Trail, Paths, Last
  <1>2. \A k \in 1..n : /\ Left(k) \in Paths(p) /\ Left(k) \in Seq(KState(p))
                        /\ Len(Left(k)) = k /\ \A i \in 1..k : Left(k)[i] = q[i]
    BY <1>1 DEF Paths
  <1>3. \A k \in 1..n : Last(Left(k)) = q[k]
    BY <1>2 DEF Last
  <1>4. \A k \in 1..n : \A t : t \in ToSet(Left(k)) <=> \E i \in 1..k : q[i] = t
    <2> TAKE k \in 1..n
    <2>1. DOMAIN Left(k) = 1..k
      BY <1>2
    <2> HIDE DEF Left
    <2>2. QED
      BY <1>2, <2>1 DEF ToSet
  <1>5. Left(n) = q
    BY <1>1
  <1>6. l \in f[q]
    <2>1. q[e] \in ToSet(q) /\ EntryOf(q, q[e]) = e
      BY <1>1, EntryUnique
    <2>2. q[e] \in After(p, fold, Last(q)) /\ q[e] \in holds /\ q \in Seq(KState(p))
      BY <1>1 DEF Last
    <2> HIDE DEF n, Left
    <2>3. QED
      BY <2>1, <2>2, LassosMember
  <1>7. ASSUME NEW k \in 1..(n - 1), l \in f[Left(k + 1)]
        PROVE  l \in f[Left(k)]
    <2>1. k \in 1..n /\ k + 1 \in 1..n /\ k \in 1..(Len(q) - 1)
      BY <1>1
    <2>2. q[k + 1] \in After(p, fold, q[k]) /\ q[k + 1] \in holds
      BY <1>1, <2>1 DEF Follow
    <2>3. q[k + 1] \notin ToSet(Left(k))
      <3>1. \A i \in 1..k : q[i] # q[k + 1]
        <4> TAKE i \in 1..k
        <4>1. i \in DOMAIN q /\ k + 1 \in DOMAIN q /\ i # k + 1
          BY <1>1, <2>1
        <4>2. QED
          BY <1>1, <4>1 DEF IsInjective
      <3> HIDE DEF Left
      <3>2. QED
        BY <1>4, <2>1, <3>1
    <2>4. Append(Left(k), q[k + 1]) = Left(k + 1)
      BY <1>1, <2>1
    <2>5. l \in f[Append(Left(k), q[k + 1])] /\ Left(k) \in Seq(KState(p))
          /\ q[k + 1] \in After(p, fold, Last(Left(k)))
      BY <1>2, <1>3, <1>7, <2>1, <2>2, <2>4
    <2> HIDE DEF Left, n, l
    <2>6. QED
      BY <2>2, <2>3, <2>5, LassosMember
  <1>8. T = {}
    <2> SUFFICES ASSUME T # {} PROVE FALSE
      OBVIOUS
    <2>1. PICK d \in T : \A c \in T : d <= c
      <3>1. T \in SUBSET Nat /\ T # {}
        OBVIOUS
      <3> HIDE DEF T
      <3>2. QED
        BY <3>1, LeastElement
    <2>2. d \in 0..(n - 1) /\ l \notin f[Left(n - d)]
      OBVIOUS
    <2>3. d # 0
      <3>1. n - 0 = n
        BY <1>1
      <3> HIDE DEF Left, l, n
      <3>2. QED
        BY <1>5, <1>6, <2>2, <3>1
    <2>4. d - 1 \in 0..(n - 1) /\ d - 1 \notin T /\ n - (d - 1) = (n - d) + 1
          /\ n - d \in 1..(n - 1)
      <3>1. n \in Nat /\ n # 0 /\ d \in 0..(n - 1) /\ d # 0
        BY <1>1, <2>2, <2>3
      <3>2. d - 1 \notin T
        <4>1. d \in Nat
          BY <3>1
        <4> HIDE DEF T, n
        <4>2. QED
          BY <2>1, <4>1
      <3> HIDE DEF T, n
      <3>3. QED
        BY <3>1, <3>2
    <2>5. l \in f[Left(n - (d - 1))]
      BY <2>4
    <2> DEFINE k == n - d
    <2>6. k \in 1..(n - 1) /\ l \in f[Left(k + 1)]
      BY <2>4, <2>5
    <2> HIDE DEF k, Left, l, n, T
    <2>7. l \in f[Left(k)]
      BY <1>7, <2>6
    <2>8. QED
      BY <2>2, <2>7 DEF k
  <1>9. l \in f[Left(1)]
    <2>1. n - 1 \in 0..(n - 1) /\ n - (n - 1) = 1
      BY <1>1
    <2>2. QED
      BY <1>8, <2>1
  <1>10. Left(1) = <<q[1]>>
    <2>1. Left(1) \in Seq(KState(p)) /\ Len(Left(1)) = 1 /\ Left(1)[1] = q[1]
      BY <1>1, <1>2
    <2> HIDE DEF Left
    <2>2. QED
      BY <2>1
  <1>11. QED
    BY <1>9, <1>10

LEMMA LassosSustained ==
    ASSUME NEW p, Fits(p), NEW fold, NEW holds \in SUBSET KState(p),
           NEW f, IsLassos(p, fold, holds, f),
           NEW S \in SUBSET holds, Sustained(p, fold, S),
           NEW path \in Paths(p), Last(path) \in S
    PROVE  f[path] # {}
  <1> DEFINE K == KState(p)
             Bad == {x \in Paths(p) : Last(x) \in S /\ f[x] = {}}
             v == [x \in Bad |-> ToSet(x)]
  <1>1. Bad = {}
    <2> SUFFICES ASSUME Bad # {} PROVE FALSE
      OBVIOUS
    <2>1. PICK x \in Bad : \A y \in Bad : v[x] \subseteq v[y] => v[y] = v[x]
      <3>1. initial_state(p) \in K
        BY InitialState DEF Fits, Folding
      <3>2. \A x \in Paths(p) : ToSet(x) \subseteq K
        BY <3>1, ToSetGrows
      <3>3. IsFiniteSet(K) /\ Bad # {} /\ \A x \in Bad : v[x] \subseteq K
        BY <3>2, KStateFinite DEF Fits
      <3> HIDE DEF Bad, v, K
      <3>4. QED
        BY ONLY <3>3, LargestValue
    <2>2. x \in Paths(p) /\ x \in Seq(K) /\ Last(x) \in S /\ f[x] = {}
      BY DEF Paths
    <2>3. PICK s \in S : s \in After(p, fold, Last(x))
      BY <2>2 DEF Sustained
    <2>4. s \in holds /\ s \in K
      OBVIOUS
    <2>5. CASE s \in ToSet(x)
      <3>1. Lasso(x, EntryOf(x, s)) \in f[x]
        <4> DEFINE l == Lasso(x, EntryOf(x, s))
        <4>1. /\ IsLassos(p, fold, holds, f) /\ x \in Seq(KState(p))
              /\ s \in After(p, fold, Last(x)) /\ s \in holds /\ s \in ToSet(x)
              /\ l = Lasso(x, EntryOf(x, s))
          BY <2>2, <2>3, <2>4, <2>5
        <4> HIDE DEF l
        <4>2. l \in f[x]
          BY ONLY <4>1, LassosMember
        <4>3. QED
          BY <4>2 DEF l
      <3>2. QED
        BY <2>2, <3>1
    <2>6. CASE s \notin ToSet(x)
      <3> DEFINE z == Append(x, s)
      <3>1. z \in Paths(p) /\ Last(z) = s
        BY <2>2, <2>4, PathGrows
      <3>2. ToSet(z) = ToSet(x) \cup {s}
        BY <2>2, <2>4, ToSetGrows
      <3>3. f[z] # {}
        <4> HIDE DEF z
        <4>1. z \notin Bad
          BY <2>1, <2>6, <3>2
        <4>2. QED
          BY <3>1, <4>1
      <3>4. PICK l : l \in f[z]
        <4> HIDE DEF z
        <4>1. QED
          BY <3>3
      <3>5. l \in f[x]
        <4> HIDE DEF Bad, v
        <4>1. QED
          BY <2>2, <2>3, <2>4, <2>6, <3>4, LassosMember
      <3>6. QED
        BY <2>2, <3>5
    <2>7. QED
      BY <2>5, <2>6
  <1>2. QED
    BY <1>1

LEMMA LassoSustains ==
    ASSUME NEW p, NEW fold, NEW holds, NEW q, NEW e, Closes(p, fold, holds, q, e)
    PROVE  \E S \in SUBSET holds : q[1] \in S /\ Sustained(p, fold, S)
  <1> DEFINE S == {q[i] : i \in 1..Len(q)}
  <1>1. /\ q \in Seq(KState(p)) /\ Len(q) \in Nat /\ Len(q) # 0
        /\ \A i \in 1..(Len(q) - 1) : q[i + 1] \in After(p, fold, q[i])
        /\ \A i \in 1..Len(q) : q[i] \in holds
        /\ e \in 1..Len(q) /\ q[e] \in After(p, fold, q[Len(q)])
    BY DEF Closes, Trail, Paths, Last, Follow
  <1>2. S \in SUBSET holds /\ q[1] \in S
    BY <1>1
  <1>3. ASSUME NEW i \in 1..Len(q)
        PROVE  \E t \in S : t \in After(p, fold, q[i])
    <2>1. CASE i = Len(q)
      BY <1>1, <2>1
    <2>2. CASE i # Len(q)
      <3>1. i \in 1..(Len(q) - 1) /\ i + 1 \in 1..Len(q)
        BY <1>1, <2>2
      <3>2. QED
        BY <1>1, <3>1
    <2>3. QED
      BY <2>1, <2>2
  <1>4. Sustained(p, fold, S)
    BY <1>3 DEF Sustained
  <1>5. QED
    BY <1>2, <1>4

LEMMA LassosFacts ==
    ASSUME NEW p, Fits(p), NEW fold, NEW holds \in SUBSET KState(p), NEW entry \in holds
    PROVE  /\ \A l \in Lassos(p, fold, holds, entry) : \E q, e :
                 Closes(p, fold, holds, q, e) /\ q[1] = entry /\ l = Lasso(q, e)
           /\ \A q, e : Closes(p, fold, holds, q, e) /\ q[1] = entry
                           => Lasso(q, e) \in Lassos(p, fold, holds, entry)
           /\ Lassos(p, fold, holds, entry) # {}
                 <=> \E S \in SUBSET holds : entry \in S /\ Sustained(p, fold, S)
  <1> DEFINE f == CHOOSE g : IsLassos(p, fold, holds, g)
             start == <<entry>>
  <1>1. IsLassos(p, fold, holds, f)
    BY LassosExist
  <1>2. Lassos(p, fold, holds, entry) = f[start]
    BY DEF Lassos, IsLassos, Closing, Lasso, EntryOf, Fresh
  <1>3. /\ start \in Paths(p) /\ Last(start) = entry /\ Trail(p, fold, holds, start)
        /\ start[1] = entry /\ Len(start) = 1
    <2>1. /\ start \in Paths(p) /\ Len(start) = 1 /\ start[1] = entry /\ DOMAIN start = {1}
      BY DEF Paths
    <2> HIDE DEF start
    <2>2. QED
      BY <2>1 DEF Last, Trail, Follow, IsInjective
  <1> HIDE DEF f
  <1>4. ASSUME NEW l \in f[start]
        PROVE  \E q, e : Closes(p, fold, holds, q, e) /\ q[1] = entry /\ l = Lasso(q, e)
    <2>1. PICK q, e : Closes(p, fold, holds, q, e) /\ Extends(q, start) /\ l = Lasso(q, e)
      <3> HIDE DEF start
      <3>1. /\ Fits(p) /\ holds \in SUBSET KState(p) /\ IsLassos(p, fold, holds, f)
            /\ Trail(p, fold, holds, start) /\ l \in f[start]
        BY <1>1, <1>3
      <3>2. \A x : Trail(p, fold, holds, x) =>
               \A y \in f[x] : \E q, e :
                   Closes(p, fold, holds, q, e) /\ Extends(q, x) /\ y = Lasso(q, e)
        BY <3>1, LassosClose
      <3>3. QED
        BY <3>1, <3>2, Zenon
    <2>2. q[1] = entry
      BY <1>3, <2>1 DEF Extends
    <2>3. QED
      BY <2>1, <2>2
  <1>5. ASSUME NEW q, NEW e, Closes(p, fold, holds, q, e), q[1] = entry
        PROVE  Lasso(q, e) \in f[start]
    BY <1>1, <1>5, LassosComplete
  <1>6. ASSUME NEW S \in SUBSET holds, entry \in S, Sustained(p, fold, S)
        PROVE  f[start] # {}
    <2> HIDE DEF start
    <2>1. QED
      BY <1>1, <1>3, <1>6, LassosSustained
  <1>7. f[start] # {} => \E S \in SUBSET holds : entry \in S /\ Sustained(p, fold, S)
    BY <1>4, LassoSustains
  <1> HIDE DEF start
  <1>8. QED
    BY <1>2, <1>4, <1>5, <1>6, <1>7

(* The cycle of a lasso is one by itself.                                  *)
LEMMA CycleCloses ==
    ASSUME NEW p, NEW fold, NEW holds, NEW q, NEW e, Closes(p, fold, holds, q, e)
    PROVE  /\ Closes(p, fold, holds, Lasso(q, e).cycle, 1)
           /\ Lasso(q, e).cycle[1] = q[e]
           /\ Lasso(Lasso(q, e).cycle, 1) = [prefix |-> << >>, cycle |-> Lasso(q, e).cycle]
  <1> DEFINE c == SubSeq(q, e, Len(q))
             n == Len(q) - e + 1
  <1>1. /\ q \in Seq(KState(p)) /\ Len(q) \in Nat /\ IsInjective(q)
        /\ \A i \in 1..(Len(q) - 1) : q[i + 1] \in After(p, fold, q[i])
        /\ \A i \in 1..Len(q) : q[i] \in holds
        /\ e \in 1..Len(q) /\ q[e] \in After(p, fold, q[Len(q)])
    BY DEF Closes, Trail, Paths, Last, Follow
  <1>2. /\ c \in Seq(KState(p)) /\ Len(c) = n /\ n \in Nat /\ n # 0
        /\ \A i \in 1..n : c[i] = q[e + i - 1]
    <2>1. n \in Nat /\ n # 0
      BY <1>1
    <2>2. c \in Seq(KState(p)) /\ Len(c) = n
      BY <1>1
    <2>3. \A i \in 1..n : c[i] = q[e + i - 1]
      BY <1>1
    <2>4. QED
      BY <2>1, <2>2, <2>3
  <1>3. DOMAIN c = 1..n /\ c # << >>
    <2> HIDE DEF c, n
    <2>1. QED
      BY <1>2
  <1>4. \A i \in 1..n : e + i - 1 \in 1..Len(q)
    BY <1>1
  <1>5. c[n] = q[Len(q)] /\ c[1] = q[e]
    <2>1. e + n - 1 = Len(q) /\ e + 1 - 1 = e
      BY <1>1
    <2> HIDE DEF c, n
    <2>2. QED
      BY <1>2, <2>1
  <1>6. Lasso(q, e).cycle = c
    BY DEF Lasso
  <1>7. IsInjective(c)
    <2> SUFFICES ASSUME NEW a \in 1..n, NEW b \in 1..n, c[a] = c[b] PROVE a = b
      BY <1>3 DEF IsInjective
    <2>1. q[e + a - 1] = q[e + b - 1]
      BY <1>2
    <2>2. e + a - 1 = e + b - 1
      BY <1>1, <1>4, <2>1 DEF IsInjective
    <2>3. QED
      BY <1>1, <2>2
  <1>8. ASSUME NEW i \in 1..(n - 1) PROVE c[i + 1] \in After(p, fold, c[i])
    <2>1. /\ i \in 1..n /\ i + 1 \in 1..n /\ e + i - 1 \in 1..(Len(q) - 1)
          /\ e + (i + 1) - 1 = (e + i - 1) + 1
      BY <1>1, <1>2
    <2>2. c[i] = q[e + i - 1] /\ c[i + 1] = q[(e + i - 1) + 1]
      <3> HIDE DEF c, n
      <3>1. QED
        BY <1>2, <2>1
    <2>3. QED
      BY <1>1, <2>1, <2>2
  <1>9. \A i \in 1..n : c[i] \in holds
    BY <1>1, <1>2, <1>4
  <1> HIDE DEF c, n
  <1>10. Trail(p, fold, holds, c)
    BY <1>2, <1>3, <1>7, <1>8, <1>9 DEF Trail, Paths, Follow
  <1>11. Closes(p, fold, holds, c, 1)
    BY <1>1, <1>2, <1>5, <1>10 DEF Closes, Last
  <1>12. Lasso(c, 1) = [prefix |-> << >>, cycle |-> c]
    <2>1. SubSeq(c, 1, 1 - 1) = << >> /\ SubSeq(c, 1, Len(c)) = c
      BY <1>2
    <2>2. QED
      BY <2>1 DEF Lasso
  <1>13. QED
    BY <1>5, <1>6, <1>11, <1>12

-----------------------------------------------------------------------------
(* When a search returns a run.                                            *)
LEMMA EventuallyFinds ==
    ASSUME NEW p, Fits(p), NEW fold \in Folding, NEW holds
    PROVE  search_eventually(p, fold, holds) # {} <=> \E s \in States(p, fold) : s \in holds
  <1>1. search_eventually(p, fold, holds) # {} <=> PathsTo(p, fold, holds) # {}
    BY DEF search_eventually
  <1>2. QED
    BY <1>1, PathsToFacts

LEMMA AlwaysFinds ==
    ASSUME NEW p, Fits(p), NEW fold \in Folding, NEW holds \in SUBSET KState(p)
    PROVE  search_always(p, fold, holds) # {}
             <=> \E S \in SUBSET holds : initial_state(p) \in S /\ Sustained(p, fold, S)
  <1>1. CASE initial_state(p) \in holds
    <2>1. search_always(p, fold, holds) = Lassos(p, fold, holds, initial_state(p))
      BY <1>1 DEF search_always
    <2>2. QED
      BY <1>1, <2>1, LassosFacts
  <1>2. CASE initial_state(p) \notin holds
    BY <1>2 DEF search_always
  <1>3. QED
    BY <1>1, <1>2

LEMMA EventuallyAlwaysFinds ==
    ASSUME NEW p, Fits(p), NEW fold \in Folding, NEW holds \in SUBSET States(p, fold)
    PROVE  search_eventually_always(p, fold, holds) # {}
             <=> \E S \in SUBSET holds : S # {} /\ Sustained(p, fold, S)
  <1> DEFINE Here(entry) == {l \in Lassos(p, fold, holds, entry) : l.prefix = << >>}
             Runs(entry) == {[prefix |-> Front(path), cycle |-> lasso.cycle] :
                                path \in PathsTo(p, fold, {entry}), lasso \in Here(entry)}
  <1>1. holds \in SUBSET KState(p)
    BY StatesFacts
  <1>2. search_eventually_always(p, fold, holds) = UNION {Runs(entry) : entry \in holds}
    BY DEF search_eventually_always
  <1>3. \A entry \in holds : PathsTo(p, fold, {entry}) # {}
    BY PathsToFacts
  <1>4. ASSUME NEW entry \in holds
        PROVE  Runs(entry) # {} <=> Here(entry) # {}
    <2> HIDE DEF Here
    <2>1. PICK path : path \in PathsTo(p, fold, {entry})
      BY <1>3
    <2>2. ASSUME NEW lasso \in Here(entry) PROVE Runs(entry) # {}
      <3>1. [prefix |-> Front(path), cycle |-> lasso.cycle] \in Runs(entry)
        BY <2>1
      <3> HIDE DEF Runs
      <3>2. QED
        BY <3>1
    <2>3. ASSUME NEW run \in Runs(entry) PROVE Here(entry) # {}
      OBVIOUS
    <2> HIDE DEF Runs
    <2>4. QED
      BY <2>2, <2>3
  <1>5. search_eventually_always(p, fold, holds) # {} <=> \E entry \in holds : Here(entry) # {}
    <2> HIDE DEF Runs, Here
    <2>1. UNION {Runs(entry) : entry \in holds} # {} <=> \E entry \in holds : Runs(entry) # {}
      OBVIOUS
    <2>2. QED
      BY <1>2, <1>4, <2>1
  <1>6. ASSUME NEW entry \in holds, Here(entry) # {}
        PROVE  \E S \in SUBSET holds : S # {} /\ Sustained(p, fold, S)
    <2>1. Lassos(p, fold, holds, entry) # {}
      BY <1>6
    <2>2. PICK S \in SUBSET holds : entry \in S /\ Sustained(p, fold, S)
      BY <1>1, <2>1, LassosFacts
    <2>3. QED
      BY <2>2
  <1>7. ASSUME NEW S \in SUBSET holds, S # {}, Sustained(p, fold, S)
        PROVE  \E entry \in holds : Here(entry) # {}
    <2>1. PICK x \in S : TRUE
      BY <1>7
    <2>2. x \in holds
      OBVIOUS
    <2>3. Lassos(p, fold, holds, x) # {}
      BY <1>1, <1>7, <2>1, <2>2, LassosFacts
    <2>4. PICK q, e : Closes(p, fold, holds, q, e)
      BY <1>1, <2>2, <2>3, LassosFacts
    <2> DEFINE c == Lasso(q, e).cycle
    <2>5. /\ Closes(p, fold, holds, c, 1) /\ c[1] = q[e]
          /\ Lasso(c, 1) = [prefix |-> << >>, cycle |-> c]
      BY <2>4, CycleCloses
    <2>6. c[1] \in holds
      BY <2>4, <2>5 DEF Closes, Trail
    <2> HIDE DEF c
    <2>7. Lasso(c, 1) \in Lassos(p, fold, holds, c[1])
      BY <1>1, <2>5, <2>6, LassosFacts
    <2>8. Lasso(c, 1).prefix = << >>
      BY <2>5
    <2>9. QED
      BY <2>6, <2>7, <2>8
  <1> HIDE DEF Here
  <1>8. QED
    BY <1>5, <1>6, <1>7

-----------------------------------------------------------------------------
(* A transition of the folded graph is one of the graph of single          *)
(* instructions, or leads along the only path through a block.             *)
Unfolds(p, fold, s, n, path) ==
    /\ n \in Nat /\ n >= 2
    /\ s.pc \in 1..Len(p.ops)
    /\ path \in [1..n -> KState(p)]
    /\ path[1] = s
    /\ After(p, fold, s) = {path[n]}
    /\ \A k \in 1..(n - 1) : After(p, "none", path[k]) = {path[k + 1]}
    /\ \A k \in 2..(n - 1) : Hidden(p, fold, s, path[k])
    /\ ChosenBlock(p, fold, s.pc).kind # "single"
    /\ ChosenBlock(p, fold, s.pc).end = s.pc + n - 1
    /\ \A k \in 1..n : path[k].pc = s.pc + k - 1

(* A transition that applies one instruction, or none.                     *)
AppliesOne(p, fold, s) ==
    /\ After(p, fold, s) = After(p, "none", s)
    /\ is_end(p, s.pc) \/ ChosenBlock(p, fold, s.pc).kind = "single"

LEMMA Unfolding ==
    ASSUME NEW p, Fits(p), NEW fold \in Folding, NEW s \in KState(p), AtStart(p, fold, s)
    PROVE  \/ AppliesOne(p, fold, s)
           \/ \E n, path : Unfolds(p, fold, s, n, path)
  <1>1. IsState(p, s) /\ s.pc \in 1..(Len(p.ops) + 1) /\ Len(p.ops) \in Nat
    BY ProgramFacts, KStateMembers DEF IsState, Fits
  <1>2. CASE is_end(p, s.pc)
    BY <1>2 DEF After, Successors, AppliesOne
  <1>3. CASE ~is_end(p, s.pc) /\ ChosenBlock(p, fold, s.pc).kind = "single"
    <2>1. ChosenBlock(p, "none", s.pc).kind = "single"
      BY DEF ChosenBlock, SingleBlock
    <2>2. After(p, fold, s) = After(p, "none", s)
      BY <1>3, <2>1 DEF After, Successors
    <2>3. QED
      BY <1>3, <2>2 DEF AppliesOne
  <1>4. CASE ~is_end(p, s.pc) /\ ChosenBlock(p, fold, s.pc).kind # "single"
    <2> DEFINE stop == ChosenBlock(p, fold, s.pc).end
               n == stop - s.pc + 1
    <2>1. FoldsAt(p, fold, s) /\ s.pc \in 1..Len(p.ops)
      BY <1>1, <1>4 DEF AtStart, FoldsAt, is_end, instr_count
    <2>2. n \in Nat \ {0} /\ n >= 2
      <3>1. IsProgram(p) /\ stop \in (s.pc + 1)..(Len(p.ops) + 1)
        BY <2>1, BlockLength DEF Fits
      <3> HIDE DEF stop
      <3>2. QED
        BY <1>1, <3>1
    <2>3. PICK path : IsUnfoldedPath(p, s, n, path)
      BY <2>2, PathExists
    <2>4. /\ Successors(p, fold, s) = <<path[n]>>
          /\ \A k \in 1..(n - 1) : Len(Successors(p, "none", path[k])) = 1
          /\ \A k \in 2..(n - 1) : Hidden(p, fold, s, path[k])
          /\ \A k \in 1..n : path[k].pc = s.pc + k - 1
      BY <2>1, <2>3, BlockPath DEF Fits
    <2>13. ChosenBlock(p, fold, s.pc).end = s.pc + n - 1
      <3>1. IsProgram(p) /\ stop \in (s.pc + 1)..(Len(p.ops) + 1)
        BY <2>1, BlockLength DEF Fits
      <3> HIDE DEF stop
      <3>2. stop = s.pc + n - 1
        BY <1>1, <3>1
      <3>3. QED
        BY <3>2 DEF stop
    <2> HIDE DEF n, stop
    <2>5. path[1] = s /\ \A k \in 2..n : path[k] = Successors(p, "none", path[k - 1])[1]
      <3>1. n \in Nat \ {0} /\ IsUnfoldedPath(p, s, n, path)
        BY <2>2, <2>3
      <3>2. path[1] = s
        BY ONLY <3>1, PathSteps
      <3>3. \A k \in 2..n : path[k] = NextUnfolded(p, path[k - 1])
        BY ONLY <3>1, PathSteps
      <3>4. QED
        BY <3>2, <3>3 DEF NextUnfolded
    <2>6. ASSUME NEW k \in 1..(n - 1), path[k] \in KState(p)
          PROVE  /\ After(p, "none", path[k]) = {path[k + 1]}
                 /\ path[k + 1] \in KState(p)
      <3> DEFINE seq == Successors(p, "none", path[k])
      <3>1. k + 1 \in 2..n /\ (k + 1) - 1 = k
        BY <2>2
      <3>2. Len(seq) = 1 /\ path[k + 1] = seq[1]
        BY <2>4, <2>5, <3>1
      <3>3. seq \in Seq(KState(p))
        BY <2>6, SuccessorsInside DEF Fits, Folding
      <3>4. DOMAIN seq = {1} /\ seq[1] \in KState(p)
        <4> HIDE DEF seq
        <4>1. DOMAIN seq = 1..Len(seq) /\ \A i \in 1..Len(seq) : seq[i] \in KState(p)
          BY <3>3
        <4>2. 1..1 = {1}
          OBVIOUS
        <4>3. QED
          BY <3>2, <4>1, <4>2
      <3>5. QED
        BY <3>2, <3>4 DEF After, ToSet
    <2> DEFINE T == {k \in 1..n : path[k] \notin KState(p)}
    <2>7. T = {}
      <3> SUFFICES ASSUME T # {} PROVE FALSE
        OBVIOUS
      <3>1. PICK k \in T : \A j \in T : k <= j
        <4>1. T \in SUBSET Nat /\ T # {}
          BY <2>2
        <4> HIDE DEF T
        <4>2. QED
          BY <4>1, LeastElement
      <3>2. k \in 1..n /\ path[k] \notin KState(p) /\ k # 1
        BY <2>5
      <3>3. k - 1 \in 1..(n - 1) /\ k - 1 \in 1..n /\ (k - 1) + 1 = k
        BY <2>2, <3>2
      <3>4. k - 1 \notin T
        <4> HIDE DEF T
        <4>1. QED
          BY <2>2, <3>1, <3>2, <3>3
      <3>5. path[k - 1] \in KState(p)
        BY <3>3, <3>4
      <3>6. path[(k - 1) + 1] \in KState(p)
        BY <2>6, <3>3, <3>5
      <3>7. QED
        BY <3>2, <3>3, <3>6
    <2>8. \A k \in 1..n : path[k] \in KState(p)
      BY <2>7
    <2>9. \A k \in 1..(n - 1) : After(p, "none", path[k]) = {path[k + 1]}
      BY <2>2, <2>6, <2>8
    <2>10. path \in [1..n -> KState(p)]
      BY <2>3, <2>8 DEF IsUnfoldedPath
    <2>11. After(p, fold, s) = {path[n]}
      BY <2>4 DEF After, ToSet
    <2>12. /\ n \in Nat /\ n >= 2
           /\ s.pc \in 1..Len(p.ops)
           /\ ChosenBlock(p, fold, s.pc).kind # "single"
      BY <1>4, <2>1, <2>2
    <2>14. Unfolds(p, fold, s, n, path)
      BY ONLY <2>4, <2>5, <2>9, <2>10, <2>11, <2>12, <2>13 DEF Unfolds
    <2>15. QED
      BY <2>14
  <1>5. QED
    BY <1>2, <1>3, <1>4

-----------------------------------------------------------------------------
(* Sets of states of the folded graph, and of the graph of single          *)
(* instructions.                                                           *)
Passes(p, S) == \A x \in S : \A y : After(p, "none", x) = {y} => y \in S

LEMMA PassesFacts ==
    ASSUME NEW p, NEW S
    PROVE  /\ StaysIn(p, "none", S) => Passes(p, S)
           /\ Sustained(p, "none", S) => Passes(p, S)
  <1>1. ASSUME StaysIn(p, "none", S), NEW x \in S, NEW y, After(p, "none", x) = {y}
        PROVE  y \in S
    BY <1>1 DEF StaysIn
  <1>2. ASSUME Sustained(p, "none", S), NEW x \in S, NEW y, After(p, "none", x) = {y}
        PROVE  y \in S
    BY <1>2 DEF Sustained
  <1>3. QED
    BY <1>1, <1>2 DEF Passes

LEMMA Along ==
    ASSUME NEW p, NEW fold, NEW s, NEW n, NEW path, Unfolds(p, fold, s, n, path),
           NEW S, Passes(p, S), NEW k \in 1..n, path[k] \in S
    PROVE  \A j \in k..n : path[j] \in S
  <1> DEFINE Bad == {j \in k..n : path[j] \notin S}
  <1> SUFFICES ASSUME Bad # {} PROVE FALSE
    OBVIOUS
  <1>1. n \in Nat /\ k \in 1..n
    BY DEF Unfolds
  <1>2. PICK j \in Bad : \A i \in Bad : j <= i
    <2>1. Bad \in SUBSET Nat /\ Bad # {}
      BY <1>1
    <2> HIDE DEF Bad
    <2>2. QED
      BY <2>1, LeastElement
  <1>3. j \in k..n /\ path[j] \notin S /\ j # k
    BY <1>2
  <1>4. j - 1 \in k..n /\ j - 1 \in 1..(n - 1) /\ (j - 1) + 1 = j
    BY <1>1, <1>3
  <1>5. j - 1 \notin Bad
    <2> HIDE DEF Bad
    <2>1. QED
      BY <1>1, <1>2, <1>3, <1>4
  <1>6. path[j - 1] \in S
    BY <1>4, <1>5
  <1>7. After(p, "none", path[j - 1]) = {path[j]}
    BY <1>4 DEF Unfolds
  <1>8. QED
    BY <1>3, <1>6, <1>7 DEF Passes

(* A state of the folded graph has the successors it has in the other one, *)
(* or a path through a block.                                              *)
LEMMA FoldedStep ==
    ASSUME NEW p, Fits(p), NEW fold \in Folding, NEW s \in States(p, fold)
    PROVE  \/ AppliesOne(p, fold, s) /\ After(p, fold, s) = After(p, "none", s)
           \/ \E n, path : Unfolds(p, fold, s, n, path)
  BY StatesFacts, StatesAtStart, Unfolding DEF AppliesOne

LEMMA UnfoldsEnds ==
    ASSUME NEW p, Fits(p), NEW fold \in Folding, NEW s \in States(p, fold),
           NEW n, NEW path, Unfolds(p, fold, s, n, path)
    PROVE  /\ n \in Nat /\ 1 \in 1..n /\ n \in 1..n
           /\ path[n] \in States(p, fold)
           /\ path[1] = s
           /\ \A k \in 1..n : path[k] \in KState(p)
  <1>1. After(p, fold, s) \subseteq States(p, fold)
    BY StatesFacts DEF StaysIn
  <1>2. QED
    BY <1>1 DEF Unfolds

(* Every state of the folded graph is one of the other.                    *)
LEMMA FoldedInside ==
    ASSUME NEW p, Fits(p), NEW fold \in Folding
    PROVE  States(p, fold) \subseteq States(p, "none")
  <1> DEFINE F == States(p, fold)
             N == States(p, "none")
  <1>1. "none" \in Folding
    BY DEF Folding
  <1>2. /\ initial_state(p) \in F /\ initial_state(p) \in N
        /\ StaysIn(p, fold, F) /\ StaysIn(p, "none", N)
    BY <1>1, StatesFacts
  <1>3. Passes(p, N)
    BY <1>2, PassesFacts
  <1>4. ASSUME NEW s \in F \cap N PROVE After(p, fold, s) \subseteq F \cap N
    <2>1. After(p, fold, s) \subseteq F /\ After(p, "none", s) \subseteq N
      BY <1>2 DEF StaysIn
    <2>2. CASE After(p, fold, s) = After(p, "none", s)
      BY <2>1, <2>2
    <2>3. ASSUME NEW n, NEW path, Unfolds(p, fold, s, n, path)
          PROVE  After(p, fold, s) \subseteq F \cap N
      <3>1. n \in Nat /\ 1 \in 1..n /\ n \in 1..n /\ path[1] = s
        BY <2>3, UnfoldsEnds
      <3>2. path[1] \in N
        BY <3>1
      <3> HIDE DEF N
      <3>3. path[n] \in N
        BY <1>3, <2>3, <3>1, <3>2, Along
      <3>4. After(p, fold, s) = {path[n]}
        BY <2>3 DEF Unfolds
      <3>5. QED
        BY <2>1, <3>3, <3>4
    <2>4. QED
      BY <2>2, <2>3, FoldedStep
  <1>5. StaysIn(p, fold, F \cap N)
    BY <1>4 DEF StaysIn
  <1>6. F \subseteq F \cap N
    <2> DEFINE X == F \cap N
    <2>1. initial_state(p) \in X /\ StaysIn(p, fold, X)
      BY <1>2, <1>5
    <2> HIDE DEF X
    <2>2. F \subseteq X
      BY <2>1, StatesFacts
    <2>3. QED
      BY <2>2 DEF X
  <1>7. QED
    BY <1>6

(* The states inside the blocks that the transitions from S apply.         *)
Inside(p, fold, S, u) ==
    \E s \in S : \E n, path : \E k \in 2..(n - 1) : Unfolds(p, fold, s, n, path) /\ u = path[k]

Filled(p, fold, S) == S \cup {u \in KState(p) : Inside(p, fold, S, u)}

(* Each instruction of a block leads further inside it, or to its end.     *)
LEMMA InsideGoesOn ==
    ASSUME NEW p, Fits(p), NEW fold \in Folding, NEW S \in SUBSET States(p, fold),
           NEW s \in S, NEW n, NEW path, Unfolds(p, fold, s, n, path), path[n] \in S,
           NEW k \in 1..(n - 1)
    PROVE  /\ After(p, "none", path[k]) = {path[k + 1]}
           /\ path[k + 1] \in Filled(p, fold, S)
  <1>1. n \in Nat /\ n >= 2 /\ path \in [1..n -> KState(p)]
    BY DEF Unfolds
  <1>2. After(p, "none", path[k]) = {path[k + 1]}
    BY DEF Unfolds
  <1>3. CASE k + 1 = n
    BY <1>2, <1>3 DEF Filled
  <1>4. CASE k + 1 # n
    <2>1. k + 1 \in 2..(n - 1) /\ k + 1 \in 1..n
      BY <1>1, <1>4
    <2>2. path[k + 1] \in KState(p)
      BY <1>1, <2>1
    <2>3. Inside(p, fold, S, path[k + 1])
      BY <2>1 DEF Inside
    <2>4. QED
      BY <1>2, <2>2, <2>3 DEF Filled
  <1>5. QED
    BY <1>3, <1>4

(* Every state of the graph of single instructions is one of the folded    *)
(* graph, or lies inside a block.                                          *)
LEMMA SingleCovered ==
    ASSUME NEW p, Fits(p), NEW fold \in Folding
    PROVE  States(p, "none") \subseteq Filled(p, fold, States(p, fold))
  <1> DEFINE F == States(p, fold)
             A == Filled(p, fold, F)
  <1>1. "none" \in Folding
    BY DEF Folding
  <1>2. initial_state(p) \in F /\ StaysIn(p, fold, F)
    BY StatesFacts
  <1>3. initial_state(p) \in A
    BY <1>2 DEF Filled
  <1>4. ASSUME NEW s \in F, NEW n, NEW path, Unfolds(p, fold, s, n, path), NEW k \in 1..(n - 1)
        PROVE  After(p, "none", path[k]) \subseteq A
    <2>1. path[n] \in F
      BY <1>4, UnfoldsEnds
    <2>2. After(p, "none", path[k]) = {path[k + 1]} /\ path[k + 1] \in A
      BY <1>4, <2>1, InsideGoesOn
    <2>3. QED
      BY <2>2
  <1>5. ASSUME NEW s \in F PROVE After(p, "none", s) \subseteq A
    <2>1. After(p, fold, s) \subseteq F
      BY <1>2 DEF StaysIn
    <2>2. CASE After(p, fold, s) = After(p, "none", s)
      BY <2>1, <2>2 DEF Filled
    <2>3. ASSUME NEW n, NEW path, Unfolds(p, fold, s, n, path)
          PROVE  After(p, "none", s) \subseteq A
      <3>1. 1 \in 1..(n - 1) /\ path[1] = s
        BY <2>3 DEF Unfolds
      <3> HIDE DEF A
      <3>2. QED
        BY <1>4, <2>3, <3>1
    <2>4. QED
      BY <2>2, <2>3, FoldedStep
  <1>6. ASSUME NEW u, Inside(p, fold, F, u) PROVE After(p, "none", u) \subseteq A
    <2>1. PICK s \in F : \E n, path : \E k \in 2..(n - 1) :
              Unfolds(p, fold, s, n, path) /\ u = path[k]
      BY <1>6 DEF Inside
    <2>2. PICK n, path : \E k \in 2..(n - 1) : Unfolds(p, fold, s, n, path) /\ u = path[k]
      BY <2>1
    <2>3. PICK k \in 2..(n - 1) : Unfolds(p, fold, s, n, path) /\ u = path[k]
      BY <2>2
    <2>4. k \in 1..(n - 1)
      BY <2>3 DEF Unfolds
    <2> HIDE DEF A
    <2>5. QED
      BY <1>4, <2>3, <2>4
  <1>7. StaysIn(p, "none", A)
    <2> SUFFICES ASSUME NEW u \in A PROVE After(p, "none", u) \subseteq A
      BY DEF StaysIn
    <2>1. u \in F \/ Inside(p, fold, F, u)
      BY DEF Filled
    <2> HIDE DEF A
    <2>2. QED
      BY <1>5, <1>6, <2>1
  <1> HIDE DEF A
  <1>8. QED
    BY <1>1, <1>3, <1>7, StatesFacts DEF A

-----------------------------------------------------------------------------
(* A set of events that no block hides: an event inside a block is one     *)
(* where the block starts, too.                                            *)
Shown(p, fold, E) ==
    \A s \in States(p, fold) : \A n, path : Unfolds(p, fold, s, n, path) =>
        \A k \in 2..(n - 1) : path[k] \in E => s \in E

(* A set of reachable states without an event that a run need not leave.   *)
Quiet(p, fold, E, S) ==
    /\ S \subseteq States(p, fold) \ E
    /\ Sustained(p, fold, S)

LEMMA UnfoldQuiet ==
    ASSUME NEW p, Fits(p), NEW fold \in Folding, NEW E, Shown(p, fold, E),
           NEW S, Quiet(p, fold, E, S)
    PROVE  S \subseteq Filled(p, fold, S) /\ Quiet(p, "none", E, Filled(p, fold, S))
  <1> DEFINE F == States(p, fold)
             N == States(p, "none")
             T == Filled(p, fold, S)
  <1>1. S \subseteq T
    BY DEF Filled
  <1>2. "none" \in Folding
    BY DEF Folding
  <1>3. S \in SUBSET F /\ (\A s \in S : s \notin E) /\ Sustained(p, fold, S)
    BY DEF Quiet
  <1>4. F \subseteq N /\ StaysIn(p, "none", N)
    BY <1>2, StatesFacts, FoldedInside
  <1>5. Passes(p, N)
    BY <1>4, PassesFacts
  <1>6. ASSUME NEW u, Inside(p, fold, S, u)
        PROVE  /\ u \in N /\ u \notin E
               /\ \E t \in T : t \in After(p, "none", u)
    <2>1. PICK s \in S : \E n, path : \E k \in 2..(n - 1) :
              Unfolds(p, fold, s, n, path) /\ u = path[k]
      BY <1>6 DEF Inside
    <2>2. PICK n, path : \E k \in 2..(n - 1) : Unfolds(p, fold, s, n, path) /\ u = path[k]
      BY <2>1
    <2>3. PICK k \in 2..(n - 1) : Unfolds(p, fold, s, n, path) /\ u = path[k]
      BY <2>2
    <2>4. s \in F /\ s \in N
      BY <1>3, <1>4
    <2>5. /\ n \in Nat /\ 1 \in 1..n /\ path[1] = s
          /\ k \in 1..(n - 1) /\ k \in 1..n
      <3>1. n \in Nat /\ 1 \in 1..n /\ path[1] = s
        BY <2>3, <2>4, UnfoldsEnds
      <3>2. QED
        BY <2>3, <3>1
    <2>6. u \in N
      <3>1. path[1] \in N
        BY <2>4, <2>5
      <3> HIDE DEF N
      <3>2. \A j \in 1..n : path[j] \in N
        BY <1>5, <2>3, <2>5, <3>1, Along
      <3>3. QED
        BY <2>3, <2>5, <3>2
    <2>7. u \notin E
      BY <1>3, <2>3, <2>4 DEF Shown
    <2>8. path[n] \in S
      BY <1>3, <2>1, <2>3 DEF Sustained, Unfolds
    <2>9. After(p, "none", path[k]) = {path[k + 1]} /\ path[k + 1] \in T
      BY <1>3, <2>1, <2>3, <2>5, <2>8, InsideGoesOn
    <2>10. QED
      BY <2>3, <2>6, <2>7, <2>9
  <1>7. ASSUME NEW s \in S PROVE \E t \in T : t \in After(p, "none", s)
    <2>1. PICK t \in S : t \in After(p, fold, s)
      BY <1>3 DEF Sustained
    <2>2. CASE After(p, fold, s) = After(p, "none", s)
      BY <1>1, <2>1, <2>2
    <2>3. ASSUME NEW n, NEW path, Unfolds(p, fold, s, n, path)
          PROVE  \E x \in T : x \in After(p, "none", s)
      <3>1. 1 \in 1..(n - 1) /\ path[1] = s /\ path[n] \in S
        BY <2>1, <2>3 DEF Unfolds
      <3>2. After(p, "none", path[1]) = {path[1 + 1]} /\ path[1 + 1] \in T
        BY <1>3, <2>3, <3>1, InsideGoesOn
      <3>3. QED
        BY <3>1, <3>2
    <2>4. s \in F
      BY <1>3
    <2>5. QED
      BY <2>2, <2>3, <2>4, FoldedStep
  <1>8. \A u \in T : u \in S \/ Inside(p, fold, S, u)
    BY DEF Filled
  <1>9. T \subseteq N \ E
    <2> SUFFICES ASSUME NEW u \in T PROVE u \in N /\ u \notin E
      OBVIOUS
    <2>1. CASE u \in S
      BY <1>3, <1>4, <2>1
    <2>2. CASE Inside(p, fold, S, u)
      BY <1>6, <2>2
    <2>3. QED
      BY <1>8, <2>1, <2>2
  <1>10. Sustained(p, "none", T)
    <2> SUFFICES ASSUME NEW u \in T PROVE \E t \in T : t \in After(p, "none", u)
      BY DEF Sustained
    <2> HIDE DEF T
    <2>1. QED
      BY <1>6, <1>7, <1>8
  <1>11. QED
    BY <1>1, <1>9, <1>10 DEF Quiet

LEMMA FoldQuiet ==
    ASSUME NEW p, Fits(p), NEW fold \in Folding, NEW E,
           NEW T, Quiet(p, "none", E, T)
    PROVE  /\ Quiet(p, fold, E, T \cap States(p, fold))
           /\ T # {} => T \cap States(p, fold) # {}
  <1> DEFINE F == States(p, fold)
             S == T \cap F
  <1>1. "none" \in Folding
    BY DEF Folding
  <1>2. T \subseteq States(p, "none") /\ (\A u \in T : u \notin E) /\ Sustained(p, "none", T)
    BY DEF Quiet
  <1>3. Passes(p, T)
    BY <1>2, PassesFacts
  <1>4. StaysIn(p, fold, F)
    BY StatesFacts
  <1>5. ASSUME NEW s \in S PROVE \E t \in S : t \in After(p, fold, s)
    <2>1. PICK t \in T : t \in After(p, "none", s)
      BY <1>2 DEF Sustained
    <2>2. CASE After(p, fold, s) = After(p, "none", s)
      BY <1>4, <2>1, <2>2 DEF StaysIn
    <2>3. ASSUME NEW n, NEW path, Unfolds(p, fold, s, n, path)
          PROVE  \E x \in S : x \in After(p, fold, s)
      <3>1. /\ n \in Nat /\ 1 \in 1..n /\ n \in 1..n /\ path[1] = s
            /\ path[n] \in F
        BY <2>3, UnfoldsEnds
      <3>2. path[1] \in T /\ n \in 1..n
        BY <3>1
      <3>3. \A j \in 1..n : path[j] \in T
        BY <1>3, <2>3, <3>1, <3>2, Along
      <3>4. After(p, fold, s) = {path[n]}
        BY <2>3 DEF Unfolds
      <3>5. QED
        BY <3>1, <3>3, <3>4
    <2>4. s \in F
      OBVIOUS
    <2>5. QED
      BY <2>2, <2>3, <2>4, FoldedStep
  <1>6. Quiet(p, fold, E, S)
    BY <1>2, <1>5 DEF Quiet, Sustained
  <1>7. ASSUME NEW u \in T PROVE S # {}
    <2>1. u \in F \/ Inside(p, fold, F, u)
      BY <1>2, SingleCovered DEF Filled
    <2>2. CASE u \in F
      BY <2>2
    <2>3. CASE Inside(p, fold, F, u)
      <3>1. PICK s \in F : \E n, path : \E k \in 2..(n - 1) :
                Unfolds(p, fold, s, n, path) /\ u = path[k]
        BY <2>3 DEF Inside
      <3>2. PICK n, path : \E k \in 2..(n - 1) : Unfolds(p, fold, s, n, path) /\ u = path[k]
        BY <3>1
      <3>3. PICK k \in 2..(n - 1) : Unfolds(p, fold, s, n, path) /\ u = path[k]
        BY <3>2
      <3>4. n \in Nat /\ path[n] \in F
        BY <3>3, UnfoldsEnds
      <3>5. k \in 1..n /\ n \in k..n /\ path[k] \in T
        BY <3>3, <3>4
      <3>6. \A j \in k..n : path[j] \in T
        BY <1>3, <3>3, <3>5, Along
      <3>7. QED
        BY <3>4, <3>5, <3>6
    <2>4. QED
      BY <2>1, <2>2, <2>3
  <1>8. QED
    BY <1>6, <1>7

(* The folded graph has the same answers as the other one.                 *)
LEMMA SameQuiet ==
    ASSUME NEW p, Fits(p), NEW fold \in Folding, NEW E, Shown(p, fold, E)
    PROVE  /\ (\E S : Quiet(p, fold, E, S) /\ initial_state(p) \in S)
                <=> (\E S : Quiet(p, "none", E, S) /\ initial_state(p) \in S)
           /\ (\E S : Quiet(p, fold, E, S) /\ S # {})
                <=> (\E S : Quiet(p, "none", E, S) /\ S # {})
  <1>1. \A S : Quiet(p, fold, E, S)
                  => S \subseteq Filled(p, fold, S) /\ Quiet(p, "none", E, Filled(p, fold, S))
    BY UnfoldQuiet
  <1>2. \A T : Quiet(p, "none", E, T)
                  => /\ Quiet(p, fold, E, T \cap States(p, fold))
                     /\ T # {} => T \cap States(p, fold) # {}
    BY FoldQuiet
  <1>3. initial_state(p) \in States(p, fold)
    BY StatesFacts
  <1>4. ASSUME NEW S, Quiet(p, fold, E, S)
        PROVE  \E T : Quiet(p, "none", E, T) /\ S \subseteq T
    BY <1>1, <1>4
  <1>5. ASSUME NEW T, Quiet(p, "none", E, T)
        PROVE  \E S : /\ Quiet(p, fold, E, S)
                      /\ initial_state(p) \in T => initial_state(p) \in S
                      /\ T # {} => S # {}
    <2>1. initial_state(p) \in T => initial_state(p) \in T \cap States(p, fold)
      BY <1>3
    <2>2. QED
      BY <1>2, <1>5, <2>1
  <1>6. QED
    BY <1>4, <1>5

LEMMA SameReached ==
    ASSUME NEW p, Fits(p), NEW fold \in Folding, NEW E, Shown(p, fold, E)
    PROVE  (\E s \in States(p, fold) : s \in E) <=> (\E s \in States(p, "none") : s \in E)
  <1>1. States(p, fold) \subseteq States(p, "none")
    BY FoldedInside
  <1>2. ASSUME NEW u \in States(p, "none"), u \in E
        PROVE  \E s \in States(p, fold) : s \in E
    <2>1. u \in States(p, fold) \/ Inside(p, fold, States(p, fold), u)
      BY SingleCovered DEF Filled
    <2>2. ASSUME Inside(p, fold, States(p, fold), u)
          PROVE  \E s \in States(p, fold) : s \in E
      <3>1. PICK s \in States(p, fold) : \E n, path : \E k \in 2..(n - 1) :
                Unfolds(p, fold, s, n, path) /\ u = path[k]
        BY <2>2 DEF Inside
      <3>2. QED
        BY <1>2, <3>1 DEF Shown
    <2>3. QED
      BY <1>2, <2>1, <2>2
  <1>3. QED
    BY <1>1, <1>2

-----------------------------------------------------------------------------
(* The states from which every run gets to an event are those that are in  *)
(* no set of states without one that a run need not leave.                 *)
Led(p, P) == {s \in States(p, "none") \ P : After(p, "none", s) \subseteq P}

IsInevitable(p, f) ==
    f = [P \in SUBSET States(p, "none") |->
            IF Led(p, P) = {} THEN P ELSE f[P \cup Led(p, P)]]

LEMMA InevitableExists ==
    ASSUME NEW p
    PROVE  \E f : IsInevitable(p, f)
  <1> DEFINE D == SUBSET States(p, "none")
             stop == {P \in D : Led(p, P) = {}}
             base == [P \in D |-> P]
             next == [P \in D |-> P \cup Led(p, P)]
  <1>1. \A P \in D \ stop : next[P] \in D
    BY DEF Led
  <1>2. PICK f : IsTailOf(D, stop, base, next, f)
    <2> HIDE DEF D, stop, base, next
    <2>1. QED
      BY <1>1, TailRecursion
  <1>3. f = [P \in D |-> IF P \in stop THEN base[P] ELSE f[next[P]]]
    <2> HIDE DEF D, stop, base, next
    <2>1. QED
      BY <1>2 DEF IsTailOf
  <1>4. \A P \in D : (IF P \in stop THEN base[P] ELSE f[next[P]])
           = IF Led(p, P) = {} THEN P ELSE f[P \cup Led(p, P)]
    OBVIOUS
  <1>5. [P \in D |-> IF P \in stop THEN base[P] ELSE f[next[P]]]
           = [P \in D |-> IF Led(p, P) = {} THEN P ELSE f[P \cup Led(p, P)]]
    BY <1>4
  <1>6. IsInevitable(p, f)
    BY <1>3, <1>5 DEF IsInevitable
  <1>7. QED
    BY <1>6

LEMMA InevitableFacts ==
    ASSUME NEW p, Fits(p), NEW f, IsInevitable(p, f), NEW P \in SUBSET States(p, "none")
    PROVE  /\ P \subseteq f[P]
           /\ f[P] \subseteq States(p, "none")
           /\ Led(p, f[P]) = {}
           /\ \A S : Quiet(p, "none", P, S) => Quiet(p, "none", f[P], S)
  <1> DEFINE K == States(p, "none")
             Good(Q) == /\ Q \subseteq f[Q]
                        /\ f[Q] \subseteq K
                        /\ Led(p, f[Q]) = {}
                        /\ \A S : Quiet(p, "none", Q, S) => Quiet(p, "none", f[Q], S)
             Bad == {Q \in SUBSET K : ~Good(Q)}
  <1>1. \A Q \in SUBSET K : f[Q] = IF Led(p, Q) = {} THEN Q ELSE f[Q \cup Led(p, Q)]
    BY DEF IsInevitable
  <1>2. Bad = {}
    <2> SUFFICES ASSUME Bad # {} PROVE FALSE
      OBVIOUS
    <2>1. PICK Q \in Bad : \A R \in Bad : Q \subseteq R => R = Q
      <3>1. "none" \in Folding
        BY DEF Folding
      <3>2. K \subseteq KState(p) /\ IsFiniteSet(KState(p))
        BY <3>1, StatesFacts, KStateFinite DEF Fits
      <3>3. IsFiniteSet(K)
        BY <3>2, FS_Subset
      <3>4. Bad \in SUBSET SUBSET K
        OBVIOUS
      <3> HIDE DEF Bad, K
      <3>5. QED
        BY <3>3, <3>4, LargestSet
    <2>2. Q \in SUBSET K /\ ~Good(Q)
      OBVIOUS
    <2>3. CASE Led(p, Q) = {}
      <3>1. f[Q] = Q
        BY <1>1, <2>2, <2>3
      <3>2. QED
        BY <2>2, <2>3, <3>1
    <2>4. CASE Led(p, Q) # {}
      <3> DEFINE R == Q \cup Led(p, Q)
      <3>1. R \in SUBSET K /\ Q \subseteq R /\ R # Q
        BY <2>2, <2>4 DEF Led
      <3>2. R \notin Bad
        BY <2>1, <3>1
      <3>3. f[Q] = f[R]
        BY <1>1, <2>2, <2>4
      <3>4. Good(R)
        BY <3>1, <3>2
      <3>5. ASSUME NEW S, Quiet(p, "none", Q, S) PROVE Quiet(p, "none", R, S)
        <4>1. S \subseteq K \ Q /\ Sustained(p, "none", S)
          BY <3>5 DEF Quiet
        <4>2. ASSUME NEW s \in S PROVE s \notin Led(p, Q)
          BY <4>1 DEF Sustained, Led
        <4>3. QED
          BY <4>1, <4>2 DEF Quiet
      <3>6. QED
        BY <2>2, <3>1, <3>3, <3>4, <3>5
    <2>5. QED
      BY <2>3, <2>4
  <1>3. Good(P)
    BY <1>2
  <1>4. QED
    BY <1>3

LEMMA InevitableQuiet ==
    ASSUME NEW p, Fits(p), NEW f, IsInevitable(p, f), NEW P \in SUBSET States(p, "none")
    PROVE  /\ initial_state(p) \in f[P]
                <=> ~ \E S : Quiet(p, "none", P, S) /\ initial_state(p) \in S
           /\ States(p, "none") \subseteq f[P]
                <=> ~ \E S : Quiet(p, "none", P, S) /\ S # {}
  <1> DEFINE N == States(p, "none")
  <1>1. "none" \in Folding
    BY DEF Folding
  <1>2. initial_state(p) \in N /\ StaysIn(p, "none", N)
    BY <1>1, StatesFacts
  <1>3. P \subseteq f[P] /\ f[P] \subseteq N /\ Led(p, f[P]) = {}
    BY InevitableFacts
  <1>4. \A S : Quiet(p, "none", P, S) => S \subseteq N \ f[P]
    BY InevitableFacts DEF Quiet
  <1>5. Quiet(p, "none", P, N \ f[P])
    <2>1. ASSUME NEW s \in N \ f[P] PROVE \E t \in N \ f[P] : t \in After(p, "none", s)
      <3>1. ~ (After(p, "none", s) \subseteq f[P])
        BY <1>3 DEF Led
      <3>2. After(p, "none", s) \subseteq N
        BY <1>2 DEF StaysIn
      <3>3. QED
        BY <3>1, <3>2
    <2>2. QED
      BY <1>3, <2>1 DEF Quiet, Sustained
  <1>6. initial_state(p) \in f[P]
            <=> ~ \E S : Quiet(p, "none", P, S) /\ initial_state(p) \in S
    BY <1>2, <1>4, <1>5
  <1>7. N \subseteq f[P] <=> ~ \E S : Quiet(p, "none", P, S) /\ S # {}
    BY <1>4, <1>5
  <1>8. QED
    BY <1>6, <1>7

(* What has the event the command is about.                                *)
Events == {s \in Single : Event(s)}

InevitableFrom(p, P) == (CHOOSE f : IsInevitable(p, f))[P]

LEMMA FromWhichEventuallyIs ==
    FromWhichEventually = InevitableFrom(prog, Events)
  BY DEF FromWhichEventually, Single, NextOf, Events, Led, IsInevitable, InevitableFrom

LEMMA FromWhichEventuallyFacts ==
    ASSUME Fits(prog)
    PROVE  /\ initial_state(prog) \in FromWhichEventually
                <=> ~ \E S : Quiet(prog, "none", Events, S) /\ initial_state(prog) \in S
           /\ Single \subseteq FromWhichEventually
                <=> ~ \E S : Quiet(prog, "none", Events, S) /\ S # {}
  <1> DEFINE f == CHOOSE g : IsInevitable(prog, g)
  <1>1. IsInevitable(prog, f)
    BY InevitableExists
  <1>2. FromWhichEventually = f[Events]
    BY FromWhichEventuallyIs DEF InevitableFrom
  <1> HIDE DEF f
  <1>3. Events \in SUBSET States(prog, "none")
    BY DEF Events, Single
  <1>4. QED
    BY <1>1, <1>2, <1>3, InevitableQuiet DEF Single

(* What a command is about does not change.                                *)
LEMMA Unchanged ==
    ASSUME UNCHANGED <<prog, command>>
    PROVE  /\ Single' = Single
           /\ \A s : Event(s)' <=> Event(s)
           /\ FromWhichEventually' = FromWhichEventually
  <1>1. prog' = prog /\ command' = command
    OBVIOUS
  <1>2. Single' = Single
    BY <1>1 DEF Single
  <1>3. ASSUME NEW s PROVE NextOf(s)' = NextOf(s)
    BY <1>1 DEF NextOf
  <1>4. CellTest' = CellTest
    BY <1>1 DEF CellTest
  <1>5. ASSUME NEW s PROVE Wraps(s)' <=> Wraps(s)
    BY <1>1, <1>3 DEF Wraps
  <1>6. ASSUME NEW s PROVE Event(s)' <=> Event(s)
    BY <1>1, <1>4, <1>5 DEF Event
  <1>7. Events' = Events
    BY <1>2, <1>6 DEF Events
  <1>8. FromWhichEventually' = InevitableFrom(prog', Events')
    BY DEF FromWhichEventually, Single, NextOf, Events, Led, IsInevitable, InevitableFrom
  <1>9. QED
    BY <1>1, <1>2, <1>6, <1>7, <1>8, FromWhichEventuallyIs

-----------------------------------------------------------------------------
(* When a search on the folded graph finds nothing.                        *)
LEMMA AlwaysVerdict ==
    ASSUME Fits(prog), NEW fold \in Folding, Shown(prog, fold, Events)
    PROVE  search_always(prog, fold, States(prog, fold) \ Events) = {}
             <=> initial_state(prog) \in FromWhichEventually
  <1> DEFINE F == States(prog, fold)
             holds == F \ Events
  <1>1. F \subseteq KState(prog)
    BY StatesFacts
  <1>2. holds \in SUBSET KState(prog)
    BY <1>1
  <1>3. search_always(prog, fold, holds) # {}
          <=> \E S \in SUBSET holds : initial_state(prog) \in S /\ Sustained(prog, fold, S)
    <2> HIDE DEF holds
    <2>1. QED
      BY <1>2, AlwaysFinds
  <1>4. (\E S \in SUBSET holds : initial_state(prog) \in S /\ Sustained(prog, fold, S))
          <=> \E S : Quiet(prog, fold, Events, S) /\ initial_state(prog) \in S
    BY DEF Quiet
  <1>5. (\E S : Quiet(prog, fold, Events, S) /\ initial_state(prog) \in S)
          <=> (\E S : Quiet(prog, "none", Events, S) /\ initial_state(prog) \in S)
    BY SameQuiet
  <1>6. QED
    BY <1>3, <1>4, <1>5, FromWhichEventuallyFacts

LEMMA EventuallyAlwaysVerdict ==
    ASSUME Fits(prog), NEW fold \in Folding, Shown(prog, fold, Events)
    PROVE  search_eventually_always(prog, fold, States(prog, fold) \ Events) = {}
             <=> Single \subseteq FromWhichEventually
  <1> DEFINE holds == States(prog, fold) \ Events
  <1>1. holds \in SUBSET States(prog, fold)
    OBVIOUS
  <1>2. search_eventually_always(prog, fold, holds) # {}
          <=> \E S \in SUBSET holds : S # {} /\ Sustained(prog, fold, S)
    <2> HIDE DEF holds
    <2>1. QED
      BY <1>1, EventuallyAlwaysFinds
  <1>3. (\E S \in SUBSET holds : S # {} /\ Sustained(prog, fold, S))
          <=> \E S : Quiet(prog, fold, Events, S) /\ S # {}
    BY DEF Quiet
  <1>4. (\E S : Quiet(prog, fold, Events, S) /\ S # {})
          <=> (\E S : Quiet(prog, "none", Events, S) /\ S # {})
    BY SameQuiet
  <1>5. QED
    BY <1>2, <1>3, <1>4, FromWhichEventuallyFacts

LEMMA EventuallyVerdict ==
    ASSUME Fits(prog), NEW fold \in Folding, Shown(prog, fold, Events)
    PROVE  search_eventually(prog, fold, States(prog, fold) \cap Events) = {}
             <=> ~ \E s \in Single : Event(s)
  <1>1. search_eventually(prog, fold, States(prog, fold) \cap Events) # {}
          <=> \E s \in States(prog, fold) : s \in Events
    BY EventuallyFinds
  <1>2. (\E s \in States(prog, fold) : s \in Events)
          <=> (\E s \in States(prog, "none") : s \in Events)
    BY SameReached
  <1>3. QED
    BY <1>1, <1>2 DEF Events, Single

(* What the folding modes hide of a command's events.                      *)
HidesNothing(fold) ==
    \A s, u : /\ s \in Single
              /\ u \in KState(prog)
              /\ s.pc \in 1..Len(prog.ops)
              /\ Hidden(prog, fold, s, u)
              /\ Event(u)
              => Event(s)

LEMMA ShownEvents ==
    ASSUME Fits(prog), NEW fold \in Folding, HidesNothing(fold)
    PROVE  Shown(prog, fold, Events)
  <1> SUFFICES ASSUME NEW s \in States(prog, fold),
                      NEW n, NEW path, Unfolds(prog, fold, s, n, path),
                      NEW k \in 2..(n - 1), path[k] \in Events
               PROVE  s \in Events
    BY DEF Shown
  <1>1. s \in Single
    BY FoldedInside DEF Single
  <1>2. s.pc \in 1..Len(prog.ops) /\ Hidden(prog, fold, s, path[k]) /\ n \in Nat
    BY DEF Unfolds
  <1>3. k \in 1..n
    BY <1>2
  <1>4. path[k] \in KState(prog) /\ Event(path[k])
    BY <1>3, UnfoldsEnds DEF Events
  <1>5. QED
    BY <1>1, <1>2, <1>4 DEF HidesNothing, Events

(* The parsed program and the arguments that were typed.                   *)
Commanded ==
    /\ prog \in Programs
    /\ command \in Asked(prog)
    /\ Fits(prog)

LEMMA CommandedFacts ==
    ASSUME Commanded
    PROVE  /\ \A label \in prog.labels :
                 label = <<label[1], label[2]>> /\ label[1] \in 1..(Len(prog.ops) + 1)
           /\ command.name \in {"visit", "value", "overflow"} => command.cell \in Nat
           /\ command.name = "visit" => command.infinitely_often \in BOOLEAN
           /\ command.name = "value" =>
                 /\ command.op \in Comparison
                 /\ command.value \in Nat
                 /\ command.every_run \in BOOLEAN
                 /\ command.on_halt \in BOOLEAN
           /\ command.name = "overflow" =>
                 command.direction \in {"overflow", "underflow", "both"}
  BY CommandsAssumption DEF Commanded, instr_count

(* The fields of a reachable state.                                        *)
LEMMA SingleStates ==
    ASSUME Commanded, NEW s \in KState(prog)
    PROVE  /\ s.pc \in 1..(Len(prog.ops) + 1)
           /\ s.mem_ptr \in Cells(prog.memory_model)
           /\ s.memory \in [Cells(prog.memory_model) -> CellValues(prog.memory_model)]
           /\ Len(prog.ops) \in Nat
           /\ is_end(prog, s.pc) <=> s.pc > Len(prog.ops)
  <1>1. IsState(prog, s) /\ prog.ops \in Seq(Instruction)
    BY KStateMembers DEF Commanded, Fits, IsProgram
  <1>2. QED
    BY <1>1 DEF IsState, Model, Tapes, is_end, instr_count

HoldsMarker(run) ==
    [s \in ToSet(run.prefix) |-> IF value_hit(CellTest, s) THEN "holds" ELSE ""]

LEMMA AnyRunStep ==
    ASSUME valuefun_any_run
    PROVE  /\ Given("value")
           /\ ~command.every_run
           /\ ~OffTape
           /\ \/ /\ check_value(prog, CellTest, "any_run") = {}
                 /\ Show([Nothing EXCEPT !.verdict = "red"])
              \/ \E run \in check_value(prog, CellTest, "any_run") :
                    Show(print_truncated_run("green", run, ValueRunFolding, HoldsMarker(run)))
  BY Zenon DEF valuefun_any_run, HoldsMarker

(* The states of the folded graph with and without an event.               *)
Uneventful(fold) == States(prog, fold) \ Events

Eventful(fold) == States(prog, fold) \cap Events

(* What a step prints is the answer to the command that was given.         *)
LEMMA NextKeeps ==
    ASSUME [Next]_vars
    PROVE  UNCHANGED <<prog, command>>
  <1>1. CASE UNCHANGED vars
    BY <1>1 DEF vars
  <1>2. CASE RejectLabel
    BY <1>2 DEF RejectLabel, Show
  <1>3. CASE RejectCell
    BY <1>3 DEF RejectCell, Show
  <1>4. CASE reachfun
    BY <1>4 DEF reachfun, ShowLasso, Show
  <1>5. CASE visitfun
    BY <1>5 DEF visitfun, ShowLasso, Show
  <1>6. CASE valuefun_every_run
    BY <1>6 DEF valuefun_every_run, ShowLasso, Show
  <1>7. CASE valuefun_any_run
    <2>1. \A text : Show(text) => UNCHANGED <<prog, command>>
      BY DEF Show
    <2>2. QED
      BY <1>7, <2>1, AnyRunStep
  <1>8. CASE overflowfun
    BY <1>8 DEF overflowfun, Show
  <1>9. CASE dotfun
    BY <1>9 DEF dotfun, Show
  <1>10. QED
    BY <1>1, <1>2, <1>3, <1>4, <1>5, <1>6, <1>7, <1>8, <1>9 DEF Next

LEMMA ShownVerdict ==
    ASSUME NEW v
    PROVE  /\ Show(Nothing) => output'.verdict = "green"
           /\ Show([Nothing EXCEPT !.verdict = v]) => output'.verdict = v
  <1>1. Nothing.verdict = "green" /\ [Nothing EXCEPT !.verdict = v].verdict = v
    BY DEF Nothing
  <1>2. QED
    BY <1>1 DEF Show

LEMMA LassoVerdict ==
    ASSUME NEW runs, NEW fold, NEW highlight, ShowLasso(runs, fold, highlight)
    PROVE  output'.verdict = IF runs = {} THEN "green" ELSE "red"
  <1>1. CASE runs = {} /\ Show(Nothing)
    BY <1>1, ShownVerdict
  <1>2. CASE \E run \in runs : Show(print_run(run, fold, highlight))
    <2>1. \A run : print_run(run, fold, highlight).verdict = "red"
      BY DEF print_run
    <2>2. \A run : Show(print_run(run, fold, highlight)) => output'.verdict = "red"
      BY <2>1 DEF Show
    <2>3. QED
      BY <1>2, <2>2
  <1>3. QED
    BY <1>1, <1>2 DEF ShowLasso

SmallTapes == \A p \in Programs : SmallTape(p)

LEMMA CommandedInvariant ==
    ASSUME SmallTapes
    PROVE  Spec => []Commanded
  <1>1. Init => Commanded
    BY CommandsAssumption DEF Init, Commanded, SmallTapes, Fits
  <1>2. Commanded /\ [Next]_vars => Commanded'
    <2> SUFFICES ASSUME Commanded, [Next]_vars PROVE Commanded'
      OBVIOUS
    <2>1. prog' = prog /\ command' = command
      BY NextKeeps
    <2>2. QED
      BY <2>1 DEF Commanded
  <1>3. QED
    BY <1>1, <1>2, PTL DEF Spec

-----------------------------------------------------------------------------
(* check reach.                                                            *)
LEMMA ReachHides ==
    ASSUME Commanded, command.name = "reach"
    PROVE  HidesNothing("straight_line")
  BY DEF HidesNothing, Hidden, Labelled, Event

LEMMA CheckReach ==
    ASSUME Commanded, command.name = "reach"
    PROVE  /\ Shown(prog, "straight_line", Events)
           /\ check_reach(prog, command.label, TRUE)
                = search_always(prog, "straight_line", Uneventful("straight_line"))
           /\ check_reach(prog, command.label, TRUE) = {}
                <=> initial_state(prog) \in FromWhichEventually
  <1> DEFINE F == States(prog, "straight_line")
  <1>1. "straight_line" \in Folding /\ Fits(prog)
    BY DEF Folding, Commanded
  <1>2. Shown(prog, "straight_line", Events)
    BY <1>1, ReachHides, ShownEvents
  <1>3. F \subseteq Single
    BY <1>1, FoldedInside DEF Single
  <1>4. {s \in F : ~has_label_at(prog, s.pc, command.label)} = F \ Events
    BY <1>3 DEF has_label_at, Events, Event
  <1>5. check_reach(prog, command.label, TRUE)
          = search_always(prog, "straight_line", F \ Events)
    BY <1>4 DEF check_reach
  <1>6. QED
    BY <1>1, <1>2, <1>5, AlwaysVerdict DEF Uneventful

ReachVerdict ==
    IF \A pc \in 1..(Len(prog.ops) + 1) : <<pc, command.label>> \notin prog.labels
    THEN "rejected"
    ELSE IF initial_state(prog) \in FromWhichEventually THEN "green" ELSE "red"

LEMMA HasLabel ==
    ASSUME Commanded
    PROVE  ~has_label(prog, command.label)
             <=> \A pc \in 1..(Len(prog.ops) + 1) : <<pc, command.label>> \notin prog.labels
  <1>1. \A label \in prog.labels :
            label = <<label[1], label[2]>> /\ label[1] \in 1..(Len(prog.ops) + 1)
    BY CommandedFacts
  <1>2. QED
    BY <1>1 DEF has_label

LEMMA ReachStep ==
    ASSUME Commanded, ReachCorrect, [Next]_vars
    PROVE  ReachCorrect'
  <1>1. prog' = prog /\ command' = command
    BY NextKeeps
  <1>2. FromWhichEventually' = FromWhichEventually
    BY <1>1, Unchanged
  <1>3. ReachVerdict' = ReachVerdict
    BY <1>1, <1>2 DEF ReachVerdict
  <1> SUFFICES ASSUME command.name = "reach", output' # NoValue
               PROVE  output'.verdict = ReachVerdict
    BY <1>1, <1>3 DEF ReachCorrect, Answers, ReachVerdict
  <1>4. CASE UNCHANGED vars
    BY <1>4 DEF vars, ReachCorrect, Answers, ReachVerdict
  <1>5. CASE RejectLabel
    BY <1>5, HasLabel, ShownVerdict DEF RejectLabel, ReachVerdict
  <1>6. CASE reachfun
    <2>1. /\ has_label(prog, command.label)
          /\ ShowLasso(check_reach(prog, command.label, TRUE), "straight_line", command.label)
      BY <1>6 DEF reachfun
    <2>2. output'.verdict = IF check_reach(prog, command.label, TRUE) = {}
                            THEN "green" ELSE "red"
      BY <2>1, LassoVerdict
    <2>3. QED
      BY <2>1, <2>2, HasLabel, CheckReach DEF ReachVerdict
  <1>7. ~RejectCell /\ ~visitfun /\ ~overflowfun /\ ~dotfun
    BY DEF RejectCell, visitfun, overflowfun, dotfun, Given
  <1>8. ~valuefun_every_run /\ ~valuefun_any_run
    BY DEF valuefun_every_run, valuefun_any_run, Given
  <1>9. QED
    BY <1>4, <1>5, <1>6, <1>7, <1>8 DEF Next

(* check reach answers what it promises, for every program: although it    *)
(* looks at the folded graph only, it is green iff the label is reached on *)
(* every run of single instructions.                                       *)
THEOREM ReachIsCorrect ==
    ASSUME SmallTapes
    PROVE  Spec => []ReachCorrect
  <1>1. Init => ReachCorrect
    BY DEF Init, ReachCorrect, Answers
  <1>2. Commanded /\ ReachCorrect /\ [Next]_vars => ReachCorrect'
    BY ReachStep
  <1>3. Spec => []Commanded
    BY CommandedInvariant
  <1>4. QED
    BY <1>1, <1>2, <1>3, PTL DEF Spec

-----------------------------------------------------------------------------
(* A cell is off the tape iff the tape has no such cell.                   *)
LEMMA OffTapeFacts ==
    ASSUME Commanded, command.name \in {"visit", "value", "overflow"}
    PROVE  OffTape <=> command.cell \notin Cells(prog.memory_model)
  <1>1. command.cell \in Nat
    BY CommandedFacts
  <1>2. prog.memory_model.memory_size \in Int
    BY DEF Commanded, Fits, IsProgram, IsModel, Word
  <1>3. QED
    BY <1>1, <1>2 DEF OffTape, Cells

(* check visit.                                                            *)
LEMMA VisitHides ==
    ASSUME Commanded, command.name = "visit"
    PROVE  HidesNothing("values")
  <1> SUFFICES ASSUME NEW s, NEW u, s.pc \in 1..Len(prog.ops),
                      u.mem_ptr = s.mem_ptr, Event(u)
               PROVE  Event(s)
    BY DEF HidesNothing, Hidden
  <1>1. Len(prog.ops) \in Nat
    BY DEF Commanded, Fits, IsProgram
  <1>2. s.pc <= Len(prog.ops)
    BY <1>1
  <1>3. u.mem_ptr = command.cell
    BY DEF Event
  <1>4. QED
    BY <1>2, <1>3 DEF Event

LEMMA VisitedFacts ==
    ASSUME NEW p, NEW cell, NEW s
    PROVE  observes(p, Visiting(cell), s) <=> s.mem_ptr = cell
  BY DEF observes, Visiting

LEMMA CheckVisit ==
    ASSUME Commanded, command.name = "visit"
    PROVE  /\ Shown(prog, "values", Events)
           /\ ~command.infinitely_often =>
                 /\ check_visit(prog, command.cell, "at_least_once", TRUE)
                      = search_always(prog, "values", Uneventful("values"))
                 /\ check_visit(prog, command.cell, "at_least_once", TRUE) = {}
                      <=> initial_state(prog) \in FromWhichEventually
           /\ command.infinitely_often =>
                 /\ check_visit(prog, command.cell, "infinitely_often", TRUE)
                      = search_eventually_always(prog, "values", Uneventful("values"))
                 /\ check_visit(prog, command.cell, "infinitely_often", TRUE) = {}
                      <=> Single \subseteq FromWhichEventually
  <1> DEFINE F == States(prog, "values")
             cell == command.cell
  <1>1. "values" \in Folding /\ Fits(prog)
    BY DEF Folding, Commanded
  <1>2. Shown(prog, "values", Events)
    BY <1>1, VisitHides, ShownEvents
  <1>3. F \subseteq Single
    BY <1>1, FoldedInside DEF Single
  <1>4. \A s \in F : s \in Events <=> /\ s.mem_ptr = cell
                                      /\ command.infinitely_often => s.pc <= Len(prog.ops)
    BY <1>3 DEF Events, Event
  <1>5. \A s \in F : is_end(prog, s.pc) <=> ~(s.pc <= Len(prog.ops))
    <2>1. F \subseteq KState(prog)
      BY <1>1, StatesFacts
    <2>2. \A s \in F : /\ s.pc \in 1..(Len(prog.ops) + 1) /\ Len(prog.ops) \in Nat
                       /\ is_end(prog, s.pc) <=> s.pc > Len(prog.ops)
      BY <2>1, SingleStates
    <2>3. QED
      BY <2>2
  <1>6. ASSUME ~command.infinitely_often
        PROVE  check_visit(prog, cell, "at_least_once", TRUE)
                 = search_always(prog, "values", F \ Events)
    <2>1. {s \in F : ~observes(prog, Visiting(cell), s)} = F \ Events
      BY <1>4, <1>6, VisitedFacts
    <2>2. QED
      BY <2>1 DEF check_visit
  <1>7. ASSUME command.infinitely_often
        PROVE  check_visit(prog, cell, "infinitely_often", TRUE)
                 = search_eventually_always(prog, "values", F \ Events)
    <2>1. {s \in F : LeavesCell(prog, cell, s)} = F \ Events
      BY <1>4, <1>5, <1>7, VisitedFacts DEF LeavesCell
    <2>2. QED
      BY <2>1 DEF check_visit
  <1> HIDE DEF F
  <1>8. search_always(prog, "values", F \ Events) = {}
          <=> initial_state(prog) \in FromWhichEventually
    BY <1>1, <1>2, AlwaysVerdict DEF F
  <1>9. search_eventually_always(prog, "values", F \ Events) = {}
          <=> Single \subseteq FromWhichEventually
    BY <1>1, <1>2, EventuallyAlwaysVerdict DEF F
  <1>10. Uneventful("values") = F \ Events
    BY DEF Uneventful, F
  <1>11. QED
    BY <1>2, <1>6, <1>7, <1>8, <1>9, <1>10

VisitVerdict ==
    IF command.cell \notin Cells(prog.memory_model) THEN "rejected"
    ELSE IF IF command.infinitely_often THEN Single \subseteq FromWhichEventually
            ELSE initial_state(prog) \in FromWhichEventually
    THEN "green" ELSE "red"

LEMMA VisitStep ==
    ASSUME Commanded, VisitCorrect, [Next]_vars
    PROVE  VisitCorrect'
  <1>1. prog' = prog /\ command' = command
    BY NextKeeps
  <1>2. FromWhichEventually' = FromWhichEventually /\ Single' = Single
    BY <1>1, Unchanged
  <1>3. VisitVerdict' = VisitVerdict
    BY <1>1, <1>2 DEF VisitVerdict
  <1> SUFFICES ASSUME command.name = "visit", output' # NoValue
               PROVE  output'.verdict = VisitVerdict
    BY <1>1, <1>3 DEF VisitCorrect, Answers, VisitVerdict
  <1>4. CASE UNCHANGED vars
    BY <1>4 DEF vars, VisitCorrect, Answers, VisitVerdict
  <1>5. CASE RejectCell
    BY <1>5, OffTapeFacts, ShownVerdict DEF RejectCell, VisitVerdict
  <1>6. CASE visitfun
    <2> DEFINE kind == IF command.infinitely_often THEN "infinitely_often" ELSE "at_least_once"
               runs == check_visit(prog, command.cell, kind, TRUE)
    <2>1. ~OffTape /\ ShowLasso(runs, "values", NoValue)
      BY <1>6 DEF visitfun
    <2> HIDE DEF runs
    <2>2. output'.verdict = IF runs = {} THEN "green" ELSE "red"
      BY <2>1, LassoVerdict
    <2>3. command.infinitely_often \in BOOLEAN
      BY CommandedFacts
    <2>4. runs = {} <=> IF command.infinitely_often THEN Single \subseteq FromWhichEventually
                        ELSE initial_state(prog) \in FromWhichEventually
      BY <2>3, CheckVisit DEF runs
    <2>5. QED
      BY <2>1, <2>2, <2>4, OffTapeFacts DEF VisitVerdict
  <1>7. ~RejectLabel /\ ~reachfun /\ ~overflowfun /\ ~dotfun
    BY DEF RejectLabel, reachfun, overflowfun, dotfun, Given
  <1>8. ~valuefun_every_run /\ ~valuefun_any_run
    BY AnyRunStep DEF valuefun_every_run, Given
  <1>9. QED
    BY <1>4, <1>5, <1>6, <1>7, <1>8 DEF Next

(* check visit answers what it promises, for every program, cell and kind  *)
(* of visit: the folded graph and the searches for a lasso show whether    *)
(* every run of single instructions points at the cell, or returns to it.  *)
THEOREM VisitIsCorrect ==
    ASSUME SmallTapes
    PROVE  Spec => []VisitCorrect
  <1>1. Init => VisitCorrect
    BY DEF Init, VisitCorrect, Answers
  <1>2. Commanded /\ VisitCorrect /\ [Next]_vars => VisitCorrect'
    BY VisitStep
  <1>3. Spec => []Commanded
    BY CommandedInvariant
  <1>4. QED
    BY <1>1, <1>2, <1>3, PTL DEF Spec

-----------------------------------------------------------------------------
(* check value.                                                            *)
LEMMA ValueHides ==
    ASSUME Commanded, command.name = "value"
    PROVE  HidesNothing(ValueRunFolding)
  <1> SUFFICES ASSUME NEW s, NEW u, Hidden(prog, ValueRunFolding, s, u), Event(u)
               PROVE  Event(s)
    BY DEF HidesNothing
  <1>1. Len(prog.ops) \in Nat
    BY DEF Commanded, Fits, IsProgram
  <1>2. /\ command.on_halt => u.pc > Len(prog.ops)
        /\ cell_test_holds(CellTest, u.memory[command.cell])
    BY DEF Event
  <1>3. u.pc \in 1..Len(prog.ops)
    BY DEF Hidden
  <1>4. ~command.on_halt
    BY <1>1, <1>2, <1>3
  <1>5. u.memory = s.memory
    BY <1>4 DEF Hidden, ValueRunFolding
  <1>6. QED
    BY <1>2, <1>4, <1>5 DEF Event

LEMMA TestedFacts ==
    ASSUME NEW p, NEW s
    PROVE  observes(p, CellTest, s) <=>
              /\ command.on_halt => is_end(p, s.pc)
              /\ cell_test_holds(CellTest, Content(s, command.cell))
  <1>1. /\ CellTest.kind = "cell_test"
        /\ CellTest.on_halt = command.on_halt
        /\ CellTest.cell = command.cell
    BY DEF CellTest
  <1> HIDE DEF CellTest
  <1>2. QED
    BY <1>1 DEF observes

LEMMA CheckValue ==
    ASSUME Commanded, command.name = "value", command.cell \in Cells(prog.memory_model)
    PROVE  /\ Shown(prog, ValueRunFolding, Events) /\ ValueRunFolding \in Folding
           /\ check_value(prog, CellTest, "every_run")
                = search_always(prog, ValueRunFolding, Uneventful(ValueRunFolding))
           /\ check_value(prog, CellTest, "any_run")
                = search_eventually(prog, ValueRunFolding, Eventful(ValueRunFolding))
           /\ check_value(prog, CellTest, "every_run") = {}
                <=> initial_state(prog) \in FromWhichEventually
           /\ check_value(prog, CellTest, "any_run") = {}
                <=> ~ \E s \in Single : Event(s)
  <1> DEFINE fold == ValueRunFolding
             F == States(prog, fold)
  <1>1. fold \in Folding /\ Fits(prog)
    BY DEF Folding, ValueRunFolding, Commanded
  <1>2. ValueFolding(CellTest) = fold
    BY DEF ValueFolding, CellTest, ValueRunFolding
  <1> HIDE DEF fold
  <1>3. Shown(prog, fold, Events)
    <2>1. HidesNothing(fold)
      BY ValueHides DEF fold
    <2>2. QED
      BY <1>1, <2>1, ShownEvents
  <1>4. F \subseteq Single /\ F \subseteq KState(prog)
    BY <1>1, FoldedInside, StatesFacts DEF Single
  <1>5. ASSUME NEW s \in F PROVE observes(prog, CellTest, s) <=> s \in Events
    <2>1. /\ s.memory \in [Cells(prog.memory_model) -> CellValues(prog.memory_model)]
          /\ is_end(prog, s.pc) <=> s.pc > Len(prog.ops)
      BY <1>4, SingleStates
    <2>2. Content(s, command.cell) = s.memory[command.cell]
      BY <2>1 DEF Content
    <2>3. s \in Events <=> Event(s)
      BY <1>4 DEF Events
    <2>4. Event(s) <=> /\ command.on_halt => s.pc > Len(prog.ops)
                       /\ cell_test_holds(CellTest, s.memory[command.cell])
      BY DEF Event
    <2>5. QED
      BY <2>1, <2>2, <2>3, <2>4, TestedFacts
  <1>6. {s \in F : observes(prog, CellTest, s)} = F \cap Events
    BY <1>5
  <1>7. F \ (F \cap Events) = F \ Events
    OBVIOUS
  <1> HIDE DEF F
  <1>8. check_value(prog, CellTest, "every_run") = search_always(prog, fold, F \ Events)
    BY <1>2, <1>6, <1>7 DEF check_value, F
  <1>9. check_value(prog, CellTest, "any_run") = search_eventually(prog, fold, F \cap Events)
    BY <1>2, <1>6 DEF check_value, F
  <1>10. /\ search_always(prog, fold, F \ Events) = {}
               <=> initial_state(prog) \in FromWhichEventually
         /\ search_eventually(prog, fold, F \cap Events) = {} <=> ~ \E s \in Single : Event(s)
    BY <1>1, <1>3, AlwaysVerdict, EventuallyVerdict DEF F
  <1>11. Uneventful(fold) = F \ Events /\ Eventful(fold) = F \cap Events
    BY DEF Uneventful, Eventful, F
  <1>12. QED
    BY <1>1, <1>3, <1>8, <1>9, <1>10, <1>11 DEF fold

LEMMA TruncatedVerdict ==
    ASSUME NEW verdict, NEW run, NEW fold, NEW marker,
           Show(print_truncated_run(verdict, run, fold, marker))
    PROVE  output'.verdict = verdict
  <1>1. print_truncated_run(verdict, run, fold, marker).verdict = verdict
    BY Zenon DEF print_truncated_run
  <1>2. QED
    BY <1>1 DEF Show

ValueVerdict ==
    IF command.cell \notin Cells(prog.memory_model) THEN "rejected"
    ELSE IF IF command.every_run THEN initial_state(prog) \in FromWhichEventually
            ELSE \E s \in Single : Event(s)
    THEN "green" ELSE "red"

LEMMA ValueStep ==
    ASSUME Commanded, ValueCorrect, [Next]_vars
    PROVE  ValueCorrect'
  <1>1. prog' = prog /\ command' = command
    BY NextKeeps
  <1>2. /\ FromWhichEventually' = FromWhichEventually /\ Single' = Single
        /\ \A s : Event(s)' <=> Event(s)
    BY <1>1, Unchanged
  <1>3. ValueVerdict' = ValueVerdict
    BY <1>1, <1>2 DEF ValueVerdict
  <1> SUFFICES ASSUME command.name = "value", output' # NoValue
               PROVE  output'.verdict = ValueVerdict
    BY <1>1, <1>3 DEF ValueCorrect, Answers, ValueVerdict
  <1>4. CASE UNCHANGED vars
    BY <1>4 DEF vars, ValueCorrect, Answers, ValueVerdict
  <1>5. CASE RejectCell
    BY <1>5, OffTapeFacts, ShownVerdict DEF RejectCell, ValueVerdict
  <1>6. CASE valuefun_every_run
    <2>1. /\ command.every_run /\ ~OffTape
          /\ ShowLasso(check_value(prog, CellTest, "every_run"), ValueRunFolding, NoValue)
      BY <1>6 DEF valuefun_every_run
    <2>2. output'.verdict = IF check_value(prog, CellTest, "every_run") = {}
                            THEN "green" ELSE "red"
      BY <2>1, LassoVerdict
    <2>3. QED
      BY <2>1, <2>2, OffTapeFacts, CheckValue DEF ValueVerdict
  <1>7. CASE valuefun_any_run
    <2> DEFINE runs == check_value(prog, CellTest, "any_run")
    <2>1. /\ ~command.every_run /\ ~OffTape
          /\ \/ runs = {} /\ Show([Nothing EXCEPT !.verdict = "red"])
             \/ \E run \in runs :
                   Show(print_truncated_run("green", run, ValueRunFolding, HoldsMarker(run)))
      BY <1>7, AnyRunStep
    <2> HIDE DEF runs
    <2>2. output'.verdict = IF runs = {} THEN "red" ELSE "green"
      BY <2>1, ShownVerdict, TruncatedVerdict
    <2>3. runs = {} <=> ~ \E s \in Single : Event(s)
      BY <2>1, OffTapeFacts, CheckValue DEF runs
    <2>4. QED
      BY <2>1, <2>2, <2>3, OffTapeFacts DEF ValueVerdict
  <1>8. ~RejectLabel /\ ~reachfun /\ ~visitfun /\ ~overflowfun /\ ~dotfun
    BY DEF RejectLabel, reachfun, visitfun, overflowfun, dotfun, Given
  <1>9. QED
    BY <1>4, <1>5, <1>6, <1>7, <1>8 DEF Next

(* check value answers what it promises, for every program, cell and test: *)
(* with the folding mode it chooses no state that satisfies the test is    *)
(* overlooked, on every run or on some run.                                *)
THEOREM ValueIsCorrect ==
    ASSUME SmallTapes
    PROVE  Spec => []ValueCorrect
  <1>1. Init => ValueCorrect
    BY DEF Init, ValueCorrect, Answers
  <1>2. Commanded /\ ValueCorrect /\ [Next]_vars => ValueCorrect'
    BY ValueStep
  <1>3. Spec => []Commanded
    BY CommandedInvariant
  <1>4. QED
    BY <1>1, <1>2, <1>3, PTL DEF Spec

-----------------------------------------------------------------------------
(* check overflow.                                                         *)
WrapTest == [kind |-> "wrap_test", cell |-> command.cell, direction |-> command.direction]

LEMMA OverflowHides ==
    ASSUME Commanded
    PROVE  command.name = "overflow" => HidesNothing("pointers")
  BY DEF HidesNothing, Hidden, Event, Wraps

(* The only successor of a + or a -.                                       *)
LEMMA ValueStepOf ==
    ASSUME Commanded, NEW s \in KState(prog), s.pc \in 1..Len(prog.ops),
           NEW instr \in {"inc", "dec"}, prog.ops[s.pc] = instr
    PROVE  \E value :
              /\ value = IF instr = "inc"
                         THEN next_value(prog.memory_model, s.memory[s.mem_ptr])
                         ELSE prev_value(prog.memory_model, s.memory[s.mem_ptr])
              /\ NextOf(s) = {Write(s, value, s.pc + 1)}
              /\ Write(s, value, s.pc + 1).memory = [s.memory EXCEPT ![s.mem_ptr] = value]
  <1>1. /\ s.mem_ptr \in Cells(prog.memory_model)
        /\ s.memory \in [Cells(prog.memory_model) -> CellValues(prog.memory_model)]
        /\ ~is_end(prog, s.pc)
    <2>1. Len(prog.ops) \in Nat /\ (is_end(prog, s.pc) <=> s.pc > Len(prog.ops))
      BY SingleStates
    <2>2. QED
      BY <2>1, SingleStates
  <1>2. CurrentCell(s) = s.memory[s.mem_ptr]
    BY <1>1 DEF CurrentCell, Content
  <1>3. Successors(prog, "none", s) = SingleSuccessors(prog, s)
    <2>1. ChosenBlock(prog, "none", s.pc) = SingleBlock(s.pc)
      BY DEF ChosenBlock
    <2>2. SingleBlock(s.pc).kind = "single"
      BY DEF SingleBlock
    <2>3. QED
      BY <1>1, <2>1, <2>2 DEF Successors
  <1> DEFINE value == IF instr = "inc"
                      THEN next_value(prog.memory_model, s.memory[s.mem_ptr])
                      ELSE prev_value(prog.memory_model, s.memory[s.mem_ptr])
  <1>4. SingleSuccessors(prog, s) = <<Write(s, value, s.pc + 1)>>
    <2>1. CASE instr = "inc"
      BY <1>2, <2>1 DEF SingleSuccessors
    <2>2. CASE instr = "dec"
      BY <1>2, <2>2 DEF SingleSuccessors
    <2>3. QED
      BY <2>1, <2>2
  <1> HIDE DEF value
  <1>5. NextOf(s) = {Write(s, value, s.pc + 1)}
    BY <1>3, <1>4 DEF NextOf, After, ToSet
  <1>6. Write(s, value, s.pc + 1).memory = [s.memory EXCEPT ![s.mem_ptr] = value]
    <2>1. s = [pc |-> s.pc, mem_ptr |-> s.mem_ptr, memory |-> s.memory,
               remaining |-> s.remaining]
      BY DEF KState
    <2>2. QED
      BY <2>1 DEF Write, Goto
  <1>7. QED
    BY <1>5, <1>6 DEF value

(* A + or a - wraps iff the cell was at the end of its range: every cell   *)
(* has more than one value.                                                *)
LEMMA WrapFacts ==
    ASSUME Commanded, command.name = "overflow", command.cell \in Cells(prog.memory_model),
           NEW s \in KState(prog)
    PROVE  wrap_test_holds(prog, s, WrapTest) <=> Event(s)
  <1> DEFINE m == prog.memory_model
             cell == command.cell
  <1>1. /\ s.pc \in 1..(Len(prog.ops) + 1) /\ Len(prog.ops) \in Nat
        /\ s.mem_ptr \in Cells(m)
        /\ s.memory \in [Cells(m) -> CellValues(m)]
        /\ is_end(prog, s.pc) <=> s.pc > Len(prog.ops)
    BY SingleStates
  <1>2. m.max_value \in Nat /\ m.max_value >= 1
    BY MaxCharAssumption DEF Commanded, Fits, IsProgram, IsModel
  <1>3. command.direction \in {"overflow", "underflow", "both"}
    BY CommandedFacts
  <1>4. Content(s, cell) = s.memory[cell] /\ s.memory[cell] \in 0..m.max_value
    BY <1>1 DEF Content, CellValues
  <1>5. /\ WrapTest.cell = cell
        /\ WrapTest.direction = command.direction
    BY DEF WrapTest
  <1>6. CASE is_end(prog, s.pc)
    BY <1>1, <1>6 DEF wrap_test_holds, Event
  <1>7. CASE ~is_end(prog, s.pc) /\ prog.ops[s.pc] \notin {"inc", "dec"}
    BY <1>7 DEF wrap_test_holds, Event, Wraps
  <1>8. ASSUME ~is_end(prog, s.pc), prog.ops[s.pc] = "inc"
        PROVE  wrap_test_holds(prog, s, WrapTest) <=> Event(s)
    <2>1. s.pc \in 1..Len(prog.ops) /\ s.pc <= Len(prog.ops)
      BY <1>1, <1>8
    <2>2. PICK value :
              /\ value = next_value(m, s.memory[s.mem_ptr])
              /\ NextOf(s) = {Write(s, value, s.pc + 1)}
              /\ Write(s, value, s.pc + 1).memory = [s.memory EXCEPT ![s.mem_ptr] = value]
      BY <1>8, <2>1, ValueStepOf
    <2>3. Event(s) <=> /\ command.direction # "underflow"
                       /\ [s.memory EXCEPT ![s.mem_ptr] = value][cell] < s.memory[cell]
      BY <1>8, <2>1, <2>2 DEF Event, Wraps
    <2>4. [s.memory EXCEPT ![s.mem_ptr] = value][cell] < s.memory[cell]
            <=> s.mem_ptr = cell /\ s.memory[cell] = m.max_value
      <3>1. CASE s.mem_ptr # cell
        BY <1>1, <1>4, <3>1
      <3>2. CASE s.mem_ptr = cell
        <4>1. [s.memory EXCEPT ![s.mem_ptr] = value][cell] = value
          BY <1>1, <3>2
        <4>2. value < s.memory[cell] <=> s.memory[cell] = m.max_value
          BY <1>2, <1>4, <2>2, <3>2 DEF next_value
        <4>3. QED
          BY <3>2, <4>1, <4>2
      <3>3. QED
        BY <3>1, <3>2
    <2>5. wrap_test_holds(prog, s, WrapTest)
            <=> /\ s.mem_ptr = cell
                /\ command.direction \in {"overflow", "both"}
                /\ s.memory[cell] = m.max_value
      BY <1>4, <1>5, <1>8 DEF wrap_test_holds
    <2>6. QED
      BY <1>3, <2>3, <2>4, <2>5
  <1>9. ASSUME ~is_end(prog, s.pc), prog.ops[s.pc] = "dec"
        PROVE  wrap_test_holds(prog, s, WrapTest) <=> Event(s)
    <2>1. s.pc \in 1..Len(prog.ops) /\ s.pc <= Len(prog.ops)
      BY <1>1, <1>9
    <2>2. PICK value :
              /\ value = prev_value(m, s.memory[s.mem_ptr])
              /\ NextOf(s) = {Write(s, value, s.pc + 1)}
              /\ Write(s, value, s.pc + 1).memory = [s.memory EXCEPT ![s.mem_ptr] = value]
      BY <1>9, <2>1, ValueStepOf
    <2>3. Event(s) <=> /\ command.direction # "overflow"
                       /\ [s.memory EXCEPT ![s.mem_ptr] = value][cell] > s.memory[cell]
      BY <1>9, <2>1, <2>2 DEF Event, Wraps
    <2>4. [s.memory EXCEPT ![s.mem_ptr] = value][cell] > s.memory[cell]
            <=> s.mem_ptr = cell /\ s.memory[cell] = 0
      <3>1. CASE s.mem_ptr # cell
        BY <1>1, <1>4, <3>1
      <3>2. CASE s.mem_ptr = cell
        <4>1. [s.memory EXCEPT ![s.mem_ptr] = value][cell] = value
          BY <1>1, <3>2
        <4>2. value > s.memory[cell] <=> s.memory[cell] = 0
          BY <1>2, <1>4, <2>2, <3>2 DEF prev_value
        <4>3. QED
          BY <3>2, <4>1, <4>2
      <3>3. QED
        BY <3>1, <3>2
    <2>5. wrap_test_holds(prog, s, WrapTest)
            <=> /\ s.mem_ptr = cell
                /\ command.direction \in {"underflow", "both"}
                /\ s.memory[cell] = 0
      BY <1>4, <1>5, <1>9 DEF wrap_test_holds
    <2>6. QED
      BY <1>3, <2>3, <2>4, <2>5
  <1>10. QED
    BY <1>6, <1>7, <1>8, <1>9

LEMMA CheckOverflow ==
    ASSUME Commanded, command.name = "overflow", command.cell \in Cells(prog.memory_model)
    PROVE  /\ Shown(prog, "pointers", Events)
           /\ check_overflow(prog, WrapTest)
                = search_eventually(prog, "pointers", Eventful("pointers"))
           /\ check_overflow(prog, WrapTest) = {} <=> ~ \E s \in Single : Event(s)
  <1> DEFINE F == States(prog, "pointers")
  <1>1. "pointers" \in Folding /\ Fits(prog)
    BY DEF Folding, Commanded
  <1>2. Shown(prog, "pointers", Events)
    BY <1>1, OverflowHides, ShownEvents
  <1>3. F \subseteq Single /\ F \subseteq KState(prog)
    BY <1>1, FoldedInside, StatesFacts DEF Single
  <1>4. ASSUME NEW s \in F PROVE observes(prog, WrapTest, s) <=> s \in Events
    <2>1. observes(prog, WrapTest, s) <=> wrap_test_holds(prog, s, WrapTest)
      BY DEF observes, WrapTest
    <2>2. QED
      BY <1>3, <2>1, WrapFacts DEF Events
  <1>5. {s \in F : observes(prog, WrapTest, s)} = F \cap Events
    BY <1>4
  <1> HIDE DEF F
  <1>6. check_overflow(prog, WrapTest) = search_eventually(prog, "pointers", F \cap Events)
    BY <1>5 DEF check_overflow, F
  <1>7. QED
    BY <1>1, <1>2, <1>6, EventuallyVerdict DEF F, Eventful

OverflowVerdict ==
    IF command.cell \notin Cells(prog.memory_model) THEN "rejected"
    ELSE IF \E s \in Single : Event(s) THEN "red" ELSE "green"

LEMMA OverflowStep ==
    ASSUME Commanded, OverflowCorrect, [Next]_vars
    PROVE  OverflowCorrect'
  <1>1. prog' = prog /\ command' = command
    BY NextKeeps
  <1>2. /\ Single' = Single
        /\ \A s : Event(s)' <=> Event(s)
    BY <1>1, Unchanged
  <1>3. OverflowVerdict' = OverflowVerdict
    BY <1>1, <1>2 DEF OverflowVerdict
  <1> SUFFICES ASSUME command.name = "overflow", output' # NoValue
               PROVE  output'.verdict = OverflowVerdict
    BY <1>1, <1>3 DEF OverflowCorrect, Answers, OverflowVerdict
  <1>4. CASE UNCHANGED vars
    BY <1>4 DEF vars, OverflowCorrect, Answers, OverflowVerdict
  <1>5. CASE RejectCell
    BY <1>5, OffTapeFacts, ShownVerdict DEF RejectCell, OverflowVerdict
  <1>6. CASE overflowfun
    <2> DEFINE runs == check_overflow(prog, WrapTest)
               marker(run) == [s \in ToSet(run.prefix) |-> wrap_marker(WrapTest, s)]
    <2>1. /\ ~OffTape
          /\ \/ runs = {} /\ Show(Nothing)
             \/ \E run \in runs :
                   Show(print_truncated_run("red", run, "pointers", marker(run)))
      BY <1>6 DEF overflowfun, WrapTest
    <2> HIDE DEF runs, marker
    <2>2. output'.verdict = IF runs = {} THEN "green" ELSE "red"
      BY <2>1, ShownVerdict, TruncatedVerdict
    <2>3. runs = {} <=> ~ \E s \in Single : Event(s)
      BY <2>1, OffTapeFacts, CheckOverflow DEF runs
    <2>4. QED
      BY <2>1, <2>2, <2>3, OffTapeFacts DEF OverflowVerdict
  <1>7. ~RejectLabel /\ ~reachfun /\ ~visitfun /\ ~dotfun
    BY DEF RejectLabel, reachfun, visitfun, dotfun, Given
  <1>8. ~valuefun_every_run /\ ~valuefun_any_run
    BY AnyRunStep DEF valuefun_every_run, Given
  <1>9. QED
    BY <1>4, <1>5, <1>6, <1>7, <1>8 DEF Next

(* check overflow answers what it promises, for every program, cell and    *)
(* direction: although it tests states of a folded graph for a value at    *)
(* the end of the range, it is red iff a step of some run of single        *)
(* instructions wraps the cell.                                            *)
THEOREM OverflowIsCorrect ==
    ASSUME SmallTapes
    PROVE  Spec => []OverflowCorrect
  <1>1. Init => OverflowCorrect
    BY DEF Init, OverflowCorrect, Answers
  <1>2. Commanded /\ OverflowCorrect /\ [Next]_vars => OverflowCorrect'
    BY OverflowStep
  <1>3. Spec => []Commanded
    BY CommandedInvariant
  <1>4. QED
    BY <1>1, <1>2, <1>3, PTL DEF Spec

-----------------------------------------------------------------------------
(* The known states: those known before, and behind them the new ones,     *)
(* each once.                                                              *)
IsKnown(states, next, f) ==
    f = [i \in 0..Len(next) |->
            IF i = 0 THEN states
            ELSE IF next[i] \in ToSet(f[i - 1]) THEN f[i - 1]
            ELSE Append(f[i - 1], next[i])]

(* q continues states.                                                     *)
Continues(states, q) ==
    /\ Len(states) <= Len(q)
    /\ \A i \in 1..Len(states) : q[i] = states[i]

KnownSoFar(K, states, next, i, q) ==
    /\ q \in Seq(K)
    /\ Continues(states, q)
    /\ ToSet(q) = ToSet(states) \cup {next[j] : j \in 1..i}
    /\ IsInjective(states) => IsInjective(q)

LEMMA SeqAppended ==
    ASSUME NEW K, NEW q \in Seq(K), NEW x \in K
    PROVE  /\ Append(q, x) \in Seq(K)
           /\ Len(Append(q, x)) = Len(q) + 1
           /\ \A i \in 1..Len(q) : Append(q, x)[i] = q[i]
           /\ Append(q, x)[Len(q) + 1] = x
           /\ ToSet(Append(q, x)) = ToSet(q) \cup {x}
           /\ IsInjective(q) /\ x \notin ToSet(q) => IsInjective(Append(q, x))
  <1> DEFINE r == Append(q, x)
  <1>1. r \in Seq(K) /\ Len(r) = Len(q) + 1 /\ Len(q) \in Nat
    OBVIOUS
  <1>2. (\A i \in 1..Len(q) : r[i] = q[i]) /\ r[Len(q) + 1] = x
    OBVIOUS
  <1>3. DOMAIN q = 1..Len(q) /\ DOMAIN r = 1..(Len(q) + 1)
    BY <1>1
  <1> HIDE DEF r
  <1>4. \A i \in 1..(Len(q) + 1) : i \in 1..Len(q) \/ i = Len(q) + 1
    BY <1>1
  <1>5. \A i \in 1..Len(q) : i \in 1..(Len(q) + 1)
    BY <1>1
  <1>6. Len(q) + 1 \in 1..(Len(q) + 1)
    BY <1>1
  <1>7. ToSet(r) = ToSet(q) \cup {x}
    BY <1>2, <1>3, <1>4, <1>5, <1>6 DEF ToSet
  <1>8. ASSUME IsInjective(q), x \notin ToSet(q), NEW a \in 1..(Len(q) + 1),
               NEW b \in 1..(Len(q) + 1), r[a] = r[b]
        PROVE  a = b
    <2>1. \A i \in 1..Len(q) : q[i] # x
      BY <1>3, <1>8 DEF ToSet
    <2>2. CASE a \in 1..Len(q) /\ b \in 1..Len(q)
      BY <1>2, <1>3, <1>8, <2>2 DEF IsInjective
    <2>3. CASE a \in 1..Len(q) /\ b = Len(q) + 1
      BY <1>2, <1>8, <2>1, <2>3
    <2>4. CASE a = Len(q) + 1 /\ b \in 1..Len(q)
      BY <1>2, <1>8, <2>1, <2>4
    <2>5. QED
      BY <1>4, <2>2, <2>3, <2>4
  <1>9. IsInjective(q) /\ x \notin ToSet(q) => IsInjective(r)
    BY <1>3, <1>8 DEF IsInjective
  <1>10. QED
    BY <1>1, <1>2, <1>7, <1>9 DEF r

LEMMA KnownGrows ==
    ASSUME NEW K, NEW states \in Seq(K), NEW next \in Seq(K), NEW i \in 1..Len(next),
           NEW q, KnownSoFar(K, states, next, i - 1, q)
    PROVE  KnownSoFar(K, states, next, i,
                      IF next[i] \in ToSet(q) THEN q ELSE Append(q, next[i]))
  <1>1. q \in Seq(K) /\ next[i] \in K /\ Len(next) \in Nat /\ Len(states) \in Nat
    BY DEF KnownSoFar
  <1>2. {next[j] : j \in 1..i} = {next[j] : j \in 1..(i - 1)} \cup {next[i]}
    <2>1. \A j : j \in 1..i <=> j \in 1..(i - 1) \/ j = i
      BY <1>1
    <2>2. QED
      BY <2>1
  <1>3. CASE next[i] \in ToSet(q)
    BY <1>2, <1>3 DEF KnownSoFar
  <1>4. CASE next[i] \notin ToSet(q)
    <2> DEFINE r == Append(q, next[i])
    <2>1. /\ r \in Seq(K) /\ Len(r) = Len(q) + 1 /\ Len(q) \in Nat
          /\ \A k \in 1..Len(q) : r[k] = q[k]
          /\ ToSet(r) = ToSet(q) \cup {next[i]}
          /\ IsInjective(q) => IsInjective(r)
      BY <1>1, <1>4, SeqAppended
    <2> HIDE DEF r
    <2>2. Continues(states, r)
      BY <1>1, <2>1 DEF KnownSoFar, Continues
    <2>3. KnownSoFar(K, states, next, i, r)
      BY <1>2, <2>1, <2>2 DEF KnownSoFar
    <2>4. QED
      BY <1>4, <2>3 DEF r
  <1>5. QED
    BY <1>3, <1>4

LEMMA KnownFacts ==
    ASSUME NEW K, NEW states \in Seq(K), NEW next \in Seq(K)
    PROVE  KnownSoFar(K, states, next, Len(next), Known(states, next))
  <1> DEFINE n == Len(next)
             step == [a \in (1..n) \X Seq(K) |->
                         IF next[a[1]] \in ToSet(a[2]) THEN a[2]
                         ELSE Append(a[2], next[a[1]])]
  <1>1. n \in Nat /\ \A i \in 1..n : next[i] \in K
    OBVIOUS
  <1>2. \A i \in 1..n : \A q \in Seq(K) :
            step[<<i, q>>] = IF next[i] \in ToSet(q) THEN q ELSE Append(q, next[i])
    OBVIOUS
  <1> HIDE DEF step
  <1>3. \A i \in 1..n : \A q \in Seq(K) : step[<<i, q>>] \in Seq(K)
    <2> SUFFICES ASSUME NEW i \in 1..n, NEW q \in Seq(K) PROVE step[<<i, q>>] \in Seq(K)
      BY Zenon
    <2>1. next[i] \in K
      BY <1>1
    <2>2. Append(q, next[i]) \in Seq(K)
      BY <2>1
    <2>3. QED
      BY <1>2, <2>2
  <1>4. PICK f \in [0..n -> Seq(K)] :
            /\ f[0] = states
            /\ \A i \in (0 + 1)..n : f[i] = step[<<i, f[i - 1]>>]
    <2>1. 0 \in Nat /\ n \in Nat /\ 0 <= n
      BY <1>1
    <2> HIDE DEF n
    <2>2. \A i \in (0 + 1)..n : \A q \in Seq(K) : step[<<i, q>>] \in Seq(K)
      <3>1. (0 + 1)..n = 1..n
        OBVIOUS
      <3>2. QED
        BY <1>3, <3>1, Zenon
    <2>3. \E f \in [0..n -> Seq(K)] :
             /\ f[0] = states
             /\ \A i \in (0 + 1)..n : f[i] = step[<<i, f[i - 1]>>]
             /\ IsCountedUp(0, n, states, step, f)
      BY <2>1, <2>2, CountUp
    <2>4. QED
      BY <2>3
  <1>5. \A i \in 1..n : /\ i - 1 \in 0..n
                        /\ f[i] = IF next[i] \in ToSet(f[i - 1]) THEN f[i - 1]
                                  ELSE Append(f[i - 1], next[i])
    <2> HIDE DEF n
    <2> SUFFICES ASSUME NEW i \in 1..n
                 PROVE  /\ i - 1 \in 0..n
                        /\ f[i] = IF next[i] \in ToSet(f[i - 1]) THEN f[i - 1]
                                  ELSE Append(f[i - 1], next[i])
      OBVIOUS
    <2>1. i - 1 \in 0..n /\ i \in (0 + 1)..n
      BY <1>1
    <2>2. f[i] = step[<<i, f[i - 1]>>] /\ f[i - 1] \in Seq(K)
      BY <1>4, <2>1
    <2>3. QED
      BY <1>2, <2>1, <2>2
  <1>6. \E g : IsKnown(states, next, g)
    <2> DEFINE at(i) == IF i = 0 THEN states
                        ELSE IF next[i] \in ToSet(f[i - 1]) THEN f[i - 1]
                        ELSE Append(f[i - 1], next[i])
    <2>1. \A i \in 0..n : f[i] = at(i)
      <3>1. \A i \in 0..n : i = 0 \/ i \in 1..n
        BY <1>1
      <3>2. QED
        BY <1>4, <1>5, <3>1
    <2> HIDE DEF at
    <2>2. f = [i \in 0..n |-> at(i)]
      BY <1>4, <2>1
    <2>3. IsKnown(states, next, f)
      BY <2>2 DEF IsKnown, at
    <2>4. QED
      BY <2>3
  <1> DEFINE g == CHOOSE h : IsKnown(states, next, h)
  <1>7. IsKnown(states, next, g)
    BY <1>6
  <1>8. Known(states, next) = g[n]
    BY DEF Known, IsKnown
  <1> HIDE DEF g
  <1> DEFINE at(i) == IF i = 0 THEN states
                      ELSE IF next[i] \in ToSet(g[i - 1]) THEN g[i - 1]
                      ELSE Append(g[i - 1], next[i])
  <1>9. \A i \in 0..n : g[i] = at(i)
    <2>1. g = [i \in 0..n |-> at(i)]
      BY <1>7 DEF IsKnown
    <2> HIDE DEF at
    <2>2. QED
      BY <2>1
  <1> DEFINE Bad == {i \in 0..n : ~KnownSoFar(K, states, next, i, g[i])}
  <1>10. Bad = {}
    <2> SUFFICES ASSUME Bad # {} PROVE FALSE
      OBVIOUS
    <2>1. PICK i \in Bad : \A k \in Bad : i <= k
      <3>1. Bad \in SUBSET Nat /\ Bad # {}
        BY <1>1
      <3> HIDE DEF Bad
      <3>2. QED
        BY <3>1, LeastElement
    <2>2. i \in 0..n /\ ~KnownSoFar(K, states, next, i, g[i])
      OBVIOUS
    <2>3. i # 0
      <3> SUFFICES ASSUME i = 0 PROVE FALSE
        OBVIOUS
      <3>1. g[0] = states
        BY <1>9, <2>2
      <3>2. {next[j] : j \in 1..0} = {}
        OBVIOUS
      <3>3. KnownSoFar(K, states, next, 0, states)
        BY <3>2 DEF KnownSoFar, Continues
      <3>4. QED
        BY <2>2, <3>1, <3>3
    <2>4. i \in 1..n /\ i - 1 \in 0..n
      BY <1>1, <2>2, <2>3
    <2>5. i - 1 \notin Bad
      <3> HIDE DEF Bad
      <3>1. QED
        BY <1>1, <2>1, <2>2, <2>4
    <2>6. KnownSoFar(K, states, next, i - 1, g[i - 1])
      BY <2>4, <2>5
    <2>7. g[i] = IF next[i] \in ToSet(g[i - 1]) THEN g[i - 1] ELSE Append(g[i - 1], next[i])
      BY <1>9, <2>2, <2>3
    <2>8. QED
      BY <2>2, <2>4, <2>6, <2>7, KnownGrows
  <1>11. n \in 0..n
    BY <1>1
  <1>12. QED
    BY <1>8, <1>10, <1>11

-----------------------------------------------------------------------------
(* The worklist of dot.                                                    *)
Worklists(p) == [states : Seq(KState(p)), edges : Seq(Seq(Nat))]

NextOfList(p, fold, g) == Successors(p, fold, g.states[Len(g.edges) + 1])

Grown(p, fold, g) ==
    [states |-> Known(g.states, NextOfList(p, fold, g)),
     edges |-> Append(g.edges, Targets(Known(g.states, NextOfList(p, fold, g)),
                                       NextOfList(p, fold, g)))]

IsExpansion(p, fold, f) ==
    f = [g \in Worklists(p) |->
            IF Len(g.edges) >= Len(g.states) THEN g ELSE f[Grown(p, fold, g)]]

PointTo(targets, known, next) ==
    /\ targets \in Seq(Nat)
    /\ DOMAIN targets = DOMAIN next
    /\ \A i \in DOMAIN next : targets[i] \in DOMAIN known /\ known[targets[i]] = next[i]

LEMMA TargetsFacts ==
    ASSUME NEW K, NEW known \in Seq(K), NEW next \in Seq(K), ToSet(next) \subseteq ToSet(known)
    PROVE  PointTo(Targets(known, next), known, next)
  <1>1. DOMAIN next = 1..Len(next) /\ Len(next) \in Nat
        /\ DOMAIN known = 1..Len(known) /\ Len(known) \in Nat
    OBVIOUS
  <1>2. \A i \in DOMAIN next : \E k \in DOMAIN known : known[k] = next[i]
    BY DEF ToSet
  <1>3. /\ DOMAIN Targets(known, next) = DOMAIN next
        /\ \A i \in DOMAIN next : /\ Targets(known, next)[i] \in DOMAIN known
                                  /\ known[Targets(known, next)[i]] = next[i]
    BY <1>2 DEF Targets
  <1>4. \A i \in DOMAIN next : Targets(known, next)[i] \in Nat
    BY <1>1, <1>3
  <1>5. Targets(known, next) \in [1..Len(next) -> Nat]
    BY <1>1, <1>4 DEF Targets
  <1>6. Targets(known, next) \in Seq(Nat)
    BY <1>1, <1>5
  <1>7. QED
    BY <1>3, <1>6 DEF PointTo

LEMMA ListNext ==
    ASSUME NEW p, Fits(p), NEW fold \in Folding,
           NEW g \in Worklists(p), ~(Len(g.edges) >= Len(g.states))
    PROVE  /\ g.states \in Seq(KState(p)) /\ g.edges \in Seq(Seq(Nat))
           /\ Len(g.states) \in Nat /\ Len(g.edges) \in Nat
           /\ Len(g.edges) + 1 \in 1..Len(g.states)
           /\ NextOfList(p, fold, g) \in Seq(KState(p))
           /\ KnownSoFar(KState(p), g.states, NextOfList(p, fold, g),
                         Len(NextOfList(p, fold, g)), Known(g.states, NextOfList(p, fold, g)))
           /\ ToSet(NextOfList(p, fold, g)) \subseteq ToSet(Grown(p, fold, g).states)
           /\ Grown(p, fold, g).states = Known(g.states, NextOfList(p, fold, g))
           /\ Grown(p, fold, g).edges
                = Append(g.edges, Targets(Known(g.states, NextOfList(p, fold, g)),
                                          NextOfList(p, fold, g)))
  <1> DEFINE next == NextOfList(p, fold, g)
             known == Known(g.states, next)
  <1>1. g.states \in Seq(KState(p)) /\ g.edges \in Seq(Seq(Nat))
    BY DEF Worklists
  <1>2. Len(g.states) \in Nat /\ Len(g.edges) \in Nat
    BY <1>1
  <1>3. Len(g.edges) + 1 \in 1..Len(g.states)
    BY <1>2
  <1>4. g.states[Len(g.edges) + 1] \in KState(p)
    BY <1>1, <1>3
  <1>5. next \in Seq(KState(p))
    BY <1>4, SuccessorsInside DEF NextOfList, Fits
  <1> HIDE DEF next
  <1>6. KnownSoFar(KState(p), g.states, next, Len(next), known)
    BY <1>1, <1>5, KnownFacts
  <1>7. ToSet(next) = {next[j] : j \in 1..Len(next)}
    BY <1>5 DEF ToSet
  <1>8. ToSet(next) \subseteq ToSet(known)
    BY <1>6, <1>7 DEF KnownSoFar
  <1>9. /\ Grown(p, fold, g).states = known
        /\ Grown(p, fold, g).edges = Append(g.edges, Targets(known, next))
    BY DEF Grown, next
  <1>10. QED
    BY <1>1, <1>2, <1>3, <1>5, <1>6, <1>8, <1>9 DEF next

LEMMA GrownInside ==
    ASSUME NEW p, Fits(p), NEW fold \in Folding,
           NEW g \in Worklists(p), ~(Len(g.edges) >= Len(g.states))
    PROVE  Grown(p, fold, g) \in Worklists(p)
  <1> DEFINE next == NextOfList(p, fold, g)
             known == Known(g.states, next)
  <1>1. /\ g.edges \in Seq(Seq(Nat))
        /\ next \in Seq(KState(p))
        /\ KnownSoFar(KState(p), g.states, next, Len(next), known)
        /\ ToSet(next) \subseteq ToSet(known)
    BY ListNext
  <1> HIDE DEF next, known
  <1>2. known \in Seq(KState(p))
    BY <1>1 DEF KnownSoFar
  <1>3. Targets(known, next) \in Seq(Nat)
    BY <1>1, <1>2, TargetsFacts DEF PointTo
  <1>4. Append(g.edges, Targets(known, next)) \in Seq(Seq(Nat))
    BY <1>1, <1>3
  <1>5. QED
    BY <1>2, <1>4 DEF Worklists, Grown, next, known

LEMMA ExpansionExists ==
    ASSUME NEW p, Fits(p), NEW fold \in Folding
    PROVE  \E f : IsExpansion(p, fold, f)
  <1> DEFINE D == Worklists(p)
             stop == {g \in D : Len(g.edges) >= Len(g.states)}
             base == [g \in D |-> g]
             next == [g \in D |-> Grown(p, fold, g)]
  <1>1. \A g \in D \ stop : next[g] \in D
    BY GrownInside
  <1>2. PICK f : IsTailOf(D, stop, base, next, f)
    <2> HIDE DEF D, stop, base, next
    <2>1. QED
      BY <1>1, TailRecursion
  <1>3. f = [g \in D |-> IF g \in stop THEN base[g] ELSE f[next[g]]]
    <2> HIDE DEF D, stop, base, next
    <2>1. QED
      BY <1>2 DEF IsTailOf
  <1>4. \A g \in D : (IF g \in stop THEN base[g] ELSE f[next[g]])
           = IF Len(g.edges) >= Len(g.states) THEN g ELSE f[Grown(p, fold, g)]
    OBVIOUS
  <1>5. [g \in D |-> IF g \in stop THEN base[g] ELSE f[next[g]]]
           = [g \in D |-> IF Len(g.edges) >= Len(g.states) THEN g ELSE f[Grown(p, fold, g)]]
    BY <1>4
  <1>6. IsExpansion(p, fold, f)
    BY <1>3, <1>5 DEF IsExpansion
  <1>7. QED
    BY <1>6

(* What every worklist satisfies: the known states are reachable, each     *)
(* once, and the edges of the expanded ones are their transitions.         *)
EdgesOf(p, fold, g, n) ==
    /\ DOMAIN g.edges[n] = DOMAIN Successors(p, fold, g.states[n])
    /\ \A i \in DOMAIN g.edges[n] :
          /\ g.edges[n][i] \in DOMAIN g.states
          /\ g.states[g.edges[n][i]] = Successors(p, fold, g.states[n])[i]

Explores(p, fold, g) ==
    /\ g \in Worklists(p)
    /\ Len(g.edges) <= Len(g.states)
    /\ 1 \in DOMAIN g.states
    /\ g.states[1] = initial_state(p)
    /\ IsInjective(g.states)
    /\ ToSet(g.states) \subseteq States(p, fold)
    /\ \A n \in 1..Len(g.edges) : EdgesOf(p, fold, g, n)

LEMMA FirstWorklist ==
    ASSUME NEW p, Fits(p), NEW fold \in Folding,
           NEW g, g = [states |-> <<initial_state(p)>>, edges |-> << >>]
    PROVE  Explores(p, fold, g)
  <1>1. g.states = <<initial_state(p)>> /\ g.edges = << >>
    OBVIOUS
  <1>2. initial_state(p) \in KState(p) /\ initial_state(p) \in States(p, fold)
    BY StatesFacts
  <1>3. g \in Worklists(p)
    BY <1>2 DEF Worklists
  <1>4. /\ DOMAIN g.states = {1} /\ g.states[1] = initial_state(p)
        /\ Len(g.states) = 1 /\ Len(g.edges) = 0
    BY <1>1
  <1>5. ToSet(g.states) \subseteq States(p, fold)
    BY <1>2, <1>4 DEF ToSet
  <1>6. IsInjective(g.states)
    BY <1>4 DEF IsInjective
  <1>7. QED
    BY <1>3, <1>4, <1>5, <1>6 DEF Explores

LEMMA Explored ==
    ASSUME NEW p, Fits(p), NEW fold \in Folding, NEW g, Explores(p, fold, g),
           ~(Len(g.edges) >= Len(g.states))
    PROVE  /\ Explores(p, fold, Grown(p, fold, g))
           /\ Len(Grown(p, fold, g).edges) = Len(g.edges) + 1
           /\ Continues(g.states, Grown(p, fold, g).states)
  <1> DEFINE next == NextOfList(p, fold, g)
             h == Grown(p, fold, g)
             m == Len(g.edges) + 1
  <1>1. g \in Worklists(p)
    BY DEF Explores
  <1>2. /\ g.states \in Seq(KState(p)) /\ g.edges \in Seq(Seq(Nat))
        /\ Len(g.states) \in Nat /\ Len(g.edges) \in Nat
        /\ m \in 1..Len(g.states)
        /\ next \in Seq(KState(p))
        /\ KnownSoFar(KState(p), g.states, next, Len(next), h.states)
        /\ ToSet(next) \subseteq ToSet(h.states)
        /\ h.edges = Append(g.edges, Targets(h.states, next))
    BY <1>1, ListNext
  <1>3. h \in Worklists(p)
    BY <1>1, GrownInside
  <1>4. next = Successors(p, fold, g.states[m])
    BY DEF NextOfList
  <1> HIDE DEF next, h
  <1>5. /\ h.states \in Seq(KState(p))
        /\ Len(g.states) <= Len(h.states)
        /\ \A i \in 1..Len(g.states) : h.states[i] = g.states[i]
        /\ ToSet(h.states) = ToSet(g.states) \cup {next[j] : j \in 1..Len(next)}
        /\ IsInjective(h.states)
    BY <1>2 DEF KnownSoFar, Continues, Explores
  <1>6. /\ Len(h.states) \in Nat
        /\ DOMAIN h.states = 1..Len(h.states)
        /\ DOMAIN g.states = 1..Len(g.states)
    BY <1>2, <1>5
  <1>7. /\ Targets(h.states, next) \in Seq(Nat)
        /\ DOMAIN Targets(h.states, next) = DOMAIN next
        /\ \A i \in DOMAIN next : /\ Targets(h.states, next)[i] \in DOMAIN h.states
                                  /\ h.states[Targets(h.states, next)[i]] = next[i]
    <2>1. h.states \in Seq(KState(p))
      BY <1>5
    <2>2. next \in Seq(KState(p)) /\ ToSet(next) \subseteq ToSet(h.states)
      BY <1>2
    <2>3. PointTo(Targets(h.states, next), h.states, next)
      BY ONLY <2>1, <2>2, TargetsFacts
    <2>4. QED
      BY <2>3 DEF PointTo
  <1>8. /\ Len(h.edges) = m
        /\ \A n \in 1..Len(g.edges) : h.edges[n] = g.edges[n]
        /\ h.edges[m] = Targets(h.states, next)
    BY <1>2, <1>7
  <1>9. ASSUME NEW n \in 1..m PROVE EdgesOf(p, fold, h, n)
    <2>1. n \in 1..Len(g.states) /\ h.states[n] = g.states[n]
      BY <1>2, <1>5
    <2>2. CASE n = m
      BY <1>4, <1>7, <1>8, <2>1, <2>2 DEF EdgesOf
    <2>3. CASE n # m
      <3>1. n \in 1..Len(g.edges)
        BY <1>2, <2>3
      <3>2. EdgesOf(p, fold, g, n) /\ h.edges[n] = g.edges[n]
        BY <1>8, <3>1 DEF Explores
      <3>3. \A k \in DOMAIN g.states : k \in DOMAIN h.states /\ h.states[k] = g.states[k]
        BY <1>2, <1>5, <1>6
      <3>4. QED
        BY <2>1, <3>2, <3>3 DEF EdgesOf
    <2>4. QED
      BY <2>2, <2>3
  <1>10. ToSet(h.states) \subseteq States(p, fold)
    <2>1. g.states[m] \in States(p, fold)
      BY <1>2, <1>6 DEF Explores, ToSet
    <2>2. After(p, fold, g.states[m]) \subseteq States(p, fold)
      BY <2>1, StatesFacts DEF StaysIn
    <2>3. \A j \in 1..Len(next) : next[j] \in States(p, fold)
      BY <1>2, <1>4, <2>2 DEF After, ToSet
    <2>4. QED
      BY <1>5, <2>3 DEF Explores
  <1>11. 1 \in DOMAIN h.states /\ h.states[1] = initial_state(p)
    <2>1. 1 \in 1..Len(g.states) /\ g.states[1] = initial_state(p)
      BY <1>6 DEF Explores
    <2>2. QED
      BY <1>2, <1>5, <1>6, <2>1
  <1>12. Len(h.edges) <= Len(h.states)
    BY <1>2, <1>5, <1>6, <1>8
  <1>13. Explores(p, fold, h)
    BY <1>3, <1>5, <1>8, <1>9, <1>10, <1>11, <1>12 DEF Explores
  <1>14. QED
    BY <1>5, <1>8, <1>13 DEF h, Continues

(* The loop ends, when every known state is expanded.                      *)
LEMMA ExpansionFacts ==
    ASSUME NEW p, Fits(p), NEW fold \in Folding, NEW f, IsExpansion(p, fold, f),
           NEW g, Explores(p, fold, g)
    PROVE  Explores(p, fold, f[g]) /\ Len(f[g].edges) = Len(f[g].states)
  <1> DEFINE K == KState(p)
             Good(h) == Explores(p, fold, h) /\ Len(h.edges) = Len(h.states)
             Bad == {h \in Worklists(p) : Explores(p, fold, h) /\ ~Good(f[h])}
             v == [h \in Bad |-> {h.states[n] : n \in 1..Len(h.edges)}]
  <1>1. \A h \in Worklists(p) :
            f[h] = IF Len(h.edges) >= Len(h.states) THEN h ELSE f[Grown(p, fold, h)]
    BY DEF IsExpansion
  <1>2. ASSUME NEW h, Explores(p, fold, h)
        PROVE  /\ h \in Worklists(p)
               /\ h.states \in Seq(K)
               /\ Len(h.states) \in Nat /\ Len(h.edges) \in Nat
               /\ Len(h.edges) <= Len(h.states)
               /\ DOMAIN h.states = 1..Len(h.states)
    BY <1>2 DEF Explores, Worklists
  <1>3. ASSUME NEW h \in Bad PROVE v[h] \subseteq K
    <2>1. Explores(p, fold, h)
      OBVIOUS
    <2>2. v[h] = {h.states[n] : n \in 1..Len(h.edges)}
      OBVIOUS
    <2> HIDE DEF v, Bad
    <2>3. \A n \in 1..Len(h.edges) : h.states[n] \in K
      BY <1>2, <2>1
    <2>4. QED
      BY <2>2, <2>3
  <1>4. Bad = {}
    <2> SUFFICES ASSUME Bad # {} PROVE FALSE
      OBVIOUS
    <2>1. PICK h \in Bad : \A j \in Bad : v[h] \subseteq v[j] => v[j] = v[h]
      <3>1. IsFiniteSet(K) /\ Bad # {} /\ \A h \in Bad : v[h] \subseteq K
        BY <1>3, KStateFinite DEF Fits
      <3> HIDE DEF Bad, v, K
      <3>2. QED
        BY ONLY <3>1, LargestValue
    <2>2. h \in Worklists(p) /\ Explores(p, fold, h) /\ ~Good(f[h])
      OBVIOUS
    <2>3. /\ h.states \in Seq(K)
          /\ Len(h.states) \in Nat /\ Len(h.edges) \in Nat
          /\ Len(h.edges) <= Len(h.states)
          /\ DOMAIN h.states = 1..Len(h.states)
      BY <1>2, <2>2
    <2>4. CASE Len(h.edges) >= Len(h.states)
      <3>1. f[h] = h
        BY <1>1, <2>2, <2>4
      <3>2. Len(h.edges) = Len(h.states)
        BY <2>3, <2>4
      <3>3. QED
        BY <2>2, <3>1, <3>2
    <2>5. CASE ~(Len(h.edges) >= Len(h.states))
      <3> DEFINE j == Grown(p, fold, h)
                 m == Len(h.edges) + 1
      <3>1. /\ Explores(p, fold, j)
            /\ Len(j.edges) = m
            /\ Len(h.states) <= Len(j.states)
            /\ \A n \in 1..Len(h.states) : j.states[n] = h.states[n]
        BY <2>2, <2>5, Explored DEF Continues
      <3>2. f[h] = f[j]
        BY <1>1, <2>2, <2>5
      <3> HIDE DEF j
      <3>3. j \in Worklists(p)
        BY <3>1, <1>2
      <3>4. j \in Bad
        BY <2>2, <3>1, <3>2, <3>3
      <3>5. /\ v[h] = {h.states[n] : n \in 1..Len(h.edges)}
            /\ v[j] = {j.states[n] : n \in 1..Len(j.edges)}
        BY <3>4
      <3>6. m \in 1..Len(h.states) /\ m \in 1..Len(j.edges)
            /\ \A n \in 1..Len(h.edges) : n \in 1..Len(j.edges) /\ n \in 1..Len(h.states)
        BY <2>3, <2>5, <3>1
      <3> HIDE DEF v, Bad
      <3>7. v[h] \subseteq v[j] /\ j.states[m] \in v[j]
        BY <3>1, <3>5, <3>6
      <3>8. v[j] = v[h]
        BY <2>1, <3>4, <3>7
      <3>9. PICK n \in 1..Len(h.edges) : h.states[n] = h.states[m]
        <4>1. j.states[m] \in v[h] /\ j.states[m] = h.states[m]
          BY <3>1, <3>6, <3>7, <3>8
        <4>2. QED
          BY <3>5, <4>1
      <3>10. n # m /\ n \in DOMAIN h.states /\ m \in DOMAIN h.states
        BY <2>3, <3>6
      <3>11. QED
        BY <2>2, <3>9, <3>10 DEF Explores, IsInjective
    <2>6. QED
      BY <2>4, <2>5
  <1>5. g \in Worklists(p)
    BY DEF Explores
  <1>6. QED
    BY <1>4, <1>5

(* dot ignores the input options: its program is one, too.                 *)
LEMMA DotProgramFits ==
    ASSUME Commanded
    PROVE  /\ Fits(DotProgram)
           /\ DotProgram.labels = prog.labels
           /\ DotFolding \in Folding
  <1>1. /\ IsProgram(prog) /\ SmallTape(prog)
    BY DEF Commanded, Fits
  <1>2. prog = ParsedProgram(prog.ops, prog.labels, prog.memory_model, prog.io_model)
    BY <1>1 DEF IsProgram
  <1>3. DotProgram = ParsedProgram(prog.ops, prog.labels, prog.memory_model, DefaultIOModel)
    BY <1>2 DEF DotProgram, ParsedProgram
  <1>4. /\ DotProgram.ops = prog.ops /\ DotProgram.labels = prog.labels
        /\ DotProgram.memory_model = prog.memory_model
        /\ DotProgram.io_model = DefaultIOModel
    BY <1>3 DEF ParsedProgram
  <1>5. IsIOModel(DefaultIOModel)
    BY MaxCharAssumption DEF IsIOModel, DefaultIOModel, Char, has_input
  <1>6. IsProgram(DotProgram)
    BY <1>1, <1>3, <1>4, <1>5 DEF IsProgram
  <1>7. SmallTape(DotProgram)
    BY <1>1, <1>4 DEF SmallTape, Model
  <1>8. DotFolding \in Folding
    BY DEF DotFolding, Folding
  <1>9. QED
    BY <1>4, <1>6, <1>7, <1>8 DEF Fits

LEMMA DotGraphFacts ==
    ASSUME Commanded
    PROVE  /\ Explores(DotProgram, DotFolding, DotGraph)
           /\ Len(DotGraph.edges) = Len(DotGraph.states)
  <1> DEFINE f == CHOOSE h : IsExpansion(DotProgram, DotFolding, h)
             g == [states |-> <<initial_state(DotProgram)>>, edges |-> << >>]
  <1>1. Fits(DotProgram) /\ DotFolding \in Folding
    BY DotProgramFits
  <1>2. IsExpansion(DotProgram, DotFolding, f)
    BY <1>1, ExpansionExists
  <1>3. DotGraph = f[g]
    BY DEF DotGraph, IsExpansion, Worklists, Grown, NextOfList
  <1>4. Explores(DotProgram, DotFolding, g)
    BY <1>1, FirstWorklist
  <1> HIDE DEF f, g
  <1>5. QED
    BY <1>1, <1>2, <1>3, <1>4, ExpansionFacts

(* What the text of dot has to show.                                       *)
ShowsGraph(text) ==
    /\ IsInjective(text.states)
    /\ text.states[1] = initial_state(DotProgram)
    /\ ToSet(text.states) = States(DotProgram, DotFolding)
    /\ \A n \in DOMAIN text.states :
          [i \in DOMAIN text.edges[n] |-> text.states[text.edges[n][i]]]
              = Successors(DotProgram, DotFolding, text.states[n])
    /\ \A label \in prog.labels :
          (\E s \in States(DotProgram, "none") : s.pc = label[1]) =>
              \E n \in DOMAIN text.states :
                  text.states[n].pc = label[1] /\ label[2] \in text.labels[n]

(* A label that a run of single instructions passes is not inside a block. *)
LEMMA LabelShown ==
    ASSUME NEW p, Fits(p), NEW fold \in Folding, NEW s \in States(p, "none"),
           s.pc \in Labelled(p)
    PROVE  s \in States(p, fold)
  <1>1. s \in States(p, fold) \/ Inside(p, fold, States(p, fold), s)
    BY SingleCovered DEF Filled
  <1>2. ~Inside(p, fold, States(p, fold), s)
    <2> SUFFICES ASSUME Inside(p, fold, States(p, fold), s) PROVE FALSE
      OBVIOUS
    <2>1. PICK x \in States(p, fold) : \E n, path : \E k \in 2..(n - 1) :
              Unfolds(p, fold, x, n, path) /\ s = path[k]
      BY DEF Inside
    <2>2. PICK n, path : \E k \in 2..(n - 1) : Unfolds(p, fold, x, n, path) /\ s = path[k]
      BY <2>1
    <2>3. Hidden(p, fold, x, s)
      BY <2>2 DEF Unfolds
    <2>4. QED
      BY <2>3 DEF Hidden
  <1>3. QED
    BY <1>1, <1>2

LEMMA PrintsGraph ==
    ASSUME Commanded
    PROVE  ShowsGraph(print_dot)
  <1> DEFINE p == DotProgram
             fold == DotFolding
             g == DotGraph
             F == States(p, fold)
  <1>1. Fits(p) /\ fold \in Folding /\ p.labels = prog.labels
    BY DotProgramFits
  <1>2. Explores(p, fold, g) /\ Len(g.edges) = Len(g.states)
    BY DotGraphFacts
  <1> HIDE DEF p, fold, g, F
  <1>3. /\ g.states \in Seq(KState(p)) /\ DOMAIN g.states = 1..Len(g.states)
        /\ g.edges \in Seq(Seq(Nat))
    BY <1>2 DEF Explores, Worklists
  <1>4. /\ print_dot.states = g.states
        /\ print_dot.edges = g.edges
        /\ print_dot.labels = [n \in DOMAIN g.states |->
               {l[2] : l \in {l \in prog.labels : l[1] = g.states[n].pc}}]
    BY DEF print_dot, g
  <1>5. ASSUME NEW n \in DOMAIN g.states
        PROVE  [i \in DOMAIN g.edges[n] |-> g.states[g.edges[n][i]]]
                 = Successors(p, fold, g.states[n])
    <2>1. EdgesOf(p, fold, g, n)
      BY <1>2, <1>3 DEF Explores
    <2>2. g.states[n] \in KState(p)
      BY <1>3
    <2> DEFINE next == Successors(p, fold, g.states[n])
    <2>3. next \in Seq(KState(p))
      BY <1>1, <2>2, SuccessorsInside DEF Fits
    <2>4. next = [i \in DOMAIN next |-> next[i]]
      <3> HIDE DEF next
      <3>1. QED
        BY <2>3
    <2>5. QED
      BY <2>1, <2>4 DEF EdgesOf
  <1>6. ToSet(g.states) = F
    <2>1. ASSUME NEW n \in DOMAIN g.states, NEW t \in After(p, fold, g.states[n])
          PROVE  t \in ToSet(g.states)
      <3>1. EdgesOf(p, fold, g, n)
        BY <1>2, <1>3 DEF Explores
      <3>2. PICK i \in DOMAIN Successors(p, fold, g.states[n]) :
                t = Successors(p, fold, g.states[n])[i]
        BY <2>1 DEF After, ToSet
      <3>3. QED
        BY <3>1, <3>2 DEF EdgesOf, ToSet
    <2>2. StaysIn(p, fold, ToSet(g.states))
      BY <2>1 DEF StaysIn, ToSet
    <2>3. initial_state(p) \in ToSet(g.states)
      BY <1>2 DEF Explores, ToSet
    <2>4. F \subseteq ToSet(g.states)
      BY <1>1, <2>2, <2>3, StatesFacts DEF F
    <2>5. QED
      BY <1>2, <2>4 DEF Explores, F
  <1>7. ASSUME NEW label \in prog.labels, NEW s \in States(p, "none"), s.pc = label[1]
        PROVE  \E n \in DOMAIN g.states :
                  g.states[n].pc = label[1] /\ label[2] \in print_dot.labels[n]
    <2>1. s.pc \in Labelled(p)
      BY <1>1, <1>7 DEF Labelled
    <2>2. s \in ToSet(g.states)
      BY <1>1, <1>6, <2>1, LabelShown DEF F
    <2>3. PICK n \in DOMAIN g.states : g.states[n] = s
      BY <2>2 DEF ToSet
    <2>4. label[2] \in print_dot.labels[n]
      BY <1>4, <1>7, <2>3
    <2>5. QED
      BY <1>7, <2>3, <2>4
  <1>8. IsInjective(g.states) /\ g.states[1] = initial_state(p)
    BY <1>2 DEF Explores
  <1>9. QED
    BY <1>4, <1>5, <1>6, <1>7, <1>8 DEF ShowsGraph, p, fold, F

LEMMA DotStep ==
    ASSUME Commanded, DotShowsGraph, [Next]_vars
    PROVE  DotShowsGraph'
  <1>1. prog' = prog /\ command' = command
    BY NextKeeps
  <1>2. DotProgram' = DotProgram /\ DotFolding' = DotFolding
    BY <1>1 DEF DotProgram, DotFolding
  <1>3. DotShowsGraph <=> (Answers("dot") => ShowsGraph(output))
    BY DEF DotShowsGraph, ShowsGraph
  <1>4. DotShowsGraph' <=> (output' # NoValue /\ command.name = "dot" => ShowsGraph(output'))
    BY <1>1, <1>2 DEF DotShowsGraph, ShowsGraph, Answers
  <1> SUFFICES ASSUME command.name = "dot", output' # NoValue
               PROVE  ShowsGraph(output')
    BY <1>4
  <1>5. CASE UNCHANGED vars
    BY <1>3, <1>5 DEF vars, Answers
  <1>6. CASE dotfun
    BY <1>6, PrintsGraph DEF dotfun, Show
  <1>7. ~RejectLabel /\ ~RejectCell /\ ~reachfun /\ ~visitfun /\ ~overflowfun
    BY DEF RejectLabel, RejectCell, reachfun, visitfun, overflowfun, Given
  <1>8. ~valuefun_every_run /\ ~valuefun_any_run
    BY AnyRunStep DEF valuefun_every_run, Given
  <1>9. QED
    BY <1>5, <1>6, <1>7, <1>8 DEF Next

(* dot prints the state graph of its folding mode, for every program: the  *)
(* worklist ends, no state is missing, spurious or drawn twice, no edge    *)
(* leads to the wrong node, and no label that a run passes is lost.        *)
THEOREM DotIsTheGraph ==
    ASSUME SmallTapes
    PROVE  Spec => []DotShowsGraph
  <1>1. Init => DotShowsGraph
    BY DEF Init, DotShowsGraph, Answers
  <1>2. Commanded /\ DotShowsGraph /\ [Next]_vars => DotShowsGraph'
    BY DotStep
  <1>3. Spec => []Commanded
    BY CommandedInvariant
  <1>4. QED
    BY <1>1, <1>2, <1>3, PTL DEF Spec
-----------------------------------------------------------------------------
(* Printed runs.  A walk is a sequence of states that applies the first m  *)
(* instructions of a text one at a time.                                   *)
TextAt(s) == IF s.pc > Len(prog.ops) THEN "halt" ELSE prog.ops[s.pc]

Texts == Instruction \cup {"halt"}

Walks(u, text, m) ==
    /\ u \in Seq(Single)
    /\ Len(u) = m + 1
    /\ \A k \in 1..m : u[k + 1] \in NextOf(u[k]) /\ TextAt(u[k]) = text[k]

(* A walk goes on with another one that starts where it ends.              *)
GoesOn(text, m, u, part, j, v) ==
    /\ m \in Nat /\ j \in Nat
    /\ Walks(u, text, m) /\ Walks(v, part, j)
    /\ v[1] = u[m + 1]
    /\ \A k \in 1..j : text[m + k] = part[k]

Joined(text, m, u, j, v, w) ==
    /\ Walks(w, text, m + j)
    /\ \A k \in 1..(m + 1) : w[k] = u[k]
    /\ \A k \in 1..(j + 1) : w[m + k] = v[k]

LEMMA WalksOn ==
    ASSUME NEW text, NEW m, NEW u, NEW part, NEW j, NEW v,
           GoesOn(text, m, u, part, j, v)
    PROVE  \E w : Joined(text, m, u, j, v, w)
  <1> /\ m \in Nat /\ j \in Nat
      /\ Walks(u, text, m) /\ Walks(v, part, j)
      /\ v[1] = u[m + 1]
      /\ \A k \in 1..j : text[m + k] = part[k]
    BY DEF GoesOn
  <1> DEFINE w == [k \in 1..(m + j + 1) |-> IF k <= m + 1 THEN u[k] ELSE v[k - m]]
  <1>1. /\ \A k \in 1..(m + 1) : u[k] \in Single
        /\ \A k \in 1..(j + 1) : v[k] \in Single
        /\ \A k \in 1..m : u[k + 1] \in NextOf(u[k]) /\ TextAt(u[k]) = text[k]
        /\ \A k \in 1..j : v[k + 1] \in NextOf(v[k]) /\ TextAt(v[k]) = part[k]
    <2>1. /\ u \in Seq(Single) /\ Len(u) = m + 1
          /\ v \in Seq(Single) /\ Len(v) = j + 1
      BY DEF Walks
    <2>2. /\ \A k \in 1..m : u[k + 1] \in NextOf(u[k]) /\ TextAt(u[k]) = text[k]
          /\ \A k \in 1..j : v[k + 1] \in NextOf(v[k]) /\ TextAt(v[k]) = part[k]
      BY DEF Walks
    <2>3. QED
      BY <2>1, <2>2
  <1>2. \A k \in 1..(m + 1) : w[k] = u[k]
    OBVIOUS
  <1>3. \A k \in 1..(j + 1) : w[m + k] = v[k]
    <2> SUFFICES ASSUME NEW k \in 1..(j + 1) PROVE w[m + k] = v[k]
      OBVIOUS
    <2>1. m + k \in 1..(m + j + 1) /\ (m + k) - m = k
      OBVIOUS
    <2>2. CASE k = 1
      BY <2>1, <2>2
    <2>3. CASE k # 1
      <3>1. ~(m + k <= m + 1)
        BY <2>3
      <3>2. QED
        BY <2>1, <3>1
    <2>4. QED
      BY <2>2, <2>3
  <1>4. w \in Seq(Single) /\ Len(w) = m + j + 1
    <2>1. \A k \in 1..(m + j + 1) : w[k] \in Single
      <3> SUFFICES ASSUME NEW k \in 1..(m + j + 1) PROVE w[k] \in Single
        OBVIOUS
      <3>1. CASE k <= m + 1
        <4>1. k \in 1..(m + 1)
          BY <3>1
        <4>2. QED
          BY <1>1, <1>2, <4>1
      <3>2. CASE ~(k <= m + 1)
        <4>1. k - m \in 1..(j + 1) /\ w[k] = v[k - m]
          BY <3>2
        <4>2. QED
          BY <1>1, <4>1
      <3>3. QED
        BY <3>1, <3>2
    <2>2. w \in [1..(m + j + 1) -> Single] /\ m + j + 1 \in Nat
      BY <2>1
    <2> HIDE DEF w
    <2>3. QED
      BY <2>2
  <1> HIDE DEF w
  <1>5. ASSUME NEW k \in 1..(m + j)
        PROVE  w[k + 1] \in NextOf(w[k]) /\ TextAt(w[k]) = text[k]
    <2>1. CASE k <= m
      <3>1. k \in 1..m /\ k \in 1..(m + 1) /\ k + 1 \in 1..(m + 1)
        BY <2>1
      <3>2. w[k] = u[k] /\ w[k + 1] = u[k + 1]
        BY <1>2, <3>1
      <3>3. QED
        BY <1>1, <3>1, <3>2
    <2>2. CASE ~(k <= m)
      <3>1. PICK i \in 1..j : k = m + i
        <4>1. k - m \in 1..j /\ k = m + (k - m)
          BY <2>2
        <4>2. QED
          BY <4>1
      <3>2. /\ i \in 1..(j + 1) /\ i + 1 \in 1..(j + 1)
            /\ k + 1 = m + (i + 1)
        BY <3>1
      <3>3. w[k] = v[i] /\ w[k + 1] = v[i + 1] /\ text[k] = part[i]
        BY <1>3, <3>1, <3>2
      <3>4. QED
        BY <1>1, <3>3
    <2>3. QED
      BY <2>1, <2>2
  <1>6. Walks(w, text, m + j)
    BY <1>4, <1>5 DEF Walks
  <1>7. Joined(text, m, u, j, v, w)
    BY <1>2, <1>3, <1>6 DEF Joined
  <1>8. QED
    BY <1>7

(* The recursion of Executions has a solution.                             *)
Followed(text, k, paths) ==
    UNION {{Append(path, s) : s \in NextOf(Last(path))} :
              path \in {q \in paths : TextAt(Last(q)) = text[k]}}

IsFollowing(text, f) ==
    f = [k \in 0..Len(text) |->
            IF k = 0 THEN {<<initial_state(prog)>>} ELSE Followed(text, k, f[k - 1])]

LEMMA ExecutionsIs == \A text : Executions(text) = (CHOOSE f : IsFollowing(text, f))[Len(text)]
  BY DEF Executions, IsFollowing, Followed, TextAt

LEMMA FollowedInside ==
    ASSUME Fits(prog), NEW text, NEW k, NEW paths \in SUBSET Paths(prog)
    PROVE  Followed(text, k, paths) \in SUBSET Paths(prog)
  <1> DEFINE more(path) == {Append(path, s) : s \in NextOf(Last(path))}
  <1>1. ASSUME NEW path \in paths PROVE more(path) \subseteq Paths(prog)
    <2>1. initial_state(prog) \in KState(prog) /\ "none" \in Folding
      BY InitialState DEF Fits, Folding
    <2>2. Last(path) \in KState(prog)
      BY <2>1, PathGrows
    <2>3. NextOf(Last(path)) \subseteq KState(prog)
      BY <2>1, <2>2, SuccessorsInside DEF NextOf, Fits
    <2>4. \A s \in KState(prog) : Append(path, s) \in Paths(prog)
      BY PathGrows
    <2>5. QED
      BY <2>3, <2>4
  <1>2. Followed(text, k, paths)
          = UNION {more(path) : path \in {q \in paths : TextAt(Last(q)) = text[k]}}
    BY DEF Followed
  <1> HIDE DEF more
  <1>3. QED
    BY <1>1, <1>2

LEMMA FollowingExists ==
    ASSUME Fits(prog), NEW text, Len(text) \in Nat
    PROVE  \E f \in [0..Len(text) -> SUBSET Paths(prog)] : IsFollowing(text, f)
  <1>0. initial_state(prog) \in KState(prog)
    BY InitialState DEF Fits, Folding
  <1> DEFINE last == Len(text)
             V == SUBSET Paths(prog)
             start == {<<initial_state(prog)>>}
             next == [y \in (1..last) \X V |-> Followed(text, y[1], y[2])]
  <1>1. start \in V
    <2>1. <<initial_state(prog)>> \in Paths(prog)
      BY <1>0 DEF Paths
    <2>2. QED
      BY <2>1
  <1>2. \A i \in (0 + 1)..last : \A x \in V :
            next[<<i, x>>] = Followed(text, i, x) /\ next[<<i, x>>] \in V
    <2> SUFFICES ASSUME NEW i \in (0 + 1)..last, NEW x \in V
                 PROVE  next[<<i, x>>] = Followed(text, i, x) /\ next[<<i, x>>] \in V
      BY Zenon
    <2>1. Followed(text, i, x) \in V
      BY FollowedInside
    <2>2. next[<<i, x>>] = Followed(text, i, x)
      <3>1. i \in 1..last
        OBVIOUS
      <3> HIDE DEF V, last
      <3>2. <<i, x>> \in (1..last) \X V
        BY <3>1
      <3>3. QED
        BY <3>2
    <2>3. QED
      BY <2>1, <2>2
  <1>3. last \in Nat /\ 0 <= last
    OBVIOUS
  <1> HIDE DEF next, start, V, last
  <1>4. PICK f \in [0..last -> V] : IsCountedUp(0, last, start, next, f)
    BY <1>1, <1>2, <1>3, CountUp
  <1>5. f = [i \in 0..last |-> IF i = 0 THEN start ELSE next[<<i, f[i - 1]>>]]
    BY <1>4 DEF IsCountedUp
  <1>6. \A i \in 0..last :
           (IF i = 0 THEN start ELSE next[<<i, f[i - 1]>>])
             = IF i = 0 THEN start ELSE Followed(text, i, f[i - 1])
    <2> SUFFICES ASSUME NEW i \in 0..last, i # 0
                 PROVE  next[<<i, f[i - 1]>>] = Followed(text, i, f[i - 1])
      OBVIOUS
    <2>1. i \in (0 + 1)..last /\ i - 1 \in 0..last
      BY <1>3
    <2>2. f[i - 1] \in V
      BY <2>1
    <2>3. QED
      BY <1>2, <2>1, <2>2
  <1>7. f = [i \in 0..last |-> IF i = 0 THEN start ELSE Followed(text, i, f[i - 1])]
    BY <1>5, <1>6
  <1>8. IsFollowing(text, f)
    BY <1>7 DEF IsFollowing, last, start
  <1>9. QED
    BY <1>8 DEF last, V

(* A walk through a text from the start is an execution of the text.       *)
LEMMA ExecutionsFacts ==
    ASSUME Fits(prog), NEW text, Len(text) \in Nat,
           NEW u, Walks(u, text, Len(text)), u[1] = initial_state(prog)
    PROVE  u \in Executions(text)
  <1> DEFINE f == CHOOSE g : IsFollowing(text, g)
             last == Len(text)
             Begin(k) == SubSeq(u, 1, k + 1)
             Bad == {k \in 0..last : Begin(k) \notin f[k]}
  <1>1. IsFollowing(text, f)
    BY FollowingExists
  <1>2. Executions(text) = f[last]
    BY ExecutionsIs
  <1> HIDE DEF f
  <1>3. f[0] = {<<initial_state(prog)>>} /\ \A k \in 1..last : f[k] = Followed(text, k, f[k - 1])
    <2>1. f = [k \in 0..last |-> IF k = 0 THEN {<<initial_state(prog)>>}
                                 ELSE Followed(text, k, f[k - 1])]
      BY <1>1 DEF IsFollowing
    <2>2. 0 \in 0..last /\ \A k \in 1..last : k \in 0..last /\ k # 0
      OBVIOUS
    <2> HIDE DEF last
    <2>3. QED
      BY <2>1, <2>2
  <1>4. /\ u \in Seq(Single) /\ Len(u) = last + 1 /\ last \in Nat
        /\ \A k \in 1..last : u[k + 1] \in NextOf(u[k]) /\ TextAt(u[k]) = text[k]
    BY DEF Walks
  <1>5. \A k \in 0..last : /\ Begin(k) \in Seq(Single) /\ Len(Begin(k)) = k + 1
                           /\ Begin(k)[k + 1] = u[k + 1]
    BY <1>4
  <1>6. ASSUME NEW k \in 1..last
        PROVE  Begin(k) = Append(Begin(k - 1), u[k + 1]) /\ Last(Begin(k - 1)) = u[k]
    <2>1. k - 1 \in 0..last /\ (k - 1) + 1 = k
      BY <1>4
    <2>2. Begin(k - 1) \in Seq(Single) /\ Len(Begin(k - 1)) = k /\ Begin(k - 1)[k] = u[k]
      BY <1>5, <2>1
    <2> DEFINE whole == SubSeq(u, 1, k + 1)
               part == SubSeq(u, 1, k)
    <2>5. /\ whole \in Seq(Single) /\ Len(whole) = k + 1
          /\ \A i \in 1..(k + 1) : whole[i] = u[i]
          /\ part \in Seq(Single) /\ Len(part) = k
          /\ \A i \in 1..k : part[i] = u[i]
          /\ u[k + 1] \in Single
      BY <1>4, <2>1
    <2>3. whole = Append(part, u[k + 1])
      <3> HIDE DEF whole, part
      <3>1. /\ Append(part, u[k + 1]) \in Seq(Single) /\ Len(Append(part, u[k + 1])) = k + 1
            /\ Append(part, u[k + 1])[k + 1] = u[k + 1]
            /\ \A i \in 1..k : Append(part, u[k + 1])[i] = u[i]
        BY <2>5, AppendFacts
      <3>2. \A i \in 1..(k + 1) : whole[i] = Append(part, u[k + 1])[i]
        <4>1. \A i \in 1..(k + 1) : i \in 1..k \/ i = k + 1
          BY <1>4
        <4>2. QED
          BY <2>5, <3>1, <4>1
      <3>3. \A a, b \in Seq(Single) :
               Len(a) = Len(b) /\ (\A i \in 1..Len(a) : a[i] = b[i]) => a = b
        OBVIOUS
      <3>4. QED
        BY <2>5, <3>1, <3>2, <3>3
    <2>4. QED
      BY <2>1, <2>2, <2>3 DEF Last
  <1>7. Begin(0) \in f[0]
    <2>1. 0 \in 0..last /\ 0 + 1 = 1
      BY <1>4
    <2>2. Begin(0) \in Seq(Single) /\ Len(Begin(0)) = 1 /\ Begin(0)[1] = u[1]
      BY <1>5, <2>1
    <2> HIDE DEF Begin
    <2>3. \A a \in Seq(Single) : Len(a) = 1 => a = <<a[1]>>
      OBVIOUS
    <2>4. QED
      BY <1>3, <2>2, <2>3
  <1>8. ASSUME NEW k \in 1..last, Begin(k - 1) \in f[k - 1]
        PROVE  Begin(k) \in f[k]
    <2> HIDE DEF Begin
    <2> DEFINE more(path) == {Append(path, s) : s \in NextOf(Last(path))}
               q == Begin(k - 1)
    <2>1. /\ TextAt(Last(q)) = text[k]
          /\ u[k + 1] \in NextOf(Last(q))
          /\ Begin(k) = Append(q, u[k + 1])
      BY <1>4, <1>6
    <2>2. q \in {x \in f[k - 1] : TextAt(Last(x)) = text[k]}
      BY <1>8, <2>1
    <2>3. Begin(k) \in more(q)
      BY <2>1
    <2>4. f[k] = UNION {more(path) : path \in {x \in f[k - 1] : TextAt(Last(x)) = text[k]}}
      BY <1>3 DEF Followed
    <2> HIDE DEF more, q
    <2>5. QED
      BY <2>2, <2>3, <2>4
  <1>9. Bad = {}
    <2> SUFFICES ASSUME Bad # {} PROVE FALSE
      OBVIOUS
    <2>1. PICK k \in Bad : \A i \in Bad : k <= i
      <3>1. Bad \in SUBSET Nat
        OBVIOUS
      <3> HIDE DEF Bad
      <3>2. QED
        BY <3>1, LeastElement
    <2>2. k \in 0..last /\ Begin(k) \notin f[k]
      OBVIOUS
    <2> HIDE DEF Begin
    <2>3. k # 0
      BY <1>7, <2>2
    <2>4. k \in 1..last /\ k - 1 \in 0..last /\ ~(k <= k - 1)
      BY <1>4, <2>2, <2>3
    <2>5. Begin(k - 1) \in f[k - 1]
      BY <2>1, <2>4
    <2>6. QED
      BY <1>8, <2>2, <2>4, <2>5
  <1>10. Begin(last) \in f[last]
    <2> HIDE DEF Begin
    <2>1. last \in 0..last
      BY <1>4
    <2>2. QED
      BY <1>9, <2>1
  <1>11. SubSeq(u, 1, last + 1) = u
    BY <1>4
  <1>12. QED
    BY <1>2, <1>10, <1>11

LEMMA SubSeqFacts ==
    ASSUME NEW S, NEW q \in Seq(S), NEW a \in 1..Len(q), NEW b \in a..Len(q)
    PROVE  /\ SubSeq(q, a, b) \in Seq(S)
           /\ Len(SubSeq(q, a, b)) = b - a + 1
           /\ \A k \in 1..(b - a + 1) : SubSeq(q, a, b)[k] = q[a + k - 1]
  <1>1. Len(q) \in Nat
    OBVIOUS
  <1>2. b - a + 1 \in Nat
    BY <1>1
  <1>3. \A k \in 1..(b - a + 1) : q[a + k - 1] \in S
    BY <1>1
  <1>4. QED
    BY <1>1, <1>2, <1>3

(* The text of a step is that of the block that the transition applies, or *)
(* of the one instruction.                                                 *)
LEMMA StepEnd ==
    ASSUME Fits(prog), NEW fold \in Folding, NEW pc \in 1..Len(prog.ops)
    PROVE  /\ step_end(prog, pc, fold) = ChosenBlock(prog, fold, pc).end
           /\ ChosenBlock(prog, fold, pc).kind = "single"
                => ChosenBlock(prog, fold, pc).end = pc + 1
  <1> DEFINE block == block_at(prog, pc)
             stop == BlockEnd(prog.ops, Labelled(prog), pc)
  <1>1. /\ block.kind = InstrClass(prog.ops[pc]) /\ block.end = stop
        /\ stop \in (pc + 1)..(Len(prog.ops) + 1)
        /\ Unbroken(prog.ops, Labelled(prog), pc, stop - 1)
    BY Entry DEF Fits
  <1> HIDE DEF block, stop
  <1>2. Len(prog.ops) \in Nat /\ pc \in Nat /\ stop \in Nat
    BY <1>1 DEF Fits, IsProgram
  <1>3. block.kind = "single" => stop = pc + 1
    <2> SUFFICES ASSUME block.kind = "single", stop # pc + 1 PROVE FALSE
      OBVIOUS
    <2>1. pc + 1 \in (pc + 1)..(stop - 1) /\ (pc + 1) - 1 = pc
      BY <1>1, <1>2
    <2>2. ~StartsBlock(prog.ops, Labelled(prog), pc + 1)
      BY <1>1, <2>1 DEF Unbroken
    <2>3. InstrClass(prog.ops[pc + 1]) # "single"
      BY <2>2 DEF StartsBlock
    <2>4. InstrClass(prog.ops[pc + 1]) # InstrClass(prog.ops[pc])
      BY <1>1, <2>3
    <2>5. QED
      BY <2>1, <2>2, <2>4 DEF StartsBlock
  <1>4. block.kind \in {"single", "values", "pointers"}
    BY <1>1 DEF InstrClass
  <1>5. ~is_end(prog, pc)
    BY <1>2 DEF is_end, instr_count
  <1>6. step_end(prog, pc, fold)
          = IF \/ fold = "straight_line"
               \/ fold = "values" /\ block.kind = "values"
               \/ fold = "pointers" /\ block.kind = "pointers"
            THEN stop ELSE pc + 1
    BY <1>1, <1>5 DEF step_end, block
  <1>7. ChosenBlock(prog, fold, pc)
          = IF fold # "none" /\ Folds(fold, block.kind) THEN block ELSE SingleBlock(pc)
    BY DEF ChosenBlock, block
  <1>8. SingleBlock(pc).kind = "single" /\ SingleBlock(pc).end = pc + 1
    BY DEF SingleBlock
  <1>9. fold \in {"none", "values", "pointers", "straight_line"}
    BY DEF Folding
  <1>10. CASE fold # "none" /\ Folds(fold, block.kind)
    BY <1>1, <1>3, <1>4, <1>6, <1>7, <1>9, <1>10 DEF Folds
  <1>11. CASE ~(fold # "none" /\ Folds(fold, block.kind))
    BY <1>4, <1>6, <1>7, <1>8, <1>9, <1>11 DEF Folds
  <1>12. QED
    BY <1>10, <1>11

(* Behind the last instruction of a text in the program.                   *)
Behind(pc) == IF pc > Len(prog.ops) THEN pc ELSE pc + 1

(* The printed text of a step leads, one instruction at a time, where the  *)
(* transition leads, and shows no event that its first state does not.     *)
StepWalk(fold, s, t, v, j) ==
    /\ j \in Nat \ {0}
    /\ print_step(s.pc, fold) \in Seq(Texts)
    /\ Len(print_step(s.pc, fold)) = j
    /\ Walks(v, print_step(s.pc, fold), j)
    /\ v[1] = s
    /\ v[j + 1] = t
    /\ s \notin Events => \A k \in 1..j : v[k] \notin Events
    /\ step_end(prog, s.pc, fold) = Behind(v[j].pc)

LEMMA OneInstruction ==
    ASSUME NEW s \in Single, NEW t \in Single, t \in NextOf(s)
    PROVE  Walks(<<s, t>>, <<TextAt(s)>>, 1)
  <1>1. <<s, t>> \in Seq(Single) /\ Len(<<s, t>>) = 2 /\ 1 + 1 = 2
    OBVIOUS
  <1>2. \A k \in 1..1 : k = 1
    OBVIOUS
  <1>3. <<s, t>>[1] = s /\ <<s, t>>[2] = t /\ <<TextAt(s)>>[1] = TextAt(s)
    OBVIOUS
  <1>4. QED
    BY <1>1, <1>2, <1>3 DEF Walks

LEMMA StepWalks ==
    ASSUME Fits(prog), NEW fold \in Folding, Shown(prog, fold, Events),
           NEW s \in States(prog, fold), NEW t \in After(prog, fold, s)
    PROVE  \E v, j : StepWalk(fold, s, t, v, j)
  <1> DEFINE last == Len(prog.ops)
             text == print_step(s.pc, fold)
  <1>1. /\ s \in Single /\ s \in KState(prog)
        /\ t \in States(prog, fold) /\ t \in Single
        /\ last \in Nat /\ prog.ops \in Seq(Instruction)
        /\ s.pc \in 1..(last + 1)
    <2>1. States(prog, fold) \subseteq Single /\ States(prog, fold) \subseteq KState(prog)
      BY FoldedInside, StatesFacts DEF Single
    <2>2. t \in States(prog, fold)
      BY StatesFacts DEF StaysIn
    <2>3. IsState(prog, s)
      BY StatesAtStart
    <2>4. QED
      BY <2>1, <2>2, <2>3 DEF Fits, IsProgram, IsState
  <1>2. is_end(prog, s.pc) <=> s.pc > last
    BY DEF is_end, instr_count
  <1>3. ASSUME t \in NextOf(s), text = <<TextAt(s)>>,
               step_end(prog, s.pc, fold) = Behind(s.pc), TextAt(s) \in Texts
        PROVE  StepWalk(fold, s, t, <<s, t>>, 1)
    <2> DEFINE v == <<s, t>>
    <2>1. Walks(v, text, 1)
      BY <1>1, <1>3, OneInstruction
    <2>2. v[1] = s /\ v[1 + 1] = t
      OBVIOUS
    <2>3. text \in Seq(Texts) /\ Len(text) = 1
      BY <1>3
    <2>4. \A k \in 1..1 : k = 1
      OBVIOUS
    <2> HIDE DEF v, text
    <2>5. StepWalk(fold, s, t, v, 1)
      BY <1>3, <2>1, <2>2, <2>3, <2>4 DEF StepWalk, text
    <2>6. QED
      BY <2>5 DEF v
  <1>4. CASE AppliesOne(prog, fold, s) /\ is_end(prog, s.pc)
    <2>1. text = <<"halt">> /\ step_end(prog, s.pc, fold) = s.pc
      BY <1>4 DEF print_step, step_end
    <2>2. TextAt(s) = "halt" /\ Behind(s.pc) = s.pc
      BY <1>2, <1>4 DEF TextAt, Behind
    <2>3. t \in NextOf(s)
      BY <1>4 DEF AppliesOne, NextOf
    <2>4. QED
      BY <1>3, <2>1, <2>2, <2>3 DEF Texts
  <1>5. CASE AppliesOne(prog, fold, s) /\ ~is_end(prog, s.pc)
    <2>1. s.pc \in 1..last /\ ~(s.pc > last)
      BY <1>1, <1>2, <1>5
    <2>2. step_end(prog, s.pc, fold) = s.pc + 1
      BY <1>5, <2>1, StepEnd DEF AppliesOne
    <2>3. TextAt(s) = prog.ops[s.pc] /\ Behind(s.pc) = s.pc + 1 /\ prog.ops[s.pc] \in Instruction
      BY <1>1, <2>1 DEF TextAt, Behind
    <2>4. text = <<prog.ops[s.pc]>>
      <3>1. text = SubSeq(prog.ops, s.pc, (s.pc + 1) - 1)
        BY <1>5, <2>2 DEF print_step
      <3>2. (s.pc + 1) - 1 = s.pc
        BY <2>1
      <3>3. SubSeq(prog.ops, s.pc, s.pc) = <<prog.ops[s.pc]>>
        <4> DEFINE one == SubSeq(prog.ops, s.pc, s.pc)
        <4>1. one \in Seq(Instruction) /\ Len(one) = 1 /\ one[1] = prog.ops[s.pc]
          <5>1. /\ s.pc \in 1..Len(prog.ops) /\ s.pc \in s.pc..Len(prog.ops)
                /\ s.pc - s.pc + 1 = 1 /\ s.pc + 1 - 1 = s.pc /\ 1 \in 1..1
            BY <1>1, <2>1
          <5>2. /\ one \in Seq(Instruction) /\ Len(one) = s.pc - s.pc + 1
                /\ \A k \in 1..(s.pc - s.pc + 1) : one[k] = prog.ops[s.pc + k - 1]
            BY <1>1, <5>1, SubSeqFacts
          <5> HIDE DEF one
          <5>3. QED
            BY <5>1, <5>2
        <4> HIDE DEF one
        <4>2. \A a \in Seq(Instruction) : Len(a) = 1 => a = <<a[1]>>
          OBVIOUS
        <4>3. QED
          BY <4>1, <4>2 DEF one
      <3>4. QED
        BY <3>1, <3>2, <3>3
    <2>5. t \in NextOf(s)
      BY <1>5 DEF AppliesOne, NextOf
    <2>6. QED
      BY <1>3, <2>2, <2>3, <2>4, <2>5 DEF Texts
  <1>6. ASSUME NEW n, NEW path, Unfolds(prog, fold, s, n, path)
        PROVE  \E v, j : StepWalk(fold, s, t, v, j)
    <2> DEFINE j == n - 1
               pc == s.pc
    <2>1. /\ n \in Nat /\ n >= 2 /\ pc \in 1..last /\ path \in [1..n -> KState(prog)]
          /\ path[1] = s /\ t = path[n]
          /\ \A k \in 1..(n - 1) : After(prog, "none", path[k]) = {path[k + 1]}
          /\ ChosenBlock(prog, fold, pc).kind # "single"
          /\ ChosenBlock(prog, fold, pc).end = pc + n - 1
          /\ \A k \in 1..n : path[k].pc = pc + k - 1
      BY <1>6 DEF Unfolds
    <2>2. pc + n - 1 \in (pc + 1)..(last + 1)
      BY <2>1, ChosenRun DEF Fits
    <2>3. step_end(prog, pc, fold) = pc + n - 1
      BY <2>1, StepEnd
    <2>4. j \in Nat \ {0} /\ j + 1 = n /\ (pc + n - 1) - 1 = pc + j - 1 /\ pc + j - 1 \in pc..last
      <3>1. /\ pc \in 1..last /\ n \in Nat /\ n >= 2 /\ last \in Nat
            /\ pc + n - 1 \in (pc + 1)..(last + 1)
        BY <1>1, <2>1, <2>2
      <3>2. QED
        BY ONLY <3>1 DEF j
    <2>5. text = SubSeq(prog.ops, pc, pc + j - 1)
      <3>1. ~is_end(prog, pc)
        BY <1>1, <1>2, <2>1
      <3>2. text = SubSeq(prog.ops, pc, (pc + n - 1) - 1)
        BY <2>3, <3>1 DEF print_step
      <3>3. QED
        BY <2>4, <3>2
    <2>6. /\ text \in Seq(Instruction) /\ Len(text) = j
          /\ \A k \in 1..j : text[k] = prog.ops[pc + k - 1]
      <3>1. pc \in 1..last /\ pc + j - 1 \in 1..last /\ (pc + j - 1) - pc + 1 = j
        BY <2>1, <2>4
      <3> HIDE DEF text, j, pc
      <3>2. /\ SubSeq(prog.ops, pc, pc + j - 1) \in Seq(Instruction)
            /\ Len(SubSeq(prog.ops, pc, pc + j - 1)) = (pc + j - 1) - pc + 1
            /\ \A k \in 1..((pc + j - 1) - pc + 1) :
                  SubSeq(prog.ops, pc, pc + j - 1)[k] = prog.ops[pc + k - 1]
        BY <1>1, <2>4, <3>1, SubSeqFacts
      <3>3. QED
        BY <2>5, <3>1, <3>2
    <2>7. \A k \in 1..n : path[k] \in Single
      <3> DEFINE N == Single
      <3>1. StaysIn(prog, "none", N) /\ path[1] \in N
        BY <1>1, <2>1, StatesFacts DEF Folding, Single
      <3>2. Passes(prog, N) /\ 1 \in 1..n
        BY <2>1, <3>1, PassesFacts
      <3> HIDE DEF N
      <3>3. \A k \in 1..n : path[k] \in N
        BY <1>6, <3>1, <3>2, Along
      <3>4. QED
        BY <3>3 DEF N
    <2>8. path \in Seq(Single) /\ Len(path) = n
      <3>1. path \in [1..n -> Single]
        BY <2>1, <2>7
      <3>2. QED
        BY <2>1, <3>1
    <2>9. \A k \in 1..j : TextAt(path[k]) = text[k]
      <3> SUFFICES ASSUME NEW k \in 1..j PROVE TextAt(path[k]) = text[k]
        OBVIOUS
      <3>1. path[k].pc = pc + k - 1 /\ ~(pc + k - 1 > last)
        <4>1. k \in 1..n
          BY <2>4
        <4>2. ~(pc + k - 1 > last)
          BY <1>1, <2>1, <2>4
        <4>3. QED
          BY <2>1, <4>1, <4>2
      <3>2. QED
        BY <2>6, <3>1 DEF TextAt
    <2>10. Walks(path, text, j)
      <3>1. \A k \in 1..j : path[k + 1] \in NextOf(path[k])
        BY <2>1 DEF NextOf
      <3> HIDE DEF text, j
      <3>2. QED
        BY <2>4, <2>8, <2>9, <3>1 DEF Walks
    <2>11. s \notin Events => \A k \in 1..j : path[k] \notin Events
      <3> SUFFICES ASSUME s \notin Events, NEW k \in 1..j PROVE path[k] \notin Events
        OBVIOUS
      <3>1. CASE k = 1
        BY <2>1, <3>1
      <3>2. CASE k # 1
        <4>1. k \in 2..(n - 1)
          BY <2>1, <3>2
        <4>2. QED
          BY <1>6, <4>1 DEF Shown
      <3>3. QED
        BY <3>1, <3>2
    <2>12. step_end(prog, pc, fold) = Behind(path[j].pc)
      <3>1. j \in 1..n /\ pc + j - 1 <= last /\ (pc + j - 1) + 1 = pc + n - 1
        BY <1>1, <2>1, <2>4
      <3>2. path[j].pc = pc + j - 1 /\ ~(pc + j - 1 > last)
        <4> HIDE DEF j, pc, last
        <4>1. path[j].pc = pc + j - 1
          BY <2>1, <3>1
        <4>2. ~(pc + j - 1 > last)
          BY <1>1, <2>1, <2>4, <3>1 DEF pc, j
        <4>3. QED
          BY <4>1, <4>2
      <3> HIDE DEF j, pc
      <3>3. QED
        BY <2>3, <3>1, <3>2 DEF Behind
    <2>13. text \in Seq(Texts)
      BY <2>6 DEF Texts
    <2> HIDE DEF j, text
    <2>14. StepWalk(fold, s, t, path, j)
      BY <2>1, <2>4, <2>6, <2>10, <2>11, <2>12, <2>13 DEF StepWalk, text
    <2>15. QED
      BY <2>14
  <1>7. AppliesOne(prog, fold, s) \/ \E n, path : Unfolds(prog, fold, s, n, path)
    BY FoldedStep
  <1>8. QED
    BY <1>4, <1>5, <1>6, <1>7, <1>3, <1>1

(* The printed text of the first n steps of the run z: step i begins       *)
(* behind character at[i - 1], in the state z[i].                          *)
Runs(fold, z, text, at, n, u) ==
    /\ Walks(u, text, at[n])
    /\ \A i \in 0..n :
          /\ at[i] <= at[n]
          /\ u[at[i] + 1] = z[i + 1]
          /\ (\A k \in 1..i : z[k] \notin Events) => \A k \in 1..at[i] : u[k] \notin Events
    /\ \A i \in 1..n : at[i] # 0 /\ step_end(prog, z[i].pc, fold) = Behind(u[at[i]].pc)

LEMMA RunExtends ==
    ASSUME Fits(prog), NEW fold \in Folding, Shown(prog, fold, Events),
           NEW N \in Nat, NEW z, NEW text, NEW at \in [0..N -> Nat], NEW n \in 1..N,
           z[n] \in States(prog, fold), z[n + 1] \in After(prog, fold, z[n]),
           at[n] = at[n - 1] + Len(print_step(z[n].pc, fold)),
           \A k \in 1..Len(print_step(z[n].pc, fold)) :
               text[at[n - 1] + k] = print_step(z[n].pc, fold)[k],
           NEW u, Runs(fold, z, text, at, n - 1, u)
    PROVE  \E w : Runs(fold, z, text, at, n, w)
  <1> DEFINE m == at[n - 1]
             part == print_step(z[n].pc, fold)
  <1>1. n - 1 \in 0..N /\ n \in 0..N /\ n - 1 \in 0..(n - 1) /\ (n - 1) + 1 = n
    OBVIOUS
  <1>2. m \in Nat /\ at[n] \in Nat
    BY <1>1
  <1>3. PICK v, j : StepWalk(fold, z[n], z[n + 1], v, j)
    BY StepWalks
  <1>4. /\ j \in Nat \ {0} /\ Len(part) = j
        /\ Walks(v, part, j) /\ v[1] = z[n] /\ v[j + 1] = z[n + 1]
        /\ z[n] \notin Events => \A k \in 1..j : v[k] \notin Events
        /\ step_end(prog, z[n].pc, fold) = Behind(v[j].pc)
    BY <1>3 DEF StepWalk
  <1>5. /\ Walks(u, text, m) /\ u[m + 1] = z[n]
        /\ \A i \in 0..(n - 1) :
              /\ at[i] <= m
              /\ u[at[i] + 1] = z[i + 1]
              /\ (\A k \in 1..i : z[k] \notin Events) => \A k \in 1..at[i] : u[k] \notin Events
        /\ \A i \in 1..(n - 1) :
              at[i] # 0 /\ step_end(prog, z[i].pc, fold) = Behind(u[at[i]].pc)
    BY <1>1 DEF Runs
  <1>6. at[n] = m + j /\ \A k \in 1..j : text[m + k] = part[k]
    BY <1>4
  <1> HIDE DEF m, part
  <1>7. PICK w : /\ Walks(w, text, m + j)
                 /\ \A k \in 1..(m + 1) : w[k] = u[k]
                 /\ \A k \in 1..(j + 1) : w[m + k] = v[k]
    <2>1. GoesOn(text, m, u, part, j, v)
      BY <1>2, <1>4, <1>5, <1>6 DEF GoesOn
    <2>2. QED
      BY <2>1, WalksOn DEF Joined
  <1>8. w[at[n] + 1] = z[n + 1] /\ w[at[n]] = v[j]
    <2>1. j + 1 \in 1..(j + 1) /\ j \in 1..(j + 1) /\ at[n] + 1 = m + (j + 1)
      BY <1>2, <1>4, <1>6
    <2>2. QED
      BY <1>4, <1>6, <1>7, <2>1
  <1>9. ASSUME \A k \in 1..n : z[k] \notin Events, NEW k \in 1..at[n]
        PROVE  w[k] \notin Events
    <2>1. CASE k <= m
      <3>1. k \in 1..m /\ k \in 1..(m + 1)
        BY <1>2, <2>1
      <3>2. \A i \in 1..(n - 1) : z[i] \notin Events
        BY <1>9
      <3>3. u[k] \notin Events
        BY <1>1, <1>5, <3>1, <3>2 DEF m
      <3>4. QED
        BY <1>7, <3>1, <3>3
    <2>2. CASE ~(k <= m)
      <3>1. k - m \in 1..j /\ k - m \in 1..(j + 1) /\ m + (k - m) = k
        BY <1>2, <1>4, <1>6, <2>2
      <3>2. w[k] = v[k - m]
        BY <1>7, <3>1
      <3>3. z[n] \notin Events
        BY <1>9
      <3>4. QED
        BY <1>4, <3>1, <3>2, <3>3
    <2>3. QED
      BY <2>1, <2>2
  <1>10. ASSUME NEW i \in 0..n
         PROVE  /\ at[i] <= at[n]
                /\ w[at[i] + 1] = z[i + 1]
                /\ (\A k \in 1..i : z[k] \notin Events) => \A k \in 1..at[i] : w[k] \notin Events
    <2>1. CASE i = n
      BY <1>2, <1>8, <1>9, <2>1
    <2>2. CASE i # n
      <3>1. i \in 0..(n - 1) /\ at[i] \in Nat
        BY <1>1, <2>2
      <3>2. at[i] <= m
        BY <1>5, <3>1
      <3>3. /\ at[i] <= at[n] /\ at[i] + 1 \in 1..(m + 1)
            /\ \A k \in 1..at[i] : k \in 1..(m + 1)
        BY <1>2, <1>4, <1>6, <3>1, <3>2
      <3>4. w[at[i] + 1] = u[at[i] + 1] /\ \A k \in 1..at[i] : w[k] = u[k]
        BY <1>7, <3>3
      <3>5. QED
        BY <1>5, <3>1, <3>3, <3>4
    <2>3. QED
      BY <2>1, <2>2
  <1>11. ASSUME NEW i \in 1..n
         PROVE  at[i] # 0 /\ step_end(prog, z[i].pc, fold) = Behind(w[at[i]].pc)
    <2>1. CASE i = n
      BY <1>2, <1>4, <1>6, <1>8, <2>1
    <2>2. CASE i # n
      <3>1. i \in 1..(n - 1) /\ i \in 0..(n - 1) /\ at[i] \in Nat
        BY <1>1, <2>2
      <3>2. at[i] <= m /\ at[i] # 0
        BY <1>5, <3>1
      <3>3. at[i] \in 1..(m + 1)
        BY <1>2, <3>1, <3>2
      <3>4. QED
        BY <1>5, <1>7, <3>1, <3>3
    <2>3. QED
      BY <2>1, <2>2
  <1>12. Walks(w, text, at[n])
    BY <1>6, <1>7
  <1>13. Runs(fold, z, text, at, n, w)
    BY <1>10, <1>11, <1>12 DEF Runs
  <1>14. QED
    BY <1>13

(* The states of a run, and one that the last of them leads to.            *)
Legal(fold, states, t) ==
    /\ states \in Seq(States(prog, fold))
    /\ t \in States(prog, fold)
    /\ Follow(prog, fold, Append(states, t))

Places(fold, states, text, at) ==
    /\ at \in [0..Len(states) -> Nat]
    /\ at[0] = 0
    /\ at[Len(states)] = Len(text)
    /\ \A n \in 1..Len(states) :
          /\ at[n] = at[n - 1] + Len(print_step(states[n].pc, fold))
          /\ \A k \in 1..Len(print_step(states[n].pc, fold)) :
                text[at[n - 1] + k] = print_step(states[n].pc, fold)[k]

(* What is printed of a run can be executed.                               *)
LEMMA RunWalks ==
    ASSUME Fits(prog), NEW fold \in Folding, Shown(prog, fold, Events),
           NEW states, NEW t, Legal(fold, states, t)
    PROVE  /\ StepsText(states, fold) \in Seq(Texts)
           /\ \E at, u :
                 /\ Places(fold, states, StepsText(states, fold), at)
                 /\ Runs(fold, Append(states, t), StepsText(states, fold), at, Len(states), u)
  <1> DEFINE N == Len(states)
             z == Append(states, t)
             seqs == [n \in 1..N |-> print_step(states[n].pc, fold)]
             text == StepsText(states, fold)
  <1>1. /\ states \in Seq(States(prog, fold)) /\ t \in States(prog, fold)
        /\ N \in Nat /\ DOMAIN states = 1..N
    BY DEF Legal
  <1>2. /\ z \in Seq(States(prog, fold)) /\ Len(z) = N + 1
        /\ \A n \in 1..N : z[n] = states[n]
        /\ z[N + 1] = t
        /\ \A n \in 1..(N + 1) : z[n] \in States(prog, fold)
    <2>1. /\ z \in Seq(States(prog, fold)) /\ Len(z) = N + 1
          /\ \A n \in 1..N : z[n] = states[n]
          /\ z[N + 1] = t
      BY <1>1, AppendFacts
    <2> HIDE DEF z
    <2>2. \A n \in 1..(N + 1) : z[n] \in States(prog, fold)
      BY <2>1
    <2>3. QED
      BY <2>1, <2>2
  <1>3. ASSUME NEW n \in 1..N
        PROVE  z[n + 1] \in After(prog, fold, z[n])
    <2>1. \A i \in 1..(Len(z) - 1) : z[i + 1] \in After(prog, fold, z[i])
      BY DEF Legal, Follow
    <2> HIDE DEF z
    <2>2. n \in 1..(Len(z) - 1)
      BY <1>1, <1>2
    <2>3. QED
      BY <2>1, <2>2
  <1>4. seqs \in Seq(Seq(Texts)) /\ Len(seqs) = N
    <2>1. \A n \in 1..N : print_step(states[n].pc, fold) \in Seq(Texts)
      <3> SUFFICES ASSUME NEW n \in 1..N PROVE print_step(states[n].pc, fold) \in Seq(Texts)
        OBVIOUS
      <3>1. z[n] = states[n] /\ z[n] \in States(prog, fold) /\ z[n + 1] \in After(prog, fold, z[n])
        BY <1>1, <1>2, <1>3
      <3> HIDE DEF z
      <3>2. \E v, j : StepWalk(fold, z[n], z[n + 1], v, j)
        BY <3>1, StepWalks
      <3>3. print_step(z[n].pc, fold) \in Seq(Texts)
        BY <3>2 DEF StepWalk
      <3>4. QED
        BY <3>1, <3>3
    <2>2. QED
      BY <1>1, <2>1
  <1>5. text = FlattenSeq(seqs)
    BY <1>1 DEF StepsText
  <1>6. \A n \in 1..N : seqs[n] = print_step(states[n].pc, fold)
    OBVIOUS
  <1> HIDE DEF seqs, text, z
  <1>7. text \in Seq(Texts)
    BY <1>4, <1>5, FlattenPlaces
  <1>8. PICK at \in [0..Len(seqs) -> Nat] :
           /\ at[0] = 0
           /\ \A n \in 1..Len(seqs) : at[n] = at[n - 1] + Len(seqs[n])
           /\ at[Len(seqs)] = Len(FlattenSeq(seqs))
           /\ \A n \in 1..Len(seqs) : \A k \in 1..Len(seqs[n]) :
                 /\ at[n - 1] + k \in 1..Len(FlattenSeq(seqs))
                 /\ FlattenSeq(seqs)[at[n - 1] + k] = seqs[n][k]
    BY <1>4, FlattenPlaces
  <1>9. Places(fold, states, text, at)
    <2>1. \A n \in 1..N :
             /\ at[n] = at[n - 1] + Len(print_step(states[n].pc, fold))
             /\ \A k \in 1..Len(print_step(states[n].pc, fold)) :
                   text[at[n - 1] + k] = print_step(states[n].pc, fold)[k]
      BY <1>4, <1>5, <1>6, <1>8
    <2>2. at \in [0..N -> Nat] /\ at[0] = 0 /\ at[N] = Len(text)
      BY <1>4, <1>5, <1>8
    <2>3. QED
      BY <2>1, <2>2 DEF Places
  <1> DEFINE Bad == {n \in 0..N : ~ \E u : Runs(fold, z, text, at, n, u)}
  <1>10. Runs(fold, z, text, at, 0, <<z[1]>>)
    <2> DEFINE one == <<z[1]>>
    <2>1. z[1] \in Single
      <3>1. 1 \in 1..(N + 1)
        BY <1>1
      <3>2. QED
        BY <1>2, <3>1, FoldedInside DEF Single
    <2>2. one \in Seq(Single) /\ Len(one) = 1 /\ one[1] = z[1]
      BY <2>1
    <2>3. at[0] = 0 /\ 0 + 1 = 1 /\ (\A i \in 0..0 : i = 0)
          /\ \A k : k \notin 1..0
      BY <1>8
    <2> HIDE DEF one
    <2>4. Walks(one, text, at[0])
      BY <2>2, <2>3 DEF Walks
    <2>5. Runs(fold, z, text, at, 0, one)
      BY <2>2, <2>3, <2>4 DEF Runs
    <2>6. QED
      BY <2>5 DEF one
  <1>11. Bad = {}
    <2> SUFFICES ASSUME Bad # {} PROVE FALSE
      OBVIOUS
    <2>1. PICK n \in Bad : \A i \in Bad : n <= i
      <3>1. Bad \in SUBSET Nat
        OBVIOUS
      <3> HIDE DEF Bad
      <3>2. QED
        BY <3>1, LeastElement
    <2>2. n \in 0..N /\ ~ \E u : Runs(fold, z, text, at, n, u)
      OBVIOUS
    <2>3. n # 0
      BY <1>10, <2>2
    <2>4. n \in 1..N /\ n - 1 \in 0..N /\ ~(n <= n - 1)
      BY <1>1, <2>2, <2>3
    <2>5. PICK u : Runs(fold, z, text, at, n - 1, u)
      BY <2>1, <2>4
    <2> HIDE DEF Bad
    <2>6. /\ at[n] = at[n - 1] + Len(print_step(z[n].pc, fold))
          /\ \A k \in 1..Len(print_step(z[n].pc, fold)) :
                text[at[n - 1] + k] = print_step(z[n].pc, fold)[k]
      BY <1>2, <1>9, <2>4 DEF Places
    <2>7. z[n] \in States(prog, fold) /\ z[n + 1] \in After(prog, fold, z[n])
      BY <1>1, <1>2, <1>3, <2>4
    <2>8. at \in [0..N -> Nat] /\ N \in Nat
      BY <1>1, <1>4, <1>8
    <2> HIDE DEF N
    <2>9. \E w : Runs(fold, z, text, at, n, w)
      BY <2>4, <2>5, <2>6, <2>7, <2>8, RunExtends
    <2>10. QED
      BY <2>2, <2>9
  <1>12. \E u : Runs(fold, z, text, at, N, u)
    <2>1. N \in 0..N
      BY <1>1
    <2>2. QED
      BY <1>11, <2>1
  <1>13. QED
    BY <1>7, <1>9, <1>12 DEF z, text

(* A path from a reachable state is reachable.                             *)
LEMMA PathInside ==
    ASSUME Fits(prog), NEW fold \in Folding, NEW path, Len(path) \in Nat,
           path[1] \in States(prog, fold), Follow(prog, fold, path)
    PROVE  \A i \in 1..Len(path) : path[i] \in States(prog, fold)
  <1> DEFINE Bad == {i \in 1..Len(path) : path[i] \notin States(prog, fold)}
  <1> SUFFICES ASSUME Bad # {} PROVE FALSE
    OBVIOUS
  <1>1. PICK i \in Bad : \A j \in Bad : i <= j
    <2>1. Bad \in SUBSET Nat /\ Bad # {}
      OBVIOUS
    <2> HIDE DEF Bad
    <2>2. QED
      BY <2>1, LeastElement
  <1>2. i \in 1..Len(path) /\ path[i] \notin States(prog, fold) /\ i # 1
    OBVIOUS
  <1>3. i - 1 \in 1..Len(path) /\ i - 1 \in 1..(Len(path) - 1) /\ (i - 1) + 1 = i /\ ~(i <= i - 1)
    BY <1>2
  <1>4. path[i - 1] \in States(prog, fold)
    BY <1>1, <1>3
  <1> HIDE DEF Bad
  <1>5. path[i] \in After(prog, fold, path[i - 1])
    BY <1>3 DEF Follow
  <1>6. StaysIn(prog, fold, States(prog, fold))
    BY StatesFacts
  <1>7. QED
    BY <1>2, <1>4, <1>5, <1>6 DEF StaysIn

(* A lasso of reachable states that has no event on its cycle, nor before  *)
(* it unless the question is what happens again and again.                 *)
LassoRun(fold, run, often) ==
    /\ run.cycle # << >>
    /\ Legal(fold, run.prefix, run.cycle[1])
    /\ Legal(fold, run.cycle, run.cycle[1])
    /\ Append(run.prefix, run.cycle[1])[1] = initial_state(prog)
    /\ \A k \in 1..Len(run.cycle) : run.cycle[k] \notin Events
    /\ ~often => \A k \in 1..Len(run.prefix) : run.prefix[k] \notin Events

(* A path and a state that comes after it.                                 *)
LEMMA LegalRun ==
    ASSUME NEW fold, NEW states \in Seq(States(prog, fold)), NEW t \in States(prog, fold),
           Follow(prog, fold, states),
           states # << >> => t \in After(prog, fold, states[Len(states)])
    PROVE  Legal(fold, states, t)
  <1> DEFINE F == States(prog, fold)
             z == Append(states, t)
             N == Len(states)
  <1>1. N \in Nat /\ (N # 0 => states # << >>)
    OBVIOUS
  <1>2. Len(z) = N + 1 /\ z[N + 1] = t /\ \A i \in 1..N : z[i] = states[i]
    <2> HIDE DEF F
    <2>1. states \in Seq(F) /\ t \in F
      BY DEF F
    <2>2. QED
      BY <2>1, AppendFacts
  <1>3. \A i \in 1..(N - 1) : states[i + 1] \in After(prog, fold, states[i])
    BY DEF Follow
  <1> HIDE DEF z, N
  <1>4. ASSUME NEW i \in 1..N PROVE z[i + 1] \in After(prog, fold, z[i])
    <2>1. CASE i = N
      <3>1. z[i + 1] = t /\ z[i] = states[N] /\ states # << >>
        BY <1>1, <1>2, <2>1
      <3>2. QED
        BY <3>1 DEF N
    <2>2. CASE i # N
      <3>1. i \in 1..(N - 1) /\ i + 1 \in 1..N
        BY <1>1, <2>2
      <3>2. QED
        BY <1>2, <1>3, <3>1
    <2>3. QED
      BY <2>1, <2>2
  <1>5. Len(z) - 1 = N
    BY <1>1, <1>2
  <1>6. Follow(prog, fold, z)
    BY <1>4, <1>5 DEF Follow
  <1>7. QED
    BY <1>6 DEF Legal, z

(* A path that comes back is a lasso run.                                  *)
LEMMA ClosesLegal ==
    ASSUME Fits(prog), NEW fold \in Folding, NEW q, NEW e,
           Closes(prog, fold, Uneventful(fold), q, e)
    PROVE  /\ Lasso(q, e).cycle # << >>
           /\ Lasso(q, e).cycle[1] = q[e]
           /\ Legal(fold, Lasso(q, e).prefix, q[e])
           /\ Legal(fold, Lasso(q, e).cycle, q[e])
           /\ \A k \in 1..Len(Lasso(q, e).cycle) : Lasso(q, e).cycle[k] \notin Events
           /\ \A k \in 1..Len(Lasso(q, e).prefix) : Lasso(q, e).prefix[k] \notin Events
           /\ Append(Lasso(q, e).prefix, q[e])[1] = q[1]
  <1> DEFINE F == States(prog, fold)
             pre == SubSeq(q, 1, e - 1)
             cyc == SubSeq(q, e, Len(q))
             n == Len(q) - e + 1
  <1>1. /\ Len(q) \in Nat /\ e \in 1..Len(q)
        /\ \A i \in 1..(Len(q) - 1) : q[i + 1] \in After(prog, fold, q[i])
        /\ \A i \in 1..Len(q) : q[i] \in F /\ q[i] \notin Events
        /\ q[e] \in After(prog, fold, q[Len(q)])
    BY DEF Closes, Trail, Paths, Last, Follow, Uneventful
  <1>2. q \in Seq(F)
    <2>1. q \in [1..Len(q) -> F]
      <3>1. q \in Seq(KState(prog))
        BY DEF Closes, Trail, Paths
      <3> HIDE DEF F
      <3>2. QED
        BY <1>1, <3>1
    <2>2. QED
      BY <1>1, <2>1
  <1> HIDE DEF F
  <1>3. /\ pre \in Seq(F) /\ Len(pre) = e - 1
        /\ \A i \in 1..(e - 1) : pre[i] = q[i]
    BY <1>1, <1>2
  <1>4. /\ cyc \in Seq(F) /\ Len(cyc) = n
        /\ \A i \in 1..n : cyc[i] = q[e + i - 1]
    <2>1. e \in 1..Len(q) /\ Len(q) \in e..Len(q)
      BY <1>1
    <2>2. QED
      BY <1>2, <2>1, SubSeqFacts
  <1>5. Lasso(q, e).prefix = pre /\ Lasso(q, e).cycle = cyc
    BY DEF Lasso
  <1> HIDE DEF pre, cyc
  <1>6. /\ n \in Nat /\ n # 0 /\ e + n - 1 = Len(q) /\ e + 1 - 1 = e
        /\ \A i \in 1..n : e + i - 1 \in 1..Len(q)
        /\ \A i \in 1..(n - 1) : /\ i \in 1..n /\ i + 1 \in 1..n
                                 /\ e + i - 1 \in 1..(Len(q) - 1)
                                 /\ e + (i + 1) - 1 = (e + i - 1) + 1
    BY <1>1
  <1> HIDE DEF n
  <1>7. cyc # << >> /\ cyc[1] = q[e] /\ cyc[n] = q[Len(q)]
    <2>1. 1 \in 1..n /\ n \in 1..n
      BY <1>6
    <2>2. cyc # << >>
      BY <1>4, <1>6
    <2>3. QED
      BY <1>4, <1>6, <2>1, <2>2
  <1>8. Follow(prog, fold, cyc)
    <2>1. \A i \in 1..(n - 1) : cyc[i + 1] = q[(e + i - 1) + 1] /\ cyc[i] = q[e + i - 1]
      BY <1>4, <1>6
    <2>2. \A i \in 1..(n - 1) : cyc[i + 1] \in After(prog, fold, cyc[i])
      BY <1>1, <1>6, <2>1
    <2>3. QED
      BY <1>4, <2>2 DEF Follow
  <1>9. q[e] \in F
    BY <1>1
  <1>10. Legal(fold, cyc, q[e])
    BY <1>1, <1>4, <1>7, <1>8, <1>9, LegalRun DEF F
  <1>11. /\ \A i \in 1..((e - 1) - 1) : /\ i \in 1..(e - 1) /\ i + 1 \in 1..(e - 1)
                                        /\ i \in 1..(Len(q) - 1)
         /\ \A i \in 1..(e - 1) : i \in 1..Len(q)
         /\ e # 1 => /\ e - 1 \in 1..(e - 1) /\ e - 1 \in 1..(Len(q) - 1) /\ (e - 1) + 1 = e
                     /\ 1 \in 1..(e - 1)
    BY <1>1
  <1>12. Follow(prog, fold, pre)
    BY <1>1, <1>3, <1>11 DEF Follow
  <1>13. pre # << >> => e # 1
    BY <1>3
  <1>14. Legal(fold, pre, q[e])
    <2>1. pre # << >> => q[e] \in After(prog, fold, pre[Len(pre)])
      BY <1>1, <1>3, <1>11, <1>13
    <2>2. QED
      BY <1>3, <1>9, <1>12, <2>1, LegalRun DEF F
  <1>15. Append(pre, q[e])[1] = q[1]
    <2>1. CASE e = 1
      <3>1. Len(pre) = 0 /\ Append(pre, q[e])[Len(pre) + 1] = q[e]
        BY <1>3, <1>9, <2>1, AppendFacts
      <3>2. QED
        BY <2>1, <3>1
    <2>2. CASE e # 1
      <3>1. 1 \in 1..Len(pre)
        BY <1>3, <1>11, <2>2
      <3>2. Append(pre, q[e])[1] = pre[1]
        BY <1>3, <1>9, <3>1, AppendFacts
      <3>3. QED
        BY <1>3, <1>11, <2>2, <3>2
    <2>3. QED
      BY <2>1, <2>2
  <1>16. \A k \in 1..Len(cyc) : cyc[k] \notin Events
    BY <1>1, <1>4, <1>6
  <1>17. \A k \in 1..Len(pre) : pre[k] \notin Events
    BY <1>1, <1>3, <1>11
  <1>18. QED
    BY <1>5, <1>7, <1>10, <1>14, <1>15, <1>16, <1>17

LEMMA AlwaysRuns ==
    ASSUME Fits(prog), NEW fold \in Folding,
           NEW run \in search_always(prog, fold, Uneventful(fold))
    PROVE  LassoRun(fold, run, FALSE)
  <1> DEFINE holds == Uneventful(fold)
             entry == initial_state(prog)
  <1>1. holds \in SUBSET KState(prog)
    BY StatesFacts DEF Uneventful
  <1> HIDE DEF holds
  <1>2. entry \in holds /\ run \in Lassos(prog, fold, holds, entry)
    <2>1. run \in search_always(prog, fold, holds)
      BY DEF holds
    <2>2. QED
      BY <2>1 DEF search_always
  <1>3. PICK q, e : Closes(prog, fold, holds, q, e) /\ q[1] = entry /\ run = Lasso(q, e)
    BY <1>1, <1>2, LassosFacts
  <1>4. QED
    BY <1>3, ClosesLegal DEF LassoRun, holds

LEMMA EventuallyAlwaysRuns ==
    ASSUME Fits(prog), NEW fold \in Folding,
           NEW run \in search_eventually_always(prog, fold, Uneventful(fold))
    PROVE  LassoRun(fold, run, TRUE)
  <1> DEFINE holds == Uneventful(fold)
             F == States(prog, fold)
             Here(entry) == {l \in Lassos(prog, fold, holds, entry) : l.prefix = << >>}
             RunsTo(entry) == {[prefix |-> Front(path), cycle |-> lasso.cycle] :
                                  path \in PathsTo(prog, fold, {entry}), lasso \in Here(entry)}
  <1>1. /\ holds \in SUBSET KState(prog) /\ holds \subseteq F
        /\ initial_state(prog) \in F /\ F \subseteq KState(prog)
    BY StatesFacts DEF Uneventful
  <1>2. search_eventually_always(prog, fold, holds) = UNION {RunsTo(entry) : entry \in holds}
    BY DEF search_eventually_always
  <1>3. PICK entry \in holds : run \in RunsTo(entry)
    <2> HIDE DEF RunsTo
    <2>1. run \in UNION {RunsTo(entry) : entry \in holds}
      BY <1>2
    <2>2. QED
      BY <2>1
  <1> HIDE DEF holds, Here
  <1>4. PICK path \in PathsTo(prog, fold, {entry}), lasso \in Here(entry) :
            run = [prefix |-> Front(path), cycle |-> lasso.cycle]
    BY <1>3
  <1>5. lasso \in Lassos(prog, fold, holds, entry) /\ lasso.prefix = << >>
    BY DEF Here
  <1>6. PICK q, e : Closes(prog, fold, holds, q, e) /\ q[1] = entry /\ lasso = Lasso(q, e)
    <2>1. \A l \in Lassos(prog, fold, holds, entry) : \E q, e :
             Closes(prog, fold, holds, q, e) /\ q[1] = entry /\ l = Lasso(q, e)
      BY <1>1, LassosFacts
    <2>2. QED
      BY <1>5, <2>1
  <1>7. e = 1
    <2>1. q \in Seq(KState(prog)) /\ e \in 1..Len(q)
      BY <1>6 DEF Closes, Trail, Paths
    <2>2. SubSeq(q, 1, e - 1) = << >>
      BY <1>5, <1>6 DEF Lasso
    <2>3. Len(SubSeq(q, 1, e - 1)) = e - 1
      BY <2>1
    <2>4. QED
      BY <2>1, <2>2, <2>3
  <1>8. /\ lasso.cycle # << >> /\ lasso.cycle[1] = entry
        /\ Legal(fold, lasso.cycle, entry)
        /\ \A k \in 1..Len(lasso.cycle) : lasso.cycle[k] \notin Events
    <2>1. Closes(prog, fold, Uneventful(fold), q, e)
      BY <1>6 DEF holds
    <2>2. QED
      BY <1>6, <1>7, <2>1, ClosesLegal
  <1>9. /\ path \in Paths(prog) /\ Last(path) = entry
        /\ path[1] = initial_state(prog) /\ Follow(prog, fold, path)
    BY PathsToFacts DEF GoesTo
  <1> DEFINE n == Len(path)
             pre == Front(path)
  <1>10. /\ path \in Seq(KState(prog)) /\ path # << >> /\ n \in Nat /\ n # 0 /\ path[n] = entry
    BY <1>9 DEF Paths, Last
  <1>11. \A i \in 1..n : path[i] \in F
    BY <1>1, <1>9, <1>10, PathInside
  <1>12. path \in Seq(F)
    <2> HIDE DEF F
    <2>1. QED
      BY <1>10, <1>11
  <1> HIDE DEF F
  <1>13. /\ pre \in Seq(F) /\ Len(pre) = n - 1
         /\ \A i \in 1..(n - 1) : pre[i] = path[i]
    <2>1. pre = SubSeq(path, 1, n - 1)
      BY DEF Front
    <2>2. CASE n = 1
      <3>1. pre = << >>
        BY <1>10, <1>12, <2>1, <2>2
      <3> HIDE DEF pre
      <3>2. QED
        BY <2>2, <3>1
    <2>3. CASE n # 1
      <3>1. 1 \in 1..n /\ n - 1 \in 1..n
        <4>1. n \in Nat /\ n # 0 /\ n # 1
          BY <1>10, <2>3
        <4> HIDE DEF n
        <4>2. QED
          BY ONLY <4>1
      <3>2. /\ SubSeq(path, 1, n - 1) \in Seq(F)
            /\ Len(SubSeq(path, 1, n - 1)) = (n - 1) - 1 + 1
            /\ \A k \in 1..((n - 1) - 1 + 1) : SubSeq(path, 1, n - 1)[k] = path[1 + k - 1]
        BY <1>12, <3>1, SubSeqFacts
      <3>3. (n - 1) - 1 + 1 = n - 1 /\ \A k \in 1..(n - 1) : 1 + k - 1 = k
        BY <1>10
      <3>4. QED
        BY <2>1, <3>2, <3>3
    <2>4. QED
      BY <2>2, <2>3
  <1> HIDE DEF pre
  <1>14. /\ \A i \in 1..(n - 1) : path[i + 1] \in After(prog, fold, path[i])
    BY <1>9 DEF Follow
  <1> HIDE DEF n
  <1>15. /\ \A i \in 1..((n - 1) - 1) : i \in 1..(n - 1) /\ i + 1 \in 1..(n - 1)
         /\ n # 1 => n - 1 \in 1..(n - 1) /\ (n - 1) + 1 = n /\ 1 \in 1..(n - 1)
    BY <1>10
  <1>16. Follow(prog, fold, pre)
    BY <1>13, <1>14, <1>15 DEF Follow
  <1>17. pre # << >> => n # 1
    BY <1>13
  <1>18. Legal(fold, pre, entry)
    <2>1. pre # << >> => entry \in After(prog, fold, pre[Len(pre)])
      BY <1>10, <1>13, <1>14, <1>15, <1>17
    <2>2. entry \in F
      BY <1>1
    <2>3. QED
      BY <1>13, <1>16, <2>1, <2>2, LegalRun DEF F
  <1>19. Append(pre, entry)[1] = initial_state(prog)
    <2>1. entry \in F
      BY <1>1
    <2>2. CASE n = 1
      <3>1. Len(pre) = 0 /\ Append(pre, entry)[Len(pre) + 1] = entry
        BY <1>13, <2>1, <2>2, AppendFacts
      <3>2. QED
        BY <1>9, <1>10, <2>2, <3>1
    <2>3. CASE n # 1
      <3>1. 1 \in 1..Len(pre)
        BY <1>13, <1>15, <2>3
      <3>2. Append(pre, entry)[1] = pre[1]
        BY <1>13, <2>1, <3>1, AppendFacts
      <3>3. QED
        BY <1>9, <1>13, <1>15, <2>3, <3>2
    <2>4. QED
      BY <2>2, <2>3
  <1>20. run.prefix = pre /\ run.cycle = lasso.cycle
    BY <1>4 DEF pre
  <1>21. QED
    BY <1>8, <1>18, <1>19, <1>20 DEF LassoRun

(* Texts one behind the other.                                             *)
LEMMA Concatenated ==
    ASSUME NEW S, NEW a \in Seq(S), NEW b \in Seq(S)
    PROVE  /\ a \o b \in Seq(S)
           /\ Len(a \o b) = Len(a) + Len(b)
           /\ \A k \in 1..Len(a) : (a \o b)[k] = a[k]
           /\ \A k \in 1..Len(b) : (a \o b)[Len(a) + k] = b[k]
  OBVIOUS

(* What LassoExecutes says of the output.                                  *)
PrintedLasso(out, often, highlight) ==
    \E path \in Executions(out.prefix \o out.cycle) :
        LET entry == Len(out.prefix) + 1
            last == path[Len(path) - 1].pc
        IN  /\ out.cycle # << >>
            /\ path[entry] = Last(path)
            /\ \A k \in (IF often THEN entry ELSE 1)..Len(path) : ~Event(path[k])
            /\ out.rest =
                  TextFrom(IF last > Len(prog.ops) THEN last ELSE last + 1, highlight)

LEMMA LassoText ==
    ASSUME Fits(prog), NEW fold \in Folding, Shown(prog, fold, Events),
           NEW run, NEW often \in BOOLEAN, LassoRun(fold, run, often), NEW highlight
    PROVE  PrintedLasso(print_run(run, fold, highlight), often, highlight)
  <1> DEFINE out == print_run(run, fold, highlight)
             pre == run.prefix
             cyc == run.cycle
             first == cyc[1]
             P == StepsText(pre, fold)
             C == StepsText(cyc, fold)
             m == Len(P)
             j == Len(C)
             n == Len(cyc)
             text == P \o C
  <1>1. /\ out.prefix = P /\ out.cycle = C
        /\ out.rest = TextFrom(step_end(prog, Last(cyc).pc, fold), highlight)
    BY DEF print_run
  <1>2. /\ cyc # << >>
        /\ Legal(fold, pre, first) /\ Legal(fold, cyc, first)
        /\ Append(pre, first)[1] = initial_state(prog)
        /\ \A k \in 1..n : cyc[k] \notin Events
        /\ ~often => \A k \in 1..Len(pre) : pre[k] \notin Events
    BY DEF LassoRun
  <1> HIDE DEF out, pre, cyc, first
  <1>3. /\ pre \in Seq(States(prog, fold)) /\ cyc \in Seq(States(prog, fold))
        /\ first \in States(prog, fold)
    BY <1>2 DEF Legal
  <1>4. /\ P \in Seq(Texts)
        /\ \E at, u : Places(fold, pre, P, at) /\ Runs(fold, Append(pre, first), P, at, Len(pre), u)
    BY <1>2, RunWalks
  <1>5. /\ C \in Seq(Texts)
        /\ \E at, v : Places(fold, cyc, C, at) /\ Runs(fold, Append(cyc, first), C, at, n, v)
    BY <1>2, RunWalks
  <1>6. PICK au, u : Places(fold, pre, P, au) /\ Runs(fold, Append(pre, first), P, au, Len(pre), u)
    BY <1>4
  <1>7. PICK av, v : Places(fold, cyc, C, av) /\ Runs(fold, Append(cyc, first), C, av, n, v)
    BY <1>5
  <1> HIDE DEF P, C
  <1>8. m \in Nat /\ j \in Nat
    BY <1>4, <1>5
  <1>9. /\ n \in Nat /\ n # 0 /\ Len(pre) \in Nat
    BY <1>2, <1>3
  <1>10. /\ \A k \in 1..Len(pre) : Append(pre, first)[k] = pre[k]
         /\ Append(pre, first)[Len(pre) + 1] = first
         /\ \A k \in 1..n : Append(cyc, first)[k] = cyc[k]
         /\ Append(cyc, first)[n + 1] = first
    BY <1>3, AppendFacts
  <1>11. /\ Walks(u, P, m) /\ u[1] = initial_state(prog) /\ u[m + 1] = first
         /\ ~often => \A k \in 1..m : u[k] \notin Events
    <2>1. /\ au[0] = 0 /\ au[Len(pre)] = m
      BY <1>6 DEF Places
    <2>2. 0 \in 0..Len(pre) /\ Len(pre) \in 0..Len(pre) /\ 0 + 1 = 1
      BY <1>9
    <2>3. /\ Walks(u, P, m)
          /\ u[m + 1] = Append(pre, first)[Len(pre) + 1]
          /\ u[0 + 1] = Append(pre, first)[0 + 1]
          /\ (\A k \in 1..Len(pre) : Append(pre, first)[k] \notin Events)
                => \A k \in 1..m : u[k] \notin Events
      <3> HIDE DEF m
      <3>1. QED
        BY <1>6, <2>1, <2>2 DEF Runs
    <2>4. QED
      BY <1>2, <1>10, <2>2, <2>3
  <1>12. /\ Walks(v, C, j) /\ v[1] = first /\ v[j + 1] = first /\ j # 0
         /\ \A k \in 1..j : v[k] \notin Events
         /\ step_end(prog, cyc[n].pc, fold) = Behind(v[j].pc)
    <2>1. /\ av[0] = 0 /\ av[n] = j
      BY <1>7 DEF Places
    <2>2. 0 \in 0..n /\ n \in 0..n /\ n \in 1..n /\ 1 \in 1..n /\ 0 + 1 = 1
      BY <1>9
    <2>3. /\ Walks(v, C, j)
          /\ v[j + 1] = Append(cyc, first)[n + 1]
          /\ v[0 + 1] = Append(cyc, first)[0 + 1]
          /\ (\A k \in 1..n : Append(cyc, first)[k] \notin Events)
                => \A k \in 1..j : v[k] \notin Events
          /\ j # 0 /\ step_end(prog, Append(cyc, first)[n].pc, fold) = Behind(v[j].pc)
      <3> HIDE DEF j, n
      <3>1. QED
        BY <1>7, <2>1, <2>2 DEF Runs
    <2>4. Append(cyc, first)[1] = first
      BY <1>10, <2>2 DEF first
    <2>5. QED
      BY <1>2, <1>10, <2>2, <2>3, <2>4
  <1>13. /\ text \in Seq(Texts) /\ Len(text) = m + j
         /\ \A k \in 1..m : text[k] = P[k]
         /\ \A k \in 1..j : text[m + k] = C[k]
    BY <1>4, <1>5, Concatenated
  <1>14. Walks(u, text, m)
    <2> HIDE DEF text, m
    <2>1. QED
      BY <1>11, <1>13 DEF Walks
  <1> HIDE DEF text, m, j, n
  <1>15. PICK w : /\ Walks(w, text, m + j)
                  /\ \A k \in 1..(m + 1) : w[k] = u[k]
                  /\ \A k \in 1..(j + 1) : w[m + k] = v[k]
    <2>1. GoesOn(text, m, u, C, j, v)
      BY <1>8, <1>11, <1>12, <1>13, <1>14 DEF GoesOn
    <2>2. QED
      BY <2>1, WalksOn DEF Joined
  <1>16. Len(w) = m + j + 1 /\ \A k \in 1..(m + j + 1) : w[k] \in Single
    <2>1. w \in Seq(Single) /\ Len(w) = m + j + 1
      BY <1>15 DEF Walks
    <2>2. QED
      BY <2>1
  <1>17. /\ 1 \in 1..(m + 1) /\ m + 1 \in 1..(m + 1)
         /\ j \in 1..(j + 1) /\ j + 1 \in 1..(j + 1)
         /\ m + (j + 1) = m + j + 1 /\ (m + j + 1) - 1 = m + j
    BY <1>8, <1>12
  <1>18. /\ w[1] = initial_state(prog) /\ w[m + 1] = first
         /\ w[m + j + 1] = first /\ w[m + j] = v[j]
    BY <1>11, <1>12, <1>15, <1>17
  <1>19. w \in Executions(text)
    BY <1>8, <1>13, <1>15, <1>18, ExecutionsFacts
  <1>20. first \notin Events
    <2>1. 1 \in 1..n
      BY <1>9 DEF n
    <2>2. QED
      BY <1>2, <2>1 DEF first, n
  <1>21. ASSUME NEW k \in 1..(m + j + 1), ~often \/ k >= m + 1
         PROVE  w[k] \notin Events
    <2>1. CASE k <= m
      <3>1. k \in 1..m /\ k \in 1..(m + 1) /\ ~often
        BY <1>8, <1>21, <2>1
      <3>2. QED
        BY <1>11, <1>15, <3>1
    <2>2. CASE k > m /\ k <= m + j
      <3>1. k - m \in 1..j /\ k - m \in 1..(j + 1) /\ m + (k - m) = k
        BY <1>8, <2>2
      <3>2. w[k] = v[k - m]
        BY <1>15, <3>1
      <3>3. QED
        BY <1>12, <3>1, <3>2
    <2>3. CASE k > m + j
      <3>1. k = m + j + 1
        BY <1>8, <2>3
      <3>2. QED
        BY <1>18, <1>20, <3>1
    <2>4. QED
      BY <1>8, <2>1, <2>2, <2>3
  <1>22. ASSUME NEW k \in (IF often THEN m + 1 ELSE 1)..(m + j + 1)
         PROVE  ~Event(w[k])
    <2>1. k \in 1..(m + j + 1) /\ (~often \/ k >= m + 1)
      BY <1>8
    <2>2. w[k] \notin Events /\ w[k] \in Single
      BY <1>16, <1>21, <2>1
    <2>3. QED
      BY <2>2 DEF Events
  <1>23. C # << >>
    BY <1>5, <1>12 DEF j
  <1>24. Last(w) = w[m + j + 1] /\ w[Len(w) - 1] = v[j]
    BY <1>16, <1>17, <1>18 DEF Last
  <1>25. step_end(prog, Last(cyc).pc, fold) = Behind(v[j].pc)
    BY <1>12 DEF Last, n
  <1>26. /\ C # << >> /\ w[m + 1] = Last(w)
         /\ \A k \in (IF often THEN m + 1 ELSE 1)..Len(w) : ~Event(w[k])
         /\ out.rest = TextFrom(IF w[Len(w) - 1].pc > Len(prog.ops) THEN w[Len(w) - 1].pc
                                ELSE w[Len(w) - 1].pc + 1, highlight)
    BY <1>1, <1>16, <1>18, <1>22, <1>23, <1>24, <1>25 DEF Behind
  <1>27. PrintedLasso(out, often, highlight)
    BY <1>1, <1>19, <1>26 DEF PrintedLasso, text, m
  <1>28. QED
    BY <1>27 DEF out

(* A run up to its first state with an event.                              *)
WitnessRun(fold, path) ==
    /\ path \in Seq(States(prog, fold))
    /\ path # << >>
    /\ path[1] = initial_state(prog)
    /\ Follow(prog, fold, path)
    /\ Last(path) \in Events
    /\ \A i \in 1..(Len(path) - 1) : path[i] \notin Events

LEMMA EventuallyRuns ==
    ASSUME Fits(prog), NEW fold \in Folding,
           NEW run \in search_eventually(prog, fold, Eventful(fold))
    PROVE  WitnessRun(fold, run.prefix) /\ run.cycle = << >>
  <1> DEFINE F == States(prog, fold)
  <1>1. PICK path \in PathsTo(prog, fold, Eventful(fold)) :
            run = [prefix |-> path, cycle |-> << >>]
    BY DEF search_eventually
  <1>2. /\ path \in Paths(prog) /\ Last(path) \in Eventful(fold)
        /\ path[1] = initial_state(prog) /\ Follow(prog, fold, path)
        /\ \A i \in 1..(Len(path) - 1) : path[i] \notin Eventful(fold)
    BY PathsToFacts DEF GoesTo
  <1>3. path \in Seq(KState(prog)) /\ path # << >> /\ Len(path) \in Nat
    BY <1>2 DEF Paths
  <1>4. \A i \in 1..Len(path) : path[i] \in F
    BY <1>2, <1>3, StatesFacts, PathInside
  <1>5. path \in Seq(F)
    <2> HIDE DEF F
    <2>1. QED
      BY <1>3, <1>4
  <1>6. \A i \in 1..(Len(path) - 1) : path[i] \notin Events
    BY <1>2, <1>3, <1>4 DEF Eventful
  <1>7. WitnessRun(fold, path)
    BY <1>2, <1>3, <1>5, <1>6 DEF WitnessRun, Eventful
  <1>8. QED
    BY <1>1, <1>7

(* The marked state is the last one of the run.                            *)
Marked(marker, s) == marker[s] # ""

LEMMA Truncated ==
    ASSUME NEW fold, NEW run, WitnessRun(fold, run.prefix), run.cycle = << >>,
           NEW marker, \A s \in ToSet(run.prefix) : Marked(marker, s) <=> s \in Events,
           NEW verdict
    PROVE  /\ print_truncated_run(verdict, run, fold, marker).prefix = StepsText(run.prefix, fold)
           /\ print_truncated_run(verdict, run, fold, marker).mark = marker[Last(run.prefix)]
  <1> DEFINE path == run.prefix
             states == run.prefix \o run.cycle
             n == Len(path)
             marked == {k \in DOMAIN states : Marked(marker, states[k])}
             shown == IF marked = {} THEN Len(states) ELSE Min(marked)
  <1>1. /\ path \in Seq(States(prog, fold)) /\ path # << >> /\ n \in Nat /\ n # 0
        /\ path[n] \in Events /\ \A i \in 1..(n - 1) : path[i] \notin Events
    BY DEF WitnessRun, Last
  <1>2. states = path
    BY <1>1
  <1>3. /\ DOMAIN path = 1..n /\ \A i \in 1..n : path[i] \in ToSet(path)
    BY <1>1 DEF ToSet
  <1>4. marked = {n}
    <2>1. \A k \in 1..n : Marked(marker, path[k]) <=> k = n
      <3> SUFFICES ASSUME NEW k \in 1..n PROVE Marked(marker, path[k]) <=> k = n
        OBVIOUS
      <3>1. Marked(marker, path[k]) <=> path[k] \in Events
        BY <1>3
      <3>2. CASE k = n
        BY <1>1, <3>1, <3>2
      <3>3. CASE k # n
        <4>1. k \in 1..(n - 1)
          BY <1>1, <3>3
        <4>2. QED
          BY <1>1, <3>1, <3>3, <4>1
      <3>4. QED
        BY <3>2, <3>3
    <2>2. n \in 1..n
      BY <1>1
    <2> HIDE DEF n, path, states
    <2>3. QED
      BY <1>2, <1>3, <2>1, <2>2
  <1>5. shown = n
    <2>1. Min({n}) = n
      <3>1. n <= n
        BY <1>1
      <3> HIDE DEF n
      <3>2. QED
        BY <3>1 DEF Min
    <2> HIDE DEF marked, n
    <2>2. QED
      BY <1>4, <2>1
  <1>6. SubSeq(states, 1, shown) = path
    <2>1. SubSeq(path, 1, n) = path
      BY <1>1
    <2> HIDE DEF shown, n, path, states
    <2>2. QED
      BY <1>2, <1>5, <2>1
  <1>7. /\ print_truncated_run(verdict, run, fold, marker).prefix
              = StepsText(SubSeq(states, 1, shown), fold)
        /\ print_truncated_run(verdict, run, fold, marker).mark = marker[states[shown]]
    BY Zenon DEF print_truncated_run, Marked
  <1>8. states[shown] = Last(path)
    <2> HIDE DEF shown, states
    <2>1. QED
      BY <1>2, <1>5 DEF Last
  <1> HIDE DEF shown, states
  <1>9. QED
    BY <1>6, <1>7, <1>8

(* Only moves of the pointer are printed as one step, in the graphs that a *)
(* witness is looked for in, unless the run has halted.                    *)
LEMMA StepMoves ==
    ASSUME Fits(prog), NEW fold \in Folding, NEW pc \in 1..(Len(prog.ops) + 1),
           is_end(prog, pc) \/ fold = "pointers",
           Len(print_step(pc, fold)) > 1
    PROVE  \A i \in 1..Len(print_step(pc, fold)) : print_step(pc, fold)[i] \in {"left", "right"}
  <1> DEFINE last == Len(prog.ops)
             stop == ChosenBlock(prog, fold, pc).end
             text == SubSeq(prog.ops, pc, stop - 1)
  <1>1. last \in Nat /\ prog.ops \in Seq(Instruction)
    BY DEF Fits, IsProgram
  <1>2. ~is_end(prog, pc)
    <2> SUFFICES ASSUME is_end(prog, pc) PROVE FALSE
      OBVIOUS
    <2>1. print_step(pc, fold) = <<"halt">>
      BY DEF print_step
    <2>2. Len(<<"halt">>) = 1
      OBVIOUS
    <2>3. QED
      BY <2>1, <2>2
  <1>3. pc \in 1..last /\ fold = "pointers"
    BY <1>1, <1>2 DEF is_end, instr_count
  <1>4. /\ step_end(prog, pc, fold) = stop
        /\ ChosenBlock(prog, fold, pc).kind = "single" => stop = pc + 1
    BY <1>3, StepEnd
  <1>5. print_step(pc, fold) = text
    BY <1>2, <1>4 DEF print_step
  <1>6. ASSUME NEW b \in pc..last, b = stop - 1
        PROVE  /\ Len(text) = b - pc + 1
               /\ \A k \in 1..(b - pc + 1) : text[k] = prog.ops[pc + k - 1]
    BY <1>1, <1>3, <1>6, SubSeqFacts
  <1>7. ChosenBlock(prog, fold, pc).kind # "single"
    <2> SUFFICES ASSUME ChosenBlock(prog, fold, pc).kind = "single" PROVE FALSE
      OBVIOUS
    <2>1. stop - 1 = pc /\ pc \in pc..last /\ pc - pc + 1 = 1
      BY <1>1, <1>3, <1>4
    <2>2. Len(text) = 1
      BY <1>6, <2>1
    <2> HIDE DEF text
    <2>3. QED
      BY <1>5, <2>2
  <1>8. /\ Folds(fold, InstrClass(prog.ops[pc]))
        /\ stop \in (pc + 1)..(last + 1)
        /\ \A i \in pc..(stop - 1) : InstrClass(prog.ops[i]) = InstrClass(prog.ops[pc])
    BY <1>3, <1>7, ChosenRun DEF Fits
  <1>9. InstrClass(prog.ops[pc]) = "pointers"
    BY <1>3, <1>8 DEF Folds, InstrClass
  <1>10. \A i \in pc..(stop - 1) : prog.ops[i] \in {"left", "right"}
    BY <1>8, <1>9 DEF InstrClass, is_pointer_instruction, is_value_instruction
  <1>11. stop - 1 \in pc..last
    BY <1>1, <1>3, <1>8
  <1>12. /\ Len(text) = (stop - 1) - pc + 1
         /\ \A k \in 1..((stop - 1) - pc + 1) : text[k] = prog.ops[pc + k - 1]
    BY <1>6, <1>11
  <1> HIDE DEF text, stop
  <1>13. \A k \in 1..((stop - 1) - pc + 1) : pc + k - 1 \in pc..(stop - 1)
    BY <1>3, <1>8
  <1>14. QED
    BY <1>5, <1>10, <1>12, <1>13

(* A witness that can be executed, with the mark of the instruction that   *)
(* its last step begins with.                                              *)
MarkedWitness(out) ==
  /\ Len(out.prefix) \in Nat
  /\ \E path \in Executions(out.prefix) :
        \E k \in 1..Len(out.prefix) :
            /\ Event(path[k])
            /\ path[k].pc \in 1..(Len(prog.ops) + 1)
            /\ TextAt(path[k]) = out.prefix[k]
            /\ \A j \in 1..(k - 1) : ~Event(path[j])
            /\ k < Len(out.prefix) =>
                  \A j \in k..Len(out.prefix) : out.prefix[j] \in {"left", "right"}
            /\ out.mark = IF command.name = "value" THEN "holds"
                             ELSE IF out.prefix[k] = "inc" THEN "overflows"
                             ELSE "underflows"

MarksInv == Witnessed => MarkedWitness(output)

MarkOf(text) == IF command.name = "value" THEN "holds"
                ELSE IF text = "inc" THEN "overflows"
                ELSE "underflows"

LEMMA WitnessText ==
    ASSUME Fits(prog), NEW fold \in Folding, Shown(prog, fold, Events),
           NEW path, WitnessRun(fold, path),
           is_end(prog, Last(path).pc) \/ fold = "pointers",
           NEW out, out.prefix = StepsText(path, fold),
           out.mark = MarkOf(TextAt(Last(path)))
    PROVE  MarkedWitness(out)
  <1> DEFINE F == States(prog, fold)
             n == Len(path)
             final == path[n]
             text == StepsText(path, fold)
             part == print_step(final.pc, fold)
             m == Len(text)
  <1>1. /\ path \in Seq(F) /\ path # << >> /\ n \in Nat /\ n # 0
        /\ path[1] = initial_state(prog) /\ Follow(prog, fold, path)
        /\ final \in Events /\ Last(path) = final
        /\ \A i \in 1..(n - 1) : path[i] \notin Events
    BY DEF WitnessRun, Last
  <1>2. /\ n \in 1..n /\ n - 1 \in 0..n /\ 0 \in 0..n /\ n \in 0..n
        /\ (n - 1) + 1 = n /\ 0 + 1 = 1 /\ 1 \in 1..n
    <2>1. n \in Nat /\ n # 0
      BY <1>1
    <2> HIDE DEF n
    <2>2. QED
      BY ONLY <2>1
  <1>3. final \in F
    <2> HIDE DEF F
    <2>1. QED
      BY <1>1, <1>2
  <1>4. PICK t : t \in After(prog, fold, final) /\ t \in F
    <2>1. IsState(prog, final) /\ AtStart(prog, fold, final)
      BY <1>3, StatesAtStart
    <2>2. Successors(prog, fold, final) # << >>
      BY <2>1, Transitions DEF Fits
    <2>3. Successors(prog, fold, final) \in Seq(KState(prog))
      BY <1>3, StatesFacts, SuccessorsInside DEF Fits
    <2>4. 1 \in DOMAIN Successors(prog, fold, final)
      BY <2>2, <2>3
    <2>5. Successors(prog, fold, final)[1] \in After(prog, fold, final)
      BY <2>4 DEF After, ToSet
    <2>6. After(prog, fold, final) \subseteq F
      BY <1>3, StatesFacts DEF StaysIn
    <2>7. QED
      BY <2>5, <2>6
  <1> DEFINE z == Append(path, t)
  <1>5. Legal(fold, path, t)
    BY <1>1, <1>4, LegalRun
  <1>6. /\ text \in Seq(Texts)
        /\ \E at, u : Places(fold, path, text, at) /\ Runs(fold, z, text, at, n, u)
    BY <1>5, RunWalks
  <1>7. PICK at, u : Places(fold, path, text, at) /\ Runs(fold, z, text, at, n, u)
    BY <1>6
  <1>8. m \in Nat
    BY <1>6
  <1> HIDE DEF text
  <1>9. /\ \A i \in 1..n : z[i] = path[i]
        /\ z[n + 1] = t
    <2> HIDE DEF F
    <2>1. path \in Seq(F) /\ t \in F
      BY <1>1, <1>4
    <2>2. QED
      BY <2>1, AppendFacts
  <1> DEFINE k == at[n - 1] + 1
  <1>10. /\ at \in [0..n -> Nat] /\ at[0] = 0 /\ at[n] = m
         /\ at[n] = at[n - 1] + Len(part)
         /\ \A i \in 1..Len(part) : text[at[n - 1] + i] = part[i]
    BY <1>2, <1>7 DEF Places
  <1>11. at[n - 1] \in Nat /\ k \in Nat
    BY <1>2, <1>10
  <1> HIDE DEF z, m, n
  <1>12. /\ Walks(u, text, m)
         /\ u[at[0] + 1] = z[0 + 1]
         /\ u[at[n - 1] + 1] = z[(n - 1) + 1]
         /\ (\A i \in 1..(n - 1) : z[i] \notin Events) => \A i \in 1..at[n - 1] : u[i] \notin Events
    BY <1>2, <1>7, <1>10 DEF Runs
  <1>13. u[1] = initial_state(prog) /\ u[k] = final
    BY <1>1, <1>2, <1>9, <1>10, <1>12
  <1>14. \A i \in 1..at[n - 1] : u[i] \notin Events
    <2>1. \A i \in 1..(n - 1) : i \in 1..n
      BY <1>1
    <2>2. \A i \in 1..(n - 1) : z[i] \notin Events
      BY <1>1, <1>9, <2>1
    <2>3. QED
      BY <1>12, <2>2
  <1>15. /\ Len(part) \in Nat \ {0}
    <2>1. \E v, j : StepWalk(fold, final, t, v, j)
      BY <1>3, <1>4, StepWalks
    <2>2. QED
      BY <2>1 DEF StepWalk
  <1> HIDE DEF part
  <1>16. k \in 1..m /\ (k < m => Len(part) > 1) /\ m = at[n - 1] + Len(part)
    BY <1>10, <1>11, <1>15
  <1>17. k < m => \A j \in k..m : text[j] \in {"left", "right"}
    <2> SUFFICES ASSUME k < m, NEW j \in k..m PROVE text[j] \in {"left", "right"}
      OBVIOUS
    <2>1. j - at[n - 1] \in 1..Len(part) /\ at[n - 1] + (j - at[n - 1]) = j
      BY <1>8, <1>11, <1>16
    <2>2. text[j] = part[j - at[n - 1]]
      BY <1>10, <2>1
    <2>3. final.pc \in 1..(Len(prog.ops) + 1)
      BY <1>3, StatesAtStart DEF IsState
    <2>4. is_end(prog, final.pc) \/ fold = "pointers"
      BY <1>1
    <2>5. Len(print_step(final.pc, fold)) > 1
      BY <1>16 DEF part
    <2>6. \A i \in 1..Len(part) : part[i] \in {"left", "right"}
      <3> HIDE DEF final
      <3>1. QED
        BY <2>3, <2>4, <2>5, StepMoves DEF part
    <2>7. QED
      BY <2>1, <2>2, <2>6
  <1>18. /\ u \in Seq(Single) /\ Len(u) = m + 1
         /\ \A i \in 1..m : TextAt(u[i]) = text[i]
    BY <1>12 DEF Walks
  <1>19. u \in Executions(text)
    <2>1. Len(text) \in Nat /\ Walks(u, text, Len(text))
      BY <1>8, <1>12 DEF m
    <2>2. QED
      BY <1>13, <2>1, ExecutionsFacts
  <1>20. Event(u[k]) /\ u[k].pc \in 1..(Len(prog.ops) + 1)
    <2>1. final.pc \in 1..(Len(prog.ops) + 1)
      BY <1>3, StatesAtStart DEF IsState
    <2> HIDE DEF final
    <2>2. QED
      BY <1>1, <1>13, <2>1 DEF Events, final
  <1>21. ASSUME NEW j \in 1..(k - 1) PROVE ~Event(u[j])
    <2>1. j \in 1..at[n - 1] /\ j \in 1..(m + 1)
      BY <1>8, <1>11, <1>16
    <2>2. u[j] \notin Events /\ u[j] \in Single
      BY <1>14, <1>18, <2>1
    <2>3. QED
      BY <2>2 DEF Events
  <1>22. out.mark = MarkOf(text[k])
    BY <1>1, <1>13, <1>16, <1>18
  <1> HIDE DEF k
  <1>23. out.prefix = text /\ Len(text) = m
    BY DEF text, m
  <1>24. \E walk \in Executions(text) : \E i \in 1..m :
            /\ Event(walk[i])
            /\ walk[i].pc \in 1..(Len(prog.ops) + 1)
            /\ TextAt(walk[i]) = text[i]
            /\ \A j \in 1..(i - 1) : ~Event(walk[j])
            /\ i < m => \A j \in i..m : text[j] \in {"left", "right"}
            /\ out.mark = MarkOf(text[i])
    BY <1>16, <1>17, <1>18, <1>19, <1>20, <1>21, <1>22
  <1>25. QED
    BY <1>8, <1>23, <1>24 DEF MarkedWitness, MarkOf

(* What is printed is about the program and the arguments, which do not    *)
(* change.                                                                 *)
FollowedIn(p, text, k, paths) ==
    UNION {{Append(path, s) : s \in After(p, "none", Last(path))} :
              path \in {q \in paths : (IF Last(q).pc > Len(p.ops) THEN "halt"
                                       ELSE p.ops[Last(q).pc]) = text[k]}}

IsFollowingIn(p, text, f) ==
    f = [k \in 0..Len(text) |->
            IF k = 0 THEN {<<initial_state(p)>>} ELSE FollowedIn(p, text, k, f[k - 1])]

ExecutionsIn(p, text) == (CHOOSE f : IsFollowingIn(p, text, f))[Len(text)]

TextFromIn(p, pc, highlight) ==
    [i \in 1..(instr_count(p) + 2 - pc) |->
        LET at == pc + i - 1
            names == {label[2] : label \in {l \in p.labels : l[1] = at}}
        IN  <<names, names \cap {highlight}, IF is_end(p, at) THEN "end" ELSE p.ops[at]>>]

LEMMA UnchangedText ==
    ASSUME UNCHANGED <<prog, command>>, NEW text, NEW pc, NEW highlight
    PROVE  /\ Executions(text)' = Executions(text)
           /\ TextFrom(pc, highlight)' = TextFrom(pc, highlight)
  <1>1. Executions(text) = ExecutionsIn(prog, text)
    BY DEF Executions, ExecutionsIn, IsFollowingIn, FollowedIn, NextOf
  <1>2. Executions(text)' = ExecutionsIn(prog', text)
    BY DEF Executions, ExecutionsIn, IsFollowingIn, FollowedIn, NextOf
  <1>3. TextFrom(pc, highlight) = TextFromIn(prog, pc, highlight)
    BY DEF TextFrom, TextFromIn
  <1>4. TextFrom(pc, highlight)' = TextFromIn(prog', pc, highlight)
    BY DEF TextFrom, TextFromIn
  <1>5. QED
    BY <1>1, <1>2, <1>3, <1>4

AskedOften == command.name = "visit" /\ command.infinitely_often

Highlighted == IF command.name = "reach" THEN command.label ELSE NoValue

LEMMA PrintedUnchanged ==
    ASSUME UNCHANGED <<prog, command>>, NEW out, out = output'
    PROVE  /\ LassoExecutes' <=> (Refuted' => PrintedLasso(out, AskedOften, Highlighted))
           /\ MarksInv' <=> (Witnessed' => MarkedWitness(out))
  <1>1. /\ \A text : Executions(text)' = Executions(text)
        /\ \A pc, highlight : TextFrom(pc, highlight)' = TextFrom(pc, highlight)
        /\ \A s : Event(s)' <=> Event(s)
        /\ prog' = prog /\ command' = command
    BY UnchangedText, Unchanged
  <1>2. LassoExecutes' <=> (Refuted' => PrintedLasso(out, AskedOften, Highlighted))
    BY <1>1 DEF LassoExecutes, PrintedLasso, AskedOften, Highlighted
  <1>3. \A s : TextAt(s)' = TextAt(s)
    BY <1>1 DEF TextAt
  <1>4. MarksInv' <=> (Witnessed' => MarkedWitness(out))
    BY <1>1, <1>3 DEF MarksInv, MarkedWitness
  <1>5. QED
    BY <1>2, <1>4

LEMMA PrintedNow ==
    /\ LassoExecutes <=> (Refuted => PrintedLasso(output, AskedOften, Highlighted))
    /\ MarksInv <=> (Witnessed => MarkedWitness(output))
  BY DEF LassoExecutes, PrintedLasso, AskedOften, Highlighted, MarksInv

(* A red answer that comes with a lasso shows one of the runs found.       *)
LEMMA LassoShown ==
    ASSUME Fits(prog), NEW fold \in Folding, Shown(prog, fold, Events),
           NEW runs, NEW often \in BOOLEAN,
           \A run \in runs : LassoRun(fold, run, often),
           NEW highlight, ShowLasso(runs, fold, highlight), output'.verdict = "red"
    PROVE  PrintedLasso(output', often, highlight)
  <1>1. ~Show(Nothing)
    BY ShownVerdict
  <1>2. PICK run \in runs : Show(print_run(run, fold, highlight))
    BY <1>1 DEF ShowLasso
  <1>3. output' = print_run(run, fold, highlight)
    BY <1>2 DEF Show
  <1>4. PrintedLasso(print_run(run, fold, highlight), often, highlight)
    BY LassoText
  <1>5. QED
    BY <1>3, <1>4

LEMMA PrintsStep ==
    ASSUME Commanded, LassoExecutes, [Next]_vars
    PROVE  LassoExecutes'
  <1>1. prog' = prog /\ command' = command
    BY NextKeeps
  <1>2. Fits(prog)
    BY DEF Commanded
  <1> SUFFICES ASSUME Refuted' PROVE PrintedLasso(output', AskedOften, Highlighted)
    <2>1. PICK out : out = output'
      OBVIOUS
    <2>2. LassoExecutes' <=> (Refuted' => PrintedLasso(out, AskedOften, Highlighted))
      BY <1>1, <2>1, PrintedUnchanged
    <2>3. QED
      BY <2>1, <2>2
  <1>3. /\ output' # NoValue /\ output'.verdict = "red"
        /\ command.name \in {"reach", "visit"} \/ (command.name = "value" /\ command.every_run)
    BY <1>1 DEF Refuted
  <1>4. CASE UNCHANGED vars
    <2>1. output' = output /\ Refuted
      BY <1>3, <1>4 DEF vars, Refuted
    <2>2. PrintedLasso(output, AskedOften, Highlighted)
      BY <2>1, PrintedNow
    <2>3. QED
      BY <2>1, <2>2
  <1>5. ~RejectLabel /\ ~RejectCell
    BY <1>3, ShownVerdict DEF RejectLabel, RejectCell
  <1>6. CASE reachfun
    <2>1. /\ command.name = "reach"
          /\ ShowLasso(check_reach(prog, command.label, TRUE), "straight_line", command.label)
      BY <1>6 DEF reachfun, Given
    <2>2. /\ Shown(prog, "straight_line", Events) /\ "straight_line" \in Folding
          /\ check_reach(prog, command.label, TRUE)
               = search_always(prog, "straight_line", Uneventful("straight_line"))
      BY <2>1, CheckReach DEF Folding
    <2>3. \A run \in check_reach(prog, command.label, TRUE) :
             LassoRun("straight_line", run, FALSE)
      BY <1>2, <2>2, AlwaysRuns
    <2>4. PrintedLasso(output', FALSE, command.label)
      BY <1>2, <1>3, <2>1, <2>2, <2>3, LassoShown
    <2>5. AskedOften = FALSE /\ Highlighted = command.label
      BY <2>1 DEF AskedOften, Highlighted
    <2>6. QED
      BY <2>4, <2>5, Zenon
  <1>7. CASE visitfun
    <2> DEFINE kind == IF command.infinitely_often THEN "infinitely_often" ELSE "at_least_once"
               runs == check_visit(prog, command.cell, kind, TRUE)
    <2>1. command.name = "visit" /\ ShowLasso(runs, "values", NoValue)
      BY <1>7 DEF visitfun, Given
    <2>2. command.infinitely_often \in BOOLEAN
      BY <2>1, CommandedFacts
    <2>3. AskedOften = command.infinitely_often /\ Highlighted = NoValue
      BY <2>1, <2>2 DEF AskedOften, Highlighted
    <2>4. Shown(prog, "values", Events) /\ "values" \in Folding
      BY <2>1, CheckVisit DEF Folding
    <2>5. runs = IF command.infinitely_often
                 THEN search_eventually_always(prog, "values", Uneventful("values"))
                 ELSE search_always(prog, "values", Uneventful("values"))
      BY <2>1, <2>2, CheckVisit
    <2> HIDE DEF runs
    <2>6. \A run \in runs : LassoRun("values", run, command.infinitely_often)
      <3>1. CASE command.infinitely_often = TRUE
        BY <1>2, <2>4, <2>5, <3>1, EventuallyAlwaysRuns
      <3>2. CASE command.infinitely_often = FALSE
        BY <1>2, <2>4, <2>5, <3>2, AlwaysRuns
      <3>3. QED
        BY <2>2, <3>1, <3>2
    <2>7. PrintedLasso(output', command.infinitely_often, NoValue)
      BY <1>2, <1>3, <2>1, <2>2, <2>4, <2>6, LassoShown
    <2>8. QED
      BY <2>3, <2>7, Zenon
  <1>8. CASE valuefun_every_run
    <2> DEFINE runs == check_value(prog, CellTest, "every_run")
    <2>1. /\ command.name = "value" /\ ~OffTape
          /\ ShowLasso(runs, ValueRunFolding, NoValue)
      BY <1>8 DEF valuefun_every_run, Given
    <2>2. AskedOften = FALSE /\ Highlighted = NoValue
      BY <2>1 DEF AskedOften, Highlighted
    <2>3. command.cell \in Cells(prog.memory_model)
      BY <2>1, OffTapeFacts
    <2>4. /\ Shown(prog, ValueRunFolding, Events) /\ ValueRunFolding \in Folding
          /\ runs = search_always(prog, ValueRunFolding, Uneventful(ValueRunFolding))
      BY <2>1, <2>3, CheckValue
    <2> HIDE DEF runs
    <2>5. \A run \in runs : LassoRun(ValueRunFolding, run, FALSE)
      BY <1>2, <2>4, AlwaysRuns
    <2>6. PrintedLasso(output', FALSE, NoValue)
      BY <1>2, <1>3, <2>1, <2>4, <2>5, LassoShown
    <2>7. QED
      BY <2>2, <2>6, Zenon
  <1>9. ~valuefun_any_run /\ ~overflowfun /\ ~dotfun
    BY <1>3, AnyRunStep DEF overflowfun, dotfun, Given
  <1>10. QED
    BY <1>4, <1>5, <1>6, <1>7, <1>8, <1>9 DEF Next

(* The states that the printed run is marked at.                           *)
LEMMA ValueHit ==
    ASSUME Commanded, command.name = "value", command.cell \in Cells(prog.memory_model),
           NEW s \in Single
    PROVE  value_hit(CellTest, s) <=> s \in Events
  <1>1. s \in KState(prog)
    BY StatesFacts DEF Single, Commanded, Folding
  <1>2. /\ s.memory \in [Cells(prog.memory_model) -> CellValues(prog.memory_model)]
        /\ is_end(prog, s.pc) <=> s.pc > Len(prog.ops)
    BY <1>1, SingleStates
  <1>3. Content(s, command.cell) = s.memory[command.cell]
    BY <1>2 DEF Content
  <1>4. CellTest.cell = command.cell /\ CellTest.on_halt = command.on_halt
    BY DEF CellTest
  <1>5. value_hit(CellTest, s) <=>
            /\ command.on_halt => is_end(prog, s.pc)
            /\ cell_test_holds(CellTest, Content(s, command.cell))
    BY <1>4 DEF value_hit
  <1>6. s \in Events <=>
            /\ command.on_halt => s.pc > Len(prog.ops)
            /\ cell_test_holds(CellTest, s.memory[command.cell])
    BY DEF Events, Event
  <1>7. QED
    BY <1>2, <1>3, <1>5, <1>6

LEMMA HoldsMarked ==
    ASSUME NEW run, NEW s \in ToSet(run.prefix)
    PROVE  /\ Marked(HoldsMarker(run), s) <=> value_hit(CellTest, s)
           /\ value_hit(CellTest, s) => HoldsMarker(run)[s] = "holds"
  <1>1. HoldsMarker(run)[s] = IF value_hit(CellTest, s) THEN "holds" ELSE ""
    BY Zenon DEF HoldsMarker
  <1>2. "holds" # ""
    BY Zenon
  <1>3. QED
    BY <1>1, <1>2, Zenon DEF Marked

WrapMarker(run) == [s \in ToSet(run.prefix) |-> wrap_marker(WrapTest, s)]

LEMMA WrapMarked ==
    ASSUME NEW run, NEW s \in ToSet(run.prefix)
    PROVE  /\ Marked(WrapMarker(run), s) <=> wrap_test_holds(prog, s, WrapTest)
           /\ wrap_test_holds(prog, s, WrapTest) =>
                 WrapMarker(run)[s] = IF prog.ops[s.pc] = "inc" THEN "overflows" ELSE "underflows"
  <1>1. WrapMarker(run)[s] = wrap_marker(WrapTest, s)
    BY Zenon DEF WrapMarker
  <1>2. "overflows" # "" /\ "underflows" # ""
    BY Zenon
  <1>3. QED
    BY <1>1, <1>2, Zenon DEF Marked, wrap_marker

LEMMA WitnessShown ==
    ASSUME Fits(prog), NEW fold \in Folding, Shown(prog, fold, Events),
           NEW run \in search_eventually(prog, fold, Eventful(fold)),
           NEW marker, NEW verdict,
           \A s \in ToSet(run.prefix) : s \in States(prog, fold) =>
               /\ Marked(marker, s) <=> s \in Events
               /\ s \in Events => /\ is_end(prog, s.pc) \/ fold = "pointers"
                                  /\ marker[s] = MarkOf(TextAt(s)),
           Show(print_truncated_run(verdict, run, fold, marker))
    PROVE  MarkedWitness(output')
  <1> DEFINE path == run.prefix
             out == print_truncated_run(verdict, run, fold, marker)
  <1>1. WitnessRun(fold, path) /\ run.cycle = << >>
    BY EventuallyRuns
  <1>2. /\ path \in Seq(States(prog, fold)) /\ path # << >> /\ Last(path) \in Events
    BY <1>1 DEF WitnessRun
  <1> HIDE DEF path
  <1>3. /\ \A s \in ToSet(path) : s \in States(prog, fold)
        /\ Last(path) \in ToSet(path)
    <2>1. Len(path) \in DOMAIN path
      BY <1>2
    <2>2. \A k \in DOMAIN path : path[k] \in States(prog, fold)
      BY <1>2
    <2>3. QED
      BY <2>1, <2>2 DEF ToSet, Last
  <1>4. \A s \in ToSet(path) :
               /\ Marked(marker, s) <=> s \in Events
               /\ s \in Events => /\ is_end(prog, s.pc) \/ fold = "pointers"
                                  /\ marker[s] = MarkOf(TextAt(s))
    BY <1>3 DEF path
  <1>5. /\ is_end(prog, Last(path).pc) \/ fold = "pointers"
        /\ marker[Last(path)] = MarkOf(TextAt(Last(path)))
    BY <1>2, <1>3, <1>4
  <1>6. out.prefix = StepsText(path, fold) /\ out.mark = marker[Last(path)]
    BY <1>1, <1>4, Truncated DEF path
  <1>7. output' = out
    BY DEF Show
  <1> HIDE DEF out
  <1>8. MarkedWitness(out)
    BY <1>1, <1>5, <1>6, WitnessText
  <1>9. QED
    BY <1>7, <1>8

LEMMA ValueMarks ==
    ASSUME Commanded, command.name = "value", command.cell \in Cells(prog.memory_model),
           NEW run, NEW s \in ToSet(run.prefix), s \in States(prog, ValueRunFolding)
    PROVE  /\ Marked(HoldsMarker(run), s) <=> s \in Events
           /\ s \in Events => /\ is_end(prog, s.pc) \/ ValueRunFolding = "pointers"
                              /\ HoldsMarker(run)[s] = MarkOf(TextAt(s))
  <1>1. s \in Single
    <2>1. ValueRunFolding \in Folding
      BY DEF Folding, ValueRunFolding
    <2>2. QED
      BY <2>1, FoldedInside DEF Single, Commanded
  <1>2. value_hit(CellTest, s) <=> s \in Events
    BY <1>1, ValueHit
  <1>3. /\ Marked(HoldsMarker(run), s) <=> value_hit(CellTest, s)
        /\ value_hit(CellTest, s) => HoldsMarker(run)[s] = "holds"
    BY HoldsMarked
  <1>4. value_hit(CellTest, s) => is_end(prog, s.pc) \/ ValueRunFolding = "pointers"
    BY DEF value_hit, CellTest, ValueRunFolding
  <1>5. MarkOf(TextAt(s)) = "holds"
    BY DEF MarkOf
  <1>6. QED
    BY <1>2, <1>3, <1>4, <1>5

LEMMA WrapMarks ==
    ASSUME Commanded, command.name = "overflow", command.cell \in Cells(prog.memory_model),
           NEW run, NEW s \in ToSet(run.prefix), s \in States(prog, "pointers")
    PROVE  /\ Marked(WrapMarker(run), s) <=> s \in Events
           /\ s \in Events => WrapMarker(run)[s] = MarkOf(TextAt(s))
  <1>1. s \in Single /\ s \in KState(prog)
    <2>1. "pointers" \in Folding
      BY DEF Folding
    <2>2. QED
      BY <2>1, FoldedInside, StatesFacts DEF Single, Commanded
  <1>2. wrap_test_holds(prog, s, WrapTest) <=> s \in Events
    BY <1>1, WrapFacts DEF Events
  <1>3. /\ Marked(WrapMarker(run), s) <=> wrap_test_holds(prog, s, WrapTest)
        /\ wrap_test_holds(prog, s, WrapTest) =>
              WrapMarker(run)[s] = IF prog.ops[s.pc] = "inc" THEN "overflows" ELSE "underflows"
    BY WrapMarked
  <1>4. s \in Events => TextAt(s) = prog.ops[s.pc]
    <2>1. /\ s.pc \in 1..(Len(prog.ops) + 1) /\ Len(prog.ops) \in Nat
      BY <1>1, SingleStates
    <2>2. s \in Events => s.pc <= Len(prog.ops)
      BY DEF Events, Event
    <2>3. QED
      BY <2>1, <2>2 DEF TextAt
  <1>5. MarkOf(TextAt(s)) = IF TextAt(s) = "inc" THEN "overflows" ELSE "underflows"
    BY DEF MarkOf
  <1>6. QED
    BY <1>2, <1>3, <1>4, <1>5

LEMMA MarksStep ==
    ASSUME Commanded, MarksInv, [Next]_vars
    PROVE  MarksInv'
  <1>1. prog' = prog /\ command' = command
    BY NextKeeps
  <1>2. Fits(prog)
    BY DEF Commanded
  <1> SUFFICES ASSUME Witnessed' PROVE MarkedWitness(output')
    <2>1. PICK out : out = output'
      OBVIOUS
    <2>2. MarksInv' <=> (Witnessed' => MarkedWitness(out))
      BY <1>1, <2>1, PrintedUnchanged
    <2>3. QED
      BY <2>1, <2>2
  <1>3. /\ output' # NoValue
        /\ \/ command.name = "value" /\ ~command.every_run /\ output'.verdict = "green"
           \/ command.name = "overflow" /\ output'.verdict = "red"
    BY <1>1 DEF Witnessed, Answers
  <1>4. CASE UNCHANGED vars
    <2>1. output' = output /\ Witnessed
      BY <1>3, <1>4 DEF vars, Witnessed, Answers
    <2>2. MarkedWitness(output)
      BY <2>1, PrintedNow
    <2>3. QED
      BY <2>1, <2>2
  <1>5. ~RejectLabel /\ ~RejectCell
    BY <1>3, ShownVerdict DEF RejectLabel, RejectCell
  <1>6. CASE valuefun_any_run
    <2> DEFINE fold == ValueRunFolding
    <2>1. command.name = "value" /\ ~OffTape /\ output'.verdict = "green"
      BY <1>3, <1>6, AnyRunStep DEF Given
    <2>2. ~Show([Nothing EXCEPT !.verdict = "red"])
      BY <2>1, ShownVerdict
    <2>3. PICK run \in check_value(prog, CellTest, "any_run") :
              Show(print_truncated_run("green", run, fold, HoldsMarker(run)))
      BY <1>6, <2>2, AnyRunStep
    <2>4. command.cell \in Cells(prog.memory_model)
      BY <2>1, OffTapeFacts
    <2>5. /\ Shown(prog, fold, Events) /\ fold \in Folding
          /\ run \in search_eventually(prog, fold, Eventful(fold))
      BY <2>1, <2>4, CheckValue
    <2>6. \A s \in ToSet(run.prefix) : s \in States(prog, fold) =>
              /\ Marked(HoldsMarker(run), s) <=> s \in Events
              /\ s \in Events => /\ is_end(prog, s.pc) \/ fold = "pointers"
                                 /\ HoldsMarker(run)[s] = MarkOf(TextAt(s))
      BY <2>1, <2>4, ValueMarks
    <2> HIDE DEF fold
    <2>7. QED
      BY <1>2, <2>3, <2>5, <2>6, WitnessShown
  <1>7. CASE overflowfun
    <2> DEFINE runs == check_overflow(prog, WrapTest)
    <2>1. /\ command.name = "overflow" /\ ~OffTape /\ output'.verdict = "red"
          /\ \/ runs = {} /\ Show(Nothing)
             \/ \E run \in runs :
                   Show(print_truncated_run("red", run, "pointers", WrapMarker(run)))
      BY <1>3, <1>7 DEF overflowfun, WrapTest, WrapMarker, Given
    <2> HIDE DEF runs
    <2>2. ~Show(Nothing)
      BY <2>1, ShownVerdict
    <2>3. PICK run \in runs :
              Show(print_truncated_run("red", run, "pointers", WrapMarker(run)))
      BY <2>1, <2>2
    <2>4. command.cell \in Cells(prog.memory_model)
      BY <2>1, OffTapeFacts
    <2>5. /\ Shown(prog, "pointers", Events) /\ "pointers" \in Folding
          /\ run \in search_eventually(prog, "pointers", Eventful("pointers"))
      BY <2>1, <2>4, CheckOverflow DEF runs, Folding
    <2>6. \A s \in ToSet(run.prefix) : s \in States(prog, "pointers") =>
              /\ Marked(WrapMarker(run), s) <=> s \in Events
              /\ s \in Events => WrapMarker(run)[s] = MarkOf(TextAt(s))
      BY <2>1, <2>4, WrapMarks
    <2>7. QED
      BY <1>2, <2>3, <2>5, <2>6, WitnessShown
  <1>8. ~reachfun /\ ~visitfun /\ ~valuefun_every_run /\ ~dotfun
    BY <1>3 DEF reachfun, visitfun, valuefun_every_run, dotfun, Given
  <1>9. QED
    BY <1>4, <1>5, <1>6, <1>7, <1>8 DEF Next

(* What MarksInv says of a witness, without its text; and of one that      *)
(* wraps the cell, that it ends with the instruction that does.            *)
LEMMA MarksWitness == MarksInv => WitnessExecutes
  <1> SUFFICES ASSUME MarksInv, Witnessed
               PROVE  \E path \in Executions(output.prefix) :
                         \E k \in 1..Len(output.prefix) :
                             /\ Event(path[k])
                             /\ \A j \in 1..(k - 1) : ~Event(path[j])
                             /\ k < Len(output.prefix) =>
                                   \A j \in k..Len(output.prefix) :
                                       output.prefix[j] \in {"left", "right"}
    BY DEF WitnessExecutes
  <1>1. QED
    BY DEF MarksInv, MarkedWitness

LEMMA MarksLast ==
    ASSUME Commanded, MarksInv, Answers("overflow"), output.verdict = "red"
    PROVE  MarksWrap
  <1> DEFINE text == output.prefix
             last == Len(text)
  <1>1. Witnessed /\ command.name = "overflow"
    BY DEF Witnessed, Answers
  <1>2. PICK path \in Executions(text), k \in 1..last :
            /\ Event(path[k])
            /\ path[k].pc \in 1..(Len(prog.ops) + 1)
            /\ TextAt(path[k]) = text[k]
            /\ \A j \in 1..(k - 1) : ~Event(path[j])
            /\ k < last => \A j \in k..last : text[j] \in {"left", "right"}
            /\ output.mark = IF text[k] = "inc" THEN "overflows" ELSE "underflows"
    BY <1>1 DEF MarksInv, MarkedWitness
  <1> last \in Nat
    BY <1>1 DEF MarksInv, MarkedWitness
  <1>3. text[k] \in {"inc", "dec"}
    <2>1. path[k].pc <= Len(prog.ops) /\ Wraps(path[k])
      BY <1>1, <1>2 DEF Event
    <2>2. prog.ops[path[k].pc] \in {"inc", "dec"}
      BY <2>1 DEF Wraps
    <2>3. Len(prog.ops) \in Nat /\ path[k].pc \in 1..(Len(prog.ops) + 1)
      <3>1. prog.ops \in Seq(Instruction)
        BY DEF Commanded, Fits, IsProgram
      <3>2. QED
        BY <1>2, <3>1
    <2>4. QED
      BY <1>2, <2>1, <2>2, <2>3 DEF TextAt
  <1>4. k = last
    <2> SUFFICES ASSUME k # last PROVE FALSE
      OBVIOUS
    <2>1. k < last /\ k \in k..last
      OBVIOUS
    <2>2. text[k] \in {"left", "right"}
      BY <1>2, <2>1
    <2>3. QED
      BY <1>3, <2>2
  <1>5. text # << >>
    BY <1>2
  <1>6. QED
    BY <1>2, <1>4, <1>5 DEF MarksWrap

(* A run that is printed can be executed, for every program.  A lasso,     *)
(* unfolded into single instructions, is an execution from the start that  *)
(* comes back to where its red part begins, without what was asked for,    *)
(* and the text behind it goes on after the last instruction; a witness is *)
(* one on which what was asked for happens in the state that its last step *)
(* leaves, and not before.                                                 *)
THEOREM RunsAreExecutions ==
    ASSUME SmallTapes
    PROVE  Spec => []PrintsExecution
  <1>1. Init => LassoExecutes /\ MarksInv
    BY DEF Init, LassoExecutes, Refuted, MarksInv, Witnessed, Answers
  <1>2. /\ Commanded /\ LassoExecutes /\ [Next]_vars => LassoExecutes'
        /\ Commanded /\ MarksInv /\ [Next]_vars => MarksInv'
    BY PrintsStep, MarksStep
  <1>3. Spec => []Commanded
    BY CommandedInvariant
  <1>4. LassoExecutes /\ MarksInv => PrintsExecution
    BY MarksWitness DEF PrintsExecution
  <1>5. QED
    BY <1>1, <1>2, <1>3, <1>4, PTL DEF Spec

(* The counterexample of check overflow ends with the instruction that     *)
(* wraps the cell first, for every program, and the mark says which way it *)
(* wraps.                                                                  *)
THEOREM WrapsAreMarked ==
    ASSUME SmallTapes
    PROVE  Spec => []MarksWrap
  <1>1. Init => MarksInv
    BY DEF Init, MarksInv, Witnessed, Answers
  <1>2. Commanded /\ MarksInv /\ [Next]_vars => MarksInv'
    BY MarksStep
  <1>3. Spec => []Commanded
    BY CommandedInvariant
  <1>4. Commanded /\ MarksInv => MarksWrap
    BY MarksLast DEF MarksWrap
  <1>5. QED
    BY <1>1, <1>2, <1>3, <1>4, PTL DEF Spec
=============================================================================

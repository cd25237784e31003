------------------------- MODULE SearchAlwaysProofs -------------------------
(***************************************************************************)
(* search_always() decides E G(atom) on every state graph on which it      *)
(* returns, and the lasso it returns never leaves the atom.                *)
(***************************************************************************)
EXTENDS SearchAlways, OperatorProofs

(* The hash table and the vectors describe one tree of atom states, rooted *)
(* at the initial state.                                                   *)
TableInv ==
    /\ DOMAIN index = {states[i] : i \in 1..Len(states)}
    /\ \A i \in 1..Len(states) : index[states[i]] = i /\ states[i] \in atom
    /\ Len(treeParent) = Len(states)
    /\ Len(colour) = Len(states)
    /\ states # << >> => states[1] = Start /\ treeParent[1] = NoIndex
    /\ \A i \in 2..Len(states) :
          treeParent[i] \in 1..(i - 1) /\ Edge(graph, states[treeParent[i]], states[i])
    /\ pc = "start" => states = << >> /\ stack = << >>
    /\ pc \notin {"start", "none"} => states # << >>
    /\ pc = "none" => stack = << >> /\ (Start \in atom => states # << >>)

(* Every frame holds a stored state, deeper frames hold later ones, and    *)
(* while the search runs, the atom successors that a frame has passed are  *)
(* black, except the one that the next frame is exploring.                 *)
FrameInv ==
    /\ \A k \in 1..Len(stack) : stack[k].node \in 1..Len(states) /\ stack[k].pos >= 1
    /\ \A k, l \in 1..Len(stack) : k < l => stack[k].node < stack[l].node
    /\ pc = "search" =>
          \A k \in 1..Len(stack) :
             \A j \in 1..Len(graph[states[stack[k].node]]) :
                j < stack[k].pos =>
                   \/ graph[states[stack[k].node]][j] \notin atom
                   \/ graph[states[stack[k].node]][j] \in Black
                   \/ /\ k + 1 \in 1..Len(stack)
                      /\ graph[states[stack[k].node]][j] = states[stack[k + 1].node]

(* No run that stays in the atom visits a black state.                     *)
BlackOutside ==
    \A S \in SUBSET atom :
        Sustains(graph, S) => Black \cap S = {}

(* What following the tree parents has established.                        *)
RunInv ==
    /\ pc \in {"start", "search"} => cycle = << >> /\ prefix = << >>
    /\ pc = "cycle" =>
          /\ prefix = << >>
          /\ \E k, m \in 1..Len(stack) :
                m <= k /\ at = stack[k].node /\ child = stack[m].node
          /\ Collected(graph, cycle, states[child])
          /\ Edge(graph, states[at], Joint(cycle, states[child]))
          /\ \A i \in 1..Len(cycle) : cycle[i] \in atom
    /\ pc \in {"prefix", "found"} => IsCycle(graph, atom, cycle)
    /\ pc = "prefix" =>
          /\ at \in 0..Len(states)
          /\ Collected(graph, prefix, cycle[1])
          /\ at = NoIndex => Joint(prefix, cycle[1]) = Start
          /\ at # NoIndex => Edge(graph, states[at], Joint(prefix, cycle[1]))
          /\ \A i \in 1..Len(prefix) : prefix[i] \in atom
    /\ pc = "found" =>
          /\ LeadsTo(graph, prefix, cycle[1])
          /\ \A i \in 1..Len(prefix) : prefix[i] \in atom

IInv ==
    /\ TypeOK /\ TableInv /\ FrameInv /\ PathInv
    /\ BlackInv /\ BlackOutside /\ RunInv

-----------------------------------------------------------------------------
LEMMA InitIInv == Init => IInv
<1> SUFFICES ASSUME Init PROVE IInv
  OBVIOUS
<1>1. TypeOK
  BY GraphAssumption DEF Init, TypeOK, NoIndex
<1>2. TableInv
  BY DEF Init, TableInv
<1>3. FrameInv /\ PathInv /\ BlackInv /\ BlackOutside
  BY DEF Init, FrameInv, PathInv, BlackInv, BlackOutside, Black
<1>4. RunInv
  BY DEF Init, RunInv
<1>. QED
  BY <1>1, <1>2, <1>3, <1>4 DEF IInv

(* The top frame, the candidate it offers and the stack after next().      *)
LEMMA TopFacts ==
    ASSUME IInv, stack # << >>
    PROVE  /\ Len(stack) \in 1..Len(stack)
           /\ Top \in Frame
           /\ Top.node \in 1..Len(states)
           /\ states[Top.node] \in Node
           /\ Neighbours \in Seq(Node)
<1>1. Len(stack) \in 1..Len(stack)
  BY DEF IInv, TypeOK
<1>2. Top \in Frame /\ Top.node \in 1..Len(states)
  BY <1>1 DEF IInv, TypeOK, FrameInv, Top
<1>3. states[Top.node] \in Node
  BY <1>2 DEF IInv, TypeOK
<1>4. Neighbours \in Seq(Node)
  BY <1>3, GraphAssumption DEF IInv, TypeOK, Neighbours
<1>. QED
  BY <1>1, <1>2, <1>3, <1>4

LEMMA CandidateFacts ==
    ASSUME IInv, HasCandidate
    PROVE  /\ Top.pos \in 1..Len(Neighbours)
           /\ Candidate \in Node
           /\ Edge(graph, states[Top.node], Candidate)
<1>1. Top.pos \in 1..Len(Neighbours)
  BY TopFacts DEF IInv, FrameInv, HasCandidate, Top, Frame
<1>2. Candidate \in Node
  BY <1>1, TopFacts DEF HasCandidate, Candidate
<1>. QED
  BY <1>1, <1>2 DEF Candidate, Edge, Neighbours

LEMMA AdvancedFacts ==
    ASSUME IInv, stack # << >>
    PROVE  /\ Advanced \in Seq(Frame)
           /\ Len(Advanced) = Len(stack)
           /\ \A k \in 1..Len(stack) : Advanced[k].node = stack[k].node
           /\ \A k \in 1..Len(stack) : k # Len(stack) => Advanced[k].pos = stack[k].pos
           /\ Advanced[Len(stack)].pos = Top.pos + 1
<1>1. stack \in Seq(Frame) /\ Len(stack) \in 1..Len(stack)
  BY TopFacts DEF IInv, TypeOK
<1>2. stack \in [1..Len(stack) -> Frame] /\ Len(stack) \in Nat
  BY <1>1
<1>3. [stack[Len(stack)] EXCEPT !.pos = @ + 1] \in Frame
  <2>1. stack[Len(stack)] \in Frame
    BY TopFacts DEF Top
  <2>2. \A f \in Frame : [f EXCEPT !.pos = @ + 1] \in Frame
    BY DEF Frame
  <2>. QED
    BY <2>1, <2>2
<1>4. Advanced = [stack EXCEPT ![Len(stack)] = [stack[Len(stack)] EXCEPT !.pos = @ + 1]]
  BY DEF Advanced
<1>5. Advanced \in [1..Len(stack) -> Frame]
  BY <1>2, <1>3, <1>4
<1>6. Advanced \in Seq(Frame) /\ Len(Advanced) = Len(stack)
  BY <1>2, <1>5
<1>7. ASSUME NEW k \in 1..Len(stack)
      PROVE  Advanced[k] = IF k = Len(stack) THEN [stack[Len(stack)] EXCEPT !.pos = @ + 1]
                           ELSE stack[k]
  BY <1>2, <1>4
<1>8. \A k \in 1..Len(stack) : stack[k] \in Frame
  BY <1>2
<1>. QED
  BY <1>1, <1>6, <1>7, <1>8 DEF Top, Frame

LEMMA FrontFacts ==
    ASSUME IInv, stack # << >>
    PROVE  /\ Front(stack) \in Seq(Frame)
           /\ Len(Front(stack)) = Len(stack) - 1
           /\ \A k \in 1..(Len(stack) - 1) : Front(stack)[k] = stack[k] /\ k \in 1..Len(stack)
<1>1. stack \in Seq(Frame) /\ Len(stack) - 1 \in Nat
  BY TopFacts DEF IInv, TypeOK
<1>2. Front(stack) = [k \in 1..(Len(stack) - 1) |-> stack[k]]
  BY <1>1 DEF Front
<1>. QED
  BY <1>1, <1>2

LEMMA EnterFacts ==
    ASSUME TypeOK, TableInv,
           NEW n \in Node, n \notin DOMAIN index,
           NEW p \in Nat, NEW frames \in Seq(Frame), Enter(n, p, frames)
    PROVE  /\ DOMAIN index' = DOMAIN index \cup {n}
           /\ index' \in [DOMAIN index' -> Nat]
           /\ index'[n] = Len(states) + 1
           /\ \A m \in DOMAIN index : index'[m] = index[m]
           /\ states' \in Seq(Node) /\ treeParent' \in Seq(Nat) /\ colour' \in Seq(Colour)
           /\ Len(states') = Len(states) + 1
           /\ Len(treeParent') = Len(states) + 1
           /\ Len(colour') = Len(states) + 1
           /\ states'[Len(states) + 1] = n
           /\ treeParent'[Len(states) + 1] = p
           /\ colour'[Len(states) + 1] = "gray"
           /\ \A i \in 1..Len(states) : /\ states'[i] = states[i]
                                        /\ treeParent'[i] = treeParent[i]
                                        /\ colour'[i] = colour[i]
           /\ \A i \in 1..Len(states') : i \in 1..Len(states) \/ i = Len(states) + 1
           /\ stack' \in Seq(Frame)
           /\ Len(stack') = Len(frames) + 1
           /\ stack'[Len(frames) + 1] = [node |-> Len(states) + 1, pos |-> 1]
           /\ \A k \in 1..Len(frames) : stack'[k] = frames[k]
           /\ \A k \in 1..Len(stack') : k \in 1..Len(frames) \/ k = Len(frames) + 1
<1>1. DOMAIN index' = DOMAIN index \cup {n}
  BY DEF Enter
<1>2. index' \in [DOMAIN index' -> Nat] /\ index'[n] = Len(states) + 1
      /\ \A m \in DOMAIN index : index'[m] = index[m]
  BY <1>1 DEF TypeOK, Enter
<1>3. /\ states' \in Seq(Node) /\ Len(states') = Len(states) + 1
      /\ states'[Len(states) + 1] = n
      /\ \A i \in 1..Len(states) : states'[i] = states[i]
      /\ \A i \in 1..Len(states') : i \in 1..Len(states) \/ i = Len(states) + 1
  BY AppendFacts DEF TypeOK, Enter
<1>4. treeParent' \in Seq(Nat) /\ Len(treeParent') = Len(states) + 1
      /\ treeParent'[Len(states) + 1] = p
      /\ \A i \in 1..Len(states) : treeParent'[i] = treeParent[i]
  BY SMTT(30), AppendFacts DEF TypeOK, Enter, TableInv
<1>5. colour' \in Seq(Colour) /\ Len(colour') = Len(states) + 1
      /\ colour'[Len(states) + 1] = "gray"
      /\ \A i \in 1..Len(states) : colour'[i] = colour[i]
  <2>1. "gray" \in Colour
    BY DEF Colour
  <2>. QED
    BY SMTT(30), <2>1, AppendFacts DEF TypeOK, Enter, TableInv
<1>6. /\ stack' \in Seq(Frame)
      /\ Len(stack') = Len(frames) + 1
      /\ stack'[Len(frames) + 1] = [node |-> Len(states) + 1, pos |-> 1]
      /\ \A k \in 1..Len(frames) : stack'[k] = frames[k]
      /\ \A k \in 1..Len(stack') : k \in 1..Len(frames) \/ k = Len(frames) + 1
  <2>1. [node |-> Len(states) + 1, pos |-> 1] \in Frame
    BY DEF TypeOK, Frame
  <2>. QED
    BY <2>1, AppendFacts DEF Enter
<1>. QED
  BY <1>1, <1>2, <1>3, <1>4, <1>5, <1>6

LEMMA NextTypeOK == IInv /\ [Next]_vars => TypeOK'
<1> SUFFICES ASSUME IInv, [Next]_vars PROVE TypeOK'
  OBVIOUS
<1>0. TypeOK /\ TableInv /\ FrameInv /\ RunInv
  BY DEF IInv
<1>1. CASE RejectStart \/ Exhausted
  BY <1>0, <1>1 DEF TypeOK, RejectStart, Exhausted, args, tables, run
<1>2. CASE EnterStart
  <2>1. Start \notin DOMAIN index
    BY <1>0, <1>2 DEF EnterStart, TableInv, TypeOK
  <2>2. Start \in Node /\ NoIndex \in Nat
    BY GraphAssumption DEF NoIndex
  <2>3. /\ DOMAIN index' = DOMAIN index \cup {Start}
        /\ index' \in [DOMAIN index' -> Nat]
        /\ states' \in Seq(Node) /\ treeParent' \in Seq(Nat) /\ colour' \in Seq(Colour)
        /\ stack' \in Seq(Frame)
    BY <1>0, <1>2, <2>1, <2>2, EnterFacts DEF EnterStart, TypeOK
  <2>. QED
    BY <1>0, <1>2, <2>2, <2>3 DEF EnterStart, TypeOK, args, run
<1>3. CASE SkipOutside \/ SkipBlack \/ CloseCycle
  <2>1. Advanced \in Seq(Frame)
    BY <1>3, AdvancedFacts DEF SkipOutside, SkipBlack, CloseCycle, HasCandidate
  <2>2. CASE SkipOutside \/ SkipBlack
    BY <1>0, <2>1, <2>2 DEF SkipOutside, SkipBlack, TypeOK, args, tables, run
  <2>3. CASE CloseCycle
    <3>1. Top.node \in Nat /\ index[Candidate] \in Nat
      BY <1>0, <2>3, TopFacts DEF CloseCycle, HasCandidate, TypeOK, Frame
    <3>. QED
      BY <1>0, <2>1, <2>3, <3>1 DEF CloseCycle, TypeOK, args, tables
  <2>. QED
    BY <1>3, <2>2, <2>3
<1>4. CASE Descend
  <2>1. Candidate \in Node /\ Candidate \notin DOMAIN index /\ Advanced \in Seq(Frame)
        /\ Top.node \in Nat
    BY <1>4, CandidateFacts, AdvancedFacts, TopFacts DEF Descend, HasCandidate, Frame
  <2>2. /\ DOMAIN index' = DOMAIN index \cup {Candidate}
        /\ index' \in [DOMAIN index' -> Nat]
        /\ states' \in Seq(Node) /\ treeParent' \in Seq(Nat) /\ colour' \in Seq(Colour)
        /\ stack' \in Seq(Frame)
    BY <1>0, <1>4, <2>1, EnterFacts DEF Descend
  <2>. QED
    BY <1>0, <1>4, <2>1, <2>2 DEF Descend, TypeOK, args, run
<1>5. CASE Backtrack
  <2>1. Front(stack) \in Seq(Frame)
    BY <1>5, FrontFacts DEF Backtrack
  <2>2. [colour EXCEPT ![Top.node] = "black"] \in Seq(Colour)
    BY <1>0, <1>5, TopFacts DEF Backtrack, TypeOK, TableInv, Colour
  <2>. QED
    BY <1>0, <1>5, <2>1, <2>2 DEF Backtrack, TypeOK, args, run
<1>6. CASE ClimbCycle
  <2>1. at \in 1..Len(states)
    BY <1>0, <1>6 DEF ClimbCycle, RunInv, FrameInv
  <2>2. states[at] \in Node /\ treeParent[at] \in Nat
    BY <1>0, <2>1 DEF TypeOK, TableInv
  <2>. QED
    BY <1>0, <1>6, <2>2 DEF ClimbCycle, TypeOK, args, tables
<1>7. CASE FinishCycle
  <2>1. child \in 1..Len(states)
    BY <1>0, <1>7 DEF FinishCycle, RunInv, FrameInv
  <2>2. states[child] \in Node /\ treeParent[child] \in Nat
    BY <1>0, <2>1 DEF TypeOK, TableInv
  <2>3. Append(cycle, states[child]) \in Seq(Node)
    BY <1>0, <2>2 DEF TypeOK
  <2>4. Reverse(Append(cycle, states[child])) \in Seq(Node)
    BY <2>3, ReverseFacts
  <2>. QED
    BY <1>0, <1>7, <2>2, <2>4 DEF FinishCycle, TypeOK, args, tables
<1>8. CASE ClimbPrefix
  <2>1. at \in 1..Len(states)
    BY <1>0, <1>8 DEF ClimbPrefix, RunInv, NoIndex, TypeOK
  <2>2. states[at] \in Node /\ treeParent[at] \in Nat
    BY <1>0, <2>1 DEF TypeOK, TableInv
  <2>. QED
    BY <1>0, <1>8, <2>2 DEF ClimbPrefix, TypeOK, args, tables
<1>9. CASE ReturnRun
  <2>1. Reverse(prefix) \in Seq(Node)
    BY <1>0, ReverseFacts DEF TypeOK
  <2>. QED
    BY <1>0, <1>9, <2>1 DEF ReturnRun, TypeOK, args, tables
<1>10. CASE UNCHANGED vars
  BY <1>0, <1>10 DEF TypeOK, vars
<1>. QED
  BY <1>1, <1>2, <1>3, <1>4, <1>5, <1>6, <1>7, <1>8, <1>9, <1>10 DEF Next

LEMMA NextTableInv == IInv /\ [Next]_vars => TableInv'
<1> SUFFICES ASSUME IInv, [Next]_vars PROVE TableInv'
  OBVIOUS
<1>0. TypeOK /\ TableInv /\ FrameInv
  BY DEF IInv
<1>1. ASSUME NEW n \in Node, n \in atom, n \notin DOMAIN index, NEW p \in Nat,
             NEW frames \in Seq(Frame), Enter(n, p, frames), graph' = graph, atom' = atom,
             pc' = "search",
             states = << >> => n = Start /\ p = NoIndex,
             states # << >> => p \in 1..Len(states) /\ Edge(graph, states[p], n)
      PROVE  TableInv'
  <2>1. /\ DOMAIN index' = DOMAIN index \cup {n}
        /\ index'[n] = Len(states) + 1
        /\ \A m \in DOMAIN index : index'[m] = index[m]
        /\ states' \in Seq(Node)
        /\ Len(states') = Len(states) + 1
        /\ Len(treeParent') = Len(states) + 1
        /\ Len(colour') = Len(states) + 1
        /\ states'[Len(states) + 1] = n
        /\ treeParent'[Len(states) + 1] = p
        /\ \A i \in 1..Len(states) : states'[i] = states[i] /\ treeParent'[i] = treeParent[i]
        /\ \A i \in 1..Len(states') : i \in 1..Len(states) \/ i = Len(states) + 1
    BY <1>0, <1>1, EnterFacts
  <2>2. Len(states) \in Nat /\ states' # << >> /\ Len(states) + 1 \in 1..Len(states')
        /\ \A i \in 1..Len(states) : i \in 1..Len(states')
    BY <1>0, <2>1 DEF TypeOK
  <2>3. \A i \in 1..Len(states) : states[i] \in DOMAIN index
    BY <1>0 DEF TableInv
  <2>4. DOMAIN index' = {states'[i] : i \in 1..Len(states')}
    <3>1. ASSUME NEW m \in DOMAIN index
          PROVE  \E i \in 1..Len(states') : states'[i] = m
      <4>1. PICK i \in 1..Len(states) : states[i] = m
        BY <1>0 DEF TableInv
      <4>. QED
        BY <4>1, <2>1, <2>2
    <3>2. \E i \in 1..Len(states') : states'[i] = n
      BY <2>1, <2>2
    <3>3. \A i \in 1..Len(states') : states'[i] \in DOMAIN index \cup {n}
      BY <2>1, <2>3
    <3>. QED
      BY <3>1, <3>2, <3>3, <2>1
  <2>5. \A i \in 1..Len(states') : index'[states'[i]] = i /\ states'[i] \in atom
    <3>1. \A i \in 1..Len(states) : index'[states'[i]] = i /\ states'[i] \in atom
      BY ZenonT(30), <1>0, <2>1, <2>3 DEF TableInv
    <3>. QED
      BY <1>1, <2>1, <3>1
  <2>6. states'[1] = Start /\ treeParent'[1] = NoIndex
    <3>1. CASE states = << >>
      BY <3>1, <1>1, <2>1
    <3>2. CASE states # << >>
      <4>1. 1 \in 1..Len(states)
        BY <3>2, <1>0 DEF TypeOK
      <4>. QED
        BY <4>1, <3>2, <1>0, <2>1 DEF TableInv
    <3>. QED
      BY <3>1, <3>2
  <2>7. ASSUME NEW i \in 2..Len(states')
        PROVE  treeParent'[i] \in 1..(i - 1) /\ Edge(graph, states'[treeParent'[i]], states'[i])
    <3>1. CASE i = Len(states) + 1
      <4>1. states # << >>
        BY <3>1, <2>2
      <4>. QED
        BY <3>1, <4>1, <1>1, <2>1, <2>2
    <3>2. CASE i # Len(states) + 1
      <4>1. i \in 2..Len(states) /\ i \in 1..Len(states)
        BY <3>2, <2>1, <2>2
      <4>2. treeParent[i] \in 1..(i - 1) /\ treeParent[i] \in 1..Len(states)
            /\ Edge(graph, states[treeParent[i]], states[i])
        BY SMTT(30), <4>1, <1>0 DEF TableInv, TypeOK
      <4>. QED
        BY <4>1, <4>2, <2>1
    <3>. QED
      BY <3>1, <3>2
  <2>. QED
    BY <1>1, <2>1, <2>2, <2>4, <2>5, <2>6, <2>7 DEF TableInv
<1>2. CASE EnterStart
  <2>1. Start \in Node /\ NoIndex \in Nat /\ states = << >> /\ stack \in Seq(Frame)
        /\ Start \notin DOMAIN index
    BY <1>0, <1>2, GraphAssumption DEF EnterStart, TableInv, TypeOK, NoIndex
  <2>. QED
    BY <1>1, <1>2, <2>1 DEF EnterStart, args
<1>3. CASE Descend
  <2>1. /\ Candidate \in Node /\ Advanced \in Seq(Frame)
        /\ Top.node \in Nat /\ Top.node \in 1..Len(states)
        /\ Edge(graph, states[Top.node], Candidate)
    BY <1>3, CandidateFacts, AdvancedFacts, TopFacts DEF Descend, HasCandidate, Frame
  <2>2. states # << >> /\ pc = "search"
    BY <1>0, <1>3 DEF Descend, HasCandidate, TableInv
  <2>. QED
    BY <1>1, <1>3, <2>1, <2>2 DEF Descend, args
<1>4. ASSUME UNCHANGED <<graph, atom, index, states, treeParent>>,
             Len(colour') = Len(colour),
             pc' = "start" => states = << >> /\ stack' = << >>,
             pc' \notin {"start", "none"} => states # << >>,
             pc' = "none" => stack' = << >> /\ (Start \in atom => states # << >>)
      PROVE  TableInv'
  BY <1>0, <1>4 DEF TableInv
<1>5. CASE RejectStart \/ Exhausted
  BY <1>0, <1>4, <1>5 DEF RejectStart, Exhausted, TableInv, args, tables
<1>6. CASE SkipOutside \/ SkipBlack \/ CloseCycle
  BY <1>0, <1>4, <1>6 DEF SkipOutside, SkipBlack, CloseCycle, HasCandidate, TableInv, args, tables
<1>7. CASE ClimbCycle \/ FinishCycle \/ ClimbPrefix \/ ReturnRun
  BY <1>0, <1>4, <1>7 DEF ClimbCycle, FinishCycle, ClimbPrefix, ReturnRun, TableInv, args, tables
<1>8. CASE Backtrack
  <2>1. Len(colour') = Len(colour)
    BY <1>0, <1>8 DEF Backtrack, TypeOK
  <2>. QED
    BY <1>0, <1>4, <1>8, <2>1 DEF Backtrack, TableInv, args
<1>9. CASE UNCHANGED vars
  BY <1>0, <1>4, <1>9 DEF TableInv, vars
<1>. QED
  BY <1>2, <1>3, <1>5, <1>6, <1>7, <1>8, <1>9 DEF Next

-----------------------------------------------------------------------------
(* Colours only darken.                                                    *)
LEMMA BlackGrows == IInv /\ [Next]_vars => Black \subseteq Black'
<1> SUFFICES ASSUME IInv, [Next]_vars, NEW n \in Black
             PROVE  n \in DOMAIN index' /\ colour'[index'[n]] = "black"
  BY DEF Black
<1>0. TypeOK /\ TableInv
  BY DEF IInv
<1>2. n \in DOMAIN index /\ colour[index[n]] = "black"
  BY DEF Black
<1>3. index[n] \in 1..Len(states)
  BY <1>0, <1>2 DEF TableInv
<1>4. CASE UNCHANGED <<index, colour>>
  BY <1>2, <1>4
<1>5. ASSUME NEW m \in Node, m \notin DOMAIN index, NEW p \in Nat,
             NEW frames \in Seq(Frame), Enter(m, p, frames)
      PROVE  n \in DOMAIN index' /\ colour'[index'[n]] = "black"
  <2>1. /\ DOMAIN index' = DOMAIN index \cup {m}
        /\ \A l \in DOMAIN index : index'[l] = index[l]
        /\ \A i \in 1..Len(states) : colour'[i] = colour[i]
    BY <1>0, <1>5, EnterFacts
  <2>. QED
    BY <1>2, <1>3, <2>1
<1>6. CASE EnterStart
  <2>1. Start \in Node /\ NoIndex \in Nat /\ stack \in Seq(Frame) /\ Start \notin DOMAIN index
    BY <1>0, <1>6, GraphAssumption DEF EnterStart, TableInv, TypeOK, NoIndex
  <2>. QED
    BY <1>5, <1>6, <2>1 DEF EnterStart
<1>7. CASE Descend
  <2>1. /\ Candidate \in Node /\ Advanced \in Seq(Frame) /\ Top.node \in Nat
    BY <1>7, CandidateFacts, AdvancedFacts, TopFacts DEF Descend, HasCandidate, Frame
  <2>. QED
    BY <1>5, <1>7, <2>1 DEF Descend
<1>8. CASE Backtrack
  <2>1. index' = index /\ colour' = [colour EXCEPT ![Top.node] = "black"]
    BY <1>8 DEF Backtrack, tables
  <2>. QED
    BY <1>0, <1>2, <1>3, <2>1 DEF TypeOK, TableInv
<1>. QED
  BY <1>4, <1>6, <1>7, <1>8
  DEF Next, RejectStart, SkipOutside, CloseCycle, SkipBlack, Exhausted,
      ClimbCycle, FinishCycle, ClimbPrefix, ReturnRun, tables, vars

(* The steps that only move the top frame past its candidate.              *)
LEMMA PassCandidate ==
    ASSUME IInv, [Next]_vars, HasCandidate, UNCHANGED <<args, tables>>, stack' = Advanced,
           pc' = "search" => Candidate \notin atom \/ Candidate \in Black
    PROVE  FrameInv'
<1>0. TypeOK /\ TableInv /\ FrameInv
  BY DEF IInv
<1>1. /\ Len(stack') = Len(stack) /\ Len(stack) \in 1..Len(stack)
      /\ \A k \in 1..Len(stack) : stack'[k].node = stack[k].node
      /\ \A k \in 1..Len(stack) : k # Len(stack) => stack'[k].pos = stack[k].pos
      /\ stack'[Len(stack)].pos = Top.pos + 1
  BY AdvancedFacts, TopFacts DEF HasCandidate
<1>2. UNCHANGED <<graph, atom, states>> /\ pc = "search" /\ Black' = Black
  BY DEF args, tables, HasCandidate, Black
<1>3. Top.pos \in 1..Len(Neighbours) /\ Len(Neighbours) \in Nat /\ Top = stack[Len(stack)]
  BY CandidateFacts, TopFacts DEF HasCandidate, Top
<1>4. \A k \in 1..Len(stack') : stack'[k].node \in 1..Len(states') /\ stack'[k].pos >= 1
  <2>1. \A k \in 1..Len(stack') : k = Len(stack) \/ stack'[k].pos >= 1
    BY <1>0, <1>1 DEF FrameInv
  <2>2. stack'[Len(stack)].pos >= 1
    BY <1>1, <1>3
  <2>. QED
    BY <1>0, <1>1, <1>2, <2>1, <2>2 DEF FrameInv
<1>5. \A k, l \in 1..Len(stack') : k < l => stack'[k].node < stack'[l].node
  BY <1>0, <1>1 DEF FrameInv
<1>6. ASSUME pc' = "search", NEW k \in 1..Len(stack),
             NEW j \in 1..Len(graph[states[stack[k].node]]), j < stack'[k].pos
      PROVE  \/ graph[states[stack[k].node]][j] \notin atom
             \/ graph[states[stack[k].node]][j] \in Black
             \/ /\ k + 1 \in 1..Len(stack)
                /\ graph[states[stack[k].node]][j] = states[stack[k + 1].node]
  <2>1. CASE j < stack[k].pos
    BY <1>0, <1>2, <2>1 DEF FrameInv
  <2>2. CASE ~(j < stack[k].pos)
    <3>1. k = Len(stack)
      BY <1>1, <1>6, <2>2
    <3>2. j = Top.pos
      BY <1>1, <1>3, <1>6, <2>2, <3>1
    <3>3. graph[states[stack[k].node]][j] = Candidate
      BY <1>3, <3>1, <3>2 DEF Candidate, Neighbours
    <3>. QED
      BY <1>6, <3>3
  <2>. QED
    BY <2>1, <2>2
<1>7. \A k \in 1..Len(stack) :
         k + 1 \in 1..Len(stack) => stack'[k + 1].node = stack[k + 1].node
  BY <1>1
<1>. QED
  BY SMTT(30), <1>1, <1>2, <1>4, <1>5, <1>6, <1>7 DEF FrameInv

LEMMA NextFrameInv == IInv /\ [Next]_vars => FrameInv'
<1> SUFFICES ASSUME IInv, [Next]_vars PROVE FrameInv'
  OBVIOUS
<1>0. TypeOK /\ TableInv /\ FrameInv
  BY DEF IInv
<1>1. CASE EnterStart
  <2>1. Start \in Node /\ NoIndex \in Nat /\ states = << >> /\ stack = << >>
        /\ stack \in Seq(Frame) /\ Start \notin DOMAIN index
    BY <1>0, <1>1, GraphAssumption DEF EnterStart, TableInv, TypeOK, NoIndex
  <2>2. Enter(Start, NoIndex, stack)
    BY <1>1 DEF EnterStart
  <2>3. /\ Len(stack') = Len(stack) + 1
        /\ stack'[Len(stack) + 1] = [node |-> Len(states) + 1, pos |-> 1]
        /\ Len(states') = Len(states) + 1
    BY <1>0, <2>1, <2>2, EnterFacts
  <2>4. Len(stack') = 1 /\ stack'[1] = [node |-> 1, pos |-> 1] /\ Len(states') = 1
    BY <2>1, <2>3
  <2>. QED
    BY <2>4 DEF FrameInv
<1>2. CASE Descend
  <2>1. /\ Candidate \in Node /\ Candidate \notin DOMAIN index /\ Advanced \in Seq(Frame)
        /\ Top.node \in Nat /\ Top.pos \in 1..Len(Neighbours) /\ Len(Neighbours) \in Nat
        /\ Top = stack[Len(stack)] /\ Top.node \in 1..Len(states)
    BY <1>2, CandidateFacts, AdvancedFacts, TopFacts DEF Descend, HasCandidate, Frame, Top
  <2>2. /\ Len(Advanced) = Len(stack) /\ Len(stack) \in 1..Len(stack)
        /\ \A k \in 1..Len(stack) : Advanced[k].node = stack[k].node
        /\ \A k \in 1..Len(stack) : k # Len(stack) => Advanced[k].pos = stack[k].pos
        /\ Advanced[Len(stack)].pos = Top.pos + 1
    BY <1>2, AdvancedFacts, TopFacts DEF Descend, HasCandidate
  <2>3. /\ Len(states') = Len(states) + 1
        /\ states'[Len(states) + 1] = Candidate
        /\ \A i \in 1..Len(states) : states'[i] = states[i]
        /\ Len(stack') = Len(stack) + 1
        /\ stack'[Len(stack) + 1] = [node |-> Len(states) + 1, pos |-> 1]
        /\ \A k \in 1..Len(stack) : stack'[k] = Advanced[k]
        /\ \A k \in 1..Len(stack') : k \in 1..Len(stack) \/ k = Len(stack) + 1
    <3>1. Enter(Candidate, Top.node, Advanced)
      BY <1>2 DEF Descend
    <3>2. /\ Len(states') = Len(states) + 1
          /\ states'[Len(states) + 1] = Candidate
          /\ \A i \in 1..Len(states) : states'[i] = states[i]
          /\ Len(stack') = Len(Advanced) + 1
          /\ stack'[Len(Advanced) + 1] = [node |-> Len(states) + 1, pos |-> 1]
          /\ \A k \in 1..Len(Advanced) : stack'[k] = Advanced[k]
          /\ \A k \in 1..Len(stack') : k \in 1..Len(Advanced) \/ k = Len(Advanced) + 1
      <4>1. TypeOK /\ TableInv
        BY <1>0
      <4>2. Candidate \in Node /\ Candidate \notin DOMAIN index /\ Advanced \in Seq(Frame)
            /\ Top.node \in Nat
        BY <2>1
      <4>. QED
        BY ZenonT(30), <4>1, <4>2, <3>1, EnterFacts
    <3>. QED
      BY <2>2, <3>2
  <2>4. Len(states) \in Nat /\ graph' = graph /\ atom' = atom /\ pc = "search" /\ pc' = "search"
    BY <1>0, <1>2 DEF Descend, HasCandidate, TypeOK, args
  <2>5. \A k \in 1..Len(stack) : stack[k].node \in 1..Len(states) /\ stack'[k].node = stack[k].node
    BY <1>0, <2>2, <2>3 DEF FrameInv
  <2>6. \A k \in 1..Len(stack') : stack'[k].node \in 1..Len(states') /\ stack'[k].pos >= 1
    <3>1. \A k \in 1..Len(stack) : stack'[k].pos >= 1
      BY <1>0, <2>1, <2>2, <2>3 DEF FrameInv
    <3>. QED
      BY <2>3, <2>4, <2>5, <3>1
  <2>7. \A k, l \in 1..Len(stack') : k < l => stack'[k].node < stack'[l].node
    <3> SUFFICES ASSUME NEW k \in 1..Len(stack'), NEW l \in 1..Len(stack'), k < l
                 PROVE  stack'[k].node < stack'[l].node
      OBVIOUS
    <3>1. k \in 1..Len(stack)
      BY <2>2, <2>3
    <3>2. CASE l \in 1..Len(stack)
      BY <3>1, <3>2, <2>5, <1>0 DEF FrameInv
    <3>3. CASE l = Len(stack) + 1
      BY <3>1, <3>3, <2>3, <2>4, <2>5
    <3>. QED
      BY <3>2, <3>3, <2>3
  <2>8. ASSUME NEW k \in 1..Len(stack'),
               NEW j \in 1..Len(graph[states'[stack'[k].node]]), j < stack'[k].pos
        PROVE  \/ graph[states'[stack'[k].node]][j] \notin atom
               \/ graph[states'[stack'[k].node]][j] \in Black'
               \/ /\ k + 1 \in 1..Len(stack')
                  /\ graph[states'[stack'[k].node]][j] = states'[stack'[k + 1].node]
    <3>1. k \in 1..Len(stack)
      BY <2>3, <2>8
    <3>2. /\ stack'[k].node = stack[k].node
          /\ states'[stack'[k].node] = states[stack[k].node]
          /\ j \in 1..Len(graph[states[stack[k].node]])
      BY <3>1, <2>3, <2>5
    <3>3. CASE j < stack[k].pos
      <4>1. \/ graph[states[stack[k].node]][j] \notin atom
            \/ graph[states[stack[k].node]][j] \in Black
            \/ /\ k + 1 \in 1..Len(stack)
               /\ graph[states[stack[k].node]][j] = states[stack[k + 1].node]
        BY <1>0, <2>4, <3>1, <3>2, <3>3 DEF FrameInv
      <4>2. CASE /\ k + 1 \in 1..Len(stack)
                 /\ graph[states[stack[k].node]][j] = states[stack[k + 1].node]
        <5>1. k + 1 \in 1..Len(stack') /\ states'[stack'[k + 1].node] = states[stack[k + 1].node]
          BY <4>2, <2>2, <2>3, <2>5
        <5>. QED
          BY <4>2, <5>1, <3>2
      <4>. QED
        BY <4>1, <4>2, <3>2, BlackGrows
    <3>4. CASE ~(j < stack[k].pos)
      <4>1. k = Len(stack) /\ j = Top.pos
        BY SMTT(30), <3>1, <3>4, <2>1, <2>2, <2>3, <2>8
      <4>2. graph[states'[stack'[k].node]][j] = Candidate
        BY <4>1, <3>2, <2>1 DEF Candidate, Neighbours
      <4>. QED
        BY <4>1, <4>2, <2>2, <2>3
    <3>. QED
      BY <3>3, <3>4
  <2>. QED
    BY <2>4, <2>6, <2>7, <2>8 DEF FrameInv
<1>3. CASE SkipOutside
  BY <1>3, PassCandidate DEF SkipOutside
<1>4. CASE SkipBlack
  BY <1>4, PassCandidate DEF SkipBlack, Black
<1>5. CASE CloseCycle
  BY <1>5, PassCandidate DEF CloseCycle
<1>6. CASE Backtrack
  <2>1. /\ Len(stack') = Len(stack) - 1 /\ Len(stack) \in 1..Len(stack)
        /\ \A k \in 1..Len(stack') : stack'[k] = stack[k] /\ k \in 1..Len(stack)
    BY <1>6, FrontFacts, TopFacts DEF Backtrack
  <2>2. UNCHANGED <<graph, atom, index, states>> /\ pc = "search" /\ pc' = "search"
        /\ colour' = [colour EXCEPT ![Top.node] = "black"]
    BY <1>6 DEF Backtrack, args
  <2>3. Top.node \in 1..Len(colour) /\ Top = stack[Len(stack)]
    BY <1>0, <1>6, TopFacts DEF Backtrack, TableInv, Top
  <2>4. states[Top.node] \in Black'
    <3>1. states[Top.node] \in DOMAIN index /\ index[states[Top.node]] = Top.node
      BY <1>0, <2>3 DEF TableInv
    <3>2. colour'[Top.node] = "black"
      BY <1>0, <2>2, <2>3 DEF TypeOK
    <3>. QED
      BY <3>1, <3>2, <2>2 DEF Black
  <2>5. ASSUME NEW k \in 1..Len(stack'),
               NEW j \in 1..Len(graph[states[stack[k].node]]), j < stack[k].pos
        PROVE  \/ graph[states[stack[k].node]][j] \notin atom
               \/ graph[states[stack[k].node]][j] \in Black'
               \/ /\ k + 1 \in 1..Len(stack')
                  /\ graph[states[stack[k].node]][j] = states[stack[k + 1].node]
    <3>1. k \in 1..Len(stack)
      BY <2>1
    <3>2. \/ graph[states[stack[k].node]][j] \notin atom
          \/ graph[states[stack[k].node]][j] \in Black
          \/ /\ k + 1 \in 1..Len(stack)
             /\ graph[states[stack[k].node]][j] = states[stack[k + 1].node]
      BY <1>0, <2>2, <2>5, <3>1 DEF FrameInv
    <3>3. CASE /\ k + 1 = Len(stack)
               /\ graph[states[stack[k].node]][j] = states[stack[k + 1].node]
      BY <3>3, <2>3, <2>4
    <3>4. k + 1 \in 1..Len(stack) => k + 1 = Len(stack) \/ k + 1 \in 1..Len(stack')
      BY <2>1
    <3>. QED
      BY <3>2, <3>3, <3>4, BlackGrows
  <2>6. \A k \in 1..Len(stack') : stack'[k].node \in 1..Len(states') /\ stack'[k].pos >= 1
    BY <1>0, <2>1, <2>2 DEF FrameInv
  <2>7. \A k, l \in 1..Len(stack') : k < l => stack'[k].node < stack'[l].node
    BY <1>0, <2>1 DEF FrameInv
  <2>8. \A k \in 1..Len(stack') :
           \A j \in 1..Len(graph'[states'[stack'[k].node]]) :
              j < stack'[k].pos =>
                 \/ graph'[states'[stack'[k].node]][j] \notin atom'
                 \/ graph'[states'[stack'[k].node]][j] \in Black'
                 \/ /\ k + 1 \in 1..Len(stack')
                    /\ graph'[states'[stack'[k].node]][j] = states'[stack'[k + 1].node]
    BY <2>1, <2>2, <2>5
  <2>. QED
    BY <2>6, <2>7, <2>8 DEF FrameInv
<1>7. ASSUME UNCHANGED <<graph, atom, index, states, colour, stack>>,
             pc' = "search" => pc = "search"
      PROVE  FrameInv'
  BY <1>0, <1>7 DEF FrameInv, Black
<1>8. CASE RejectStart \/ Exhausted \/ ClimbCycle \/ FinishCycle \/ ClimbPrefix \/ ReturnRun
  BY <1>7, <1>8 DEF RejectStart, Exhausted, ClimbCycle, FinishCycle, ClimbPrefix, ReturnRun,
                    args, tables
<1>9. CASE UNCHANGED vars
  BY <1>7, <1>9 DEF vars
<1>. QED
  BY <1>1, <1>2, <1>3, <1>4, <1>5, <1>6, <1>8, <1>9 DEF Next

LEMMA NextPathInv == IInv /\ [Next]_vars => PathInv'
<1> SUFFICES ASSUME IInv, [Next]_vars PROVE PathInv'
  OBVIOUS
<1>0. TypeOK /\ TableInv /\ FrameInv /\ PathInv
  BY DEF IInv
<1>1. CASE EnterStart
  <2>1. Start \in Node /\ NoIndex \in Nat /\ states = << >> /\ stack = << >>
        /\ stack \in Seq(Frame) /\ Start \notin DOMAIN index
    BY <1>0, <1>1, GraphAssumption DEF EnterStart, TableInv, TypeOK, NoIndex
  <2>2. Enter(Start, NoIndex, stack)
    BY <1>1 DEF EnterStart
  <2>3. /\ Len(stack') = Len(stack) + 1
        /\ stack'[Len(stack) + 1] = [node |-> Len(states) + 1, pos |-> 1]
        /\ Len(states') = Len(states) + 1
        /\ colour'[Len(states) + 1] = "gray"
    BY <1>0, <2>1, <2>2, EnterFacts
  <2>4. Len(stack') = 1 /\ stack'[1].node = 1 /\ Len(states') = 1 /\ colour'[1] = "gray"
    BY <2>1, <2>3
  <2>. QED
    BY <2>4 DEF PathInv
<1>2. CASE Descend
  <2>1. /\ Candidate \in Node /\ Candidate \notin DOMAIN index /\ Advanced \in Seq(Frame)
        /\ Top.node \in Nat /\ Top = stack[Len(stack)] /\ stack # << >>
    BY <1>2, CandidateFacts, AdvancedFacts, TopFacts DEF Descend, HasCandidate, Frame, Top
  <2>2. /\ Len(Advanced) = Len(stack) /\ Len(stack) \in 1..Len(stack)
        /\ \A k \in 1..Len(stack) : Advanced[k].node = stack[k].node
    BY <1>2, AdvancedFacts, TopFacts DEF Descend, HasCandidate
  <2>3. /\ Len(states') = Len(states) + 1
        /\ \A i \in 1..Len(states) : treeParent'[i] = treeParent[i] /\ colour'[i] = colour[i]
        /\ treeParent'[Len(states) + 1] = Top.node
        /\ colour'[Len(states) + 1] = "gray"
        /\ \A i \in 1..Len(states') : i \in 1..Len(states) \/ i = Len(states) + 1
        /\ Len(stack') = Len(stack) + 1
        /\ stack'[Len(stack) + 1].node = Len(states) + 1
        /\ \A k \in 1..Len(stack) : stack'[k].node = stack[k].node
        /\ \A k \in 1..Len(stack') : k \in 1..Len(stack) \/ k = Len(stack) + 1
    <3>1. Enter(Candidate, Top.node, Advanced)
      BY <1>2 DEF Descend
    <3>2. /\ Len(states') = Len(states) + 1
          /\ \A i \in 1..Len(states) : treeParent'[i] = treeParent[i] /\ colour'[i] = colour[i]
          /\ treeParent'[Len(states) + 1] = Top.node
          /\ colour'[Len(states) + 1] = "gray"
          /\ \A i \in 1..Len(states') : i \in 1..Len(states) \/ i = Len(states) + 1
          /\ Len(stack') = Len(Advanced) + 1
          /\ stack'[Len(Advanced) + 1] = [node |-> Len(states) + 1, pos |-> 1]
          /\ \A k \in 1..Len(Advanced) : stack'[k] = Advanced[k]
          /\ \A k \in 1..Len(stack') : k \in 1..Len(Advanced) \/ k = Len(Advanced) + 1
      BY ZenonT(30), <1>0, <2>1, <3>1, EnterFacts
    <3>. QED
      BY <2>2, <3>2
  <2>4. Len(states) \in Nat /\ \A k \in 1..Len(stack) : stack[k].node \in 1..Len(states)
    BY <1>0 DEF TypeOK, FrameInv
  <2>5. stack'[1].node = 1
    BY <1>0, <2>1, <2>2, <2>3 DEF PathInv
  <2>6. ASSUME NEW k \in 1..(Len(stack') - 1)
        PROVE  treeParent'[stack'[k + 1].node] = stack'[k].node
    <3>1. Len(stack') - 1 = Len(stack)
      BY <2>2, <2>3
    <3>2. k \in 1..Len(stack)
      BY <3>1
    <3>3. CASE k = Len(stack)
      BY <2>1, <2>3, <3>2, <3>3
    <3>4. CASE k # Len(stack)
      <4>1. k \in 1..(Len(stack) - 1) /\ k + 1 \in 1..Len(stack)
        BY <3>2, <3>4, <2>2
      <4>. QED
        BY SMTT(30), <1>0, <2>3, <2>4, <3>2, <4>1 DEF PathInv
    <3>. QED
      BY <3>3, <3>4
  <2>7. ASSUME NEW i \in 1..Len(states')
        PROVE  colour'[i] = "gray" <=> \E k \in 1..Len(stack') : stack'[k].node = i
    <3>1. CASE i = Len(states) + 1
      <4>1. Len(stack) + 1 \in 1..Len(stack')
        BY <2>2, <2>3
      <4>. QED
        BY <3>1, <4>1, <2>3
    <3>2. CASE i \in 1..Len(states)
      <4>1. i # Len(states) + 1 /\ \A k \in 1..Len(stack) : k \in 1..Len(stack')
        BY <3>2, <2>2, <2>3, <2>4
      <4>. QED
        <5>1. colour[i] = "gray" <=> \E k \in 1..Len(stack) : stack[k].node = i
          BY <1>0, <3>2 DEF PathInv
        <5>2. colour'[i] = colour[i]
          BY <2>3, <3>2
        <5>3. \A k \in 1..Len(stack) : stack'[k].node = stack[k].node
          BY <2>3
        <5>4. \A k \in 1..Len(stack') : stack'[k].node = i => k \in 1..Len(stack)
          BY <2>2, <2>3, <2>4, <4>1
        <5>. QED
          BY ONLY <4>1, <5>1, <5>2, <5>3, <5>4
    <3>. QED
      BY <3>1, <3>2, <2>3
  <2>. QED
    BY <2>5, <2>6, <2>7 DEF PathInv
<1>3. CASE SkipOutside \/ SkipBlack \/ CloseCycle
  <2>1. stack # << >> /\ stack' = Advanced /\ UNCHANGED <<states, treeParent, colour>>
    BY <1>3 DEF SkipOutside, SkipBlack, CloseCycle, HasCandidate, tables
  <2>2. /\ Len(stack') = Len(stack) /\ Len(stack) \in 1..Len(stack)
        /\ \A k \in 1..Len(stack) : stack'[k].node = stack[k].node
    BY <2>1, AdvancedFacts, TopFacts
  <2>3. stack'[1].node = 1
    BY <1>0, <2>1, <2>2 DEF PathInv
  <2>4. \A k \in 1..(Len(stack') - 1) : treeParent'[stack'[k + 1].node] = stack'[k].node
    <3>1. \A k \in 1..(Len(stack) - 1) : k \in 1..Len(stack) /\ k + 1 \in 1..Len(stack)
      BY <2>2
    <3>. QED
      BY <1>0, <2>1, <2>2, <3>1 DEF PathInv
  <2>5. \A i \in 1..Len(states') :
           colour'[i] = "gray" <=> \E k \in 1..Len(stack') : stack'[k].node = i
    BY SMTT(60), <1>0, <2>1, <2>2 DEF PathInv
  <2>. QED
    BY <2>3, <2>4, <2>5 DEF PathInv
<1>4. CASE Backtrack
  <2>1. /\ Len(stack') = Len(stack) - 1 /\ Len(stack) \in 1..Len(stack)
        /\ \A k \in 1..Len(stack') : stack'[k] = stack[k] /\ k \in 1..Len(stack)
    BY <1>4, FrontFacts, TopFacts DEF Backtrack
  <2>2. UNCHANGED <<graph, atom, index, states, treeParent>> /\ stack # << >>
        /\ colour' = [colour EXCEPT ![Top.node] = "black"]
    BY <1>4 DEF Backtrack, args
  <2>3. Top.node \in 1..Len(states) /\ Top = stack[Len(stack)]
    BY <1>0, <1>4, TopFacts DEF Backtrack, Top
  <2>4. stack' # << >> => stack'[1].node = 1
    <3>1. stack' # << >> => 1 \in 1..Len(stack')
      BY <2>1, FrontFacts, <1>4 DEF Backtrack
    <3>. QED
      BY <1>0, <2>1, <2>2, <3>1 DEF PathInv
  <2>5. \A k \in 1..(Len(stack') - 1) : treeParent'[stack'[k + 1].node] = stack'[k].node
    <3>1. \A k \in 1..(Len(stack') - 1) : /\ k \in 1..Len(stack') /\ k + 1 \in 1..Len(stack')
                                          /\ k \in 1..(Len(stack) - 1)
      BY <2>1
    <3>. QED
      BY <1>0, <2>1, <2>2, <3>1 DEF PathInv
  <2>6. ASSUME NEW i \in 1..Len(states')
        PROVE  colour'[i] = "gray" <=> \E k \in 1..Len(stack') : stack'[k].node = i
    <3>1. i \in 1..Len(states) /\ i \in DOMAIN colour
      BY <2>2, <1>0 DEF TableInv, TypeOK
    <3>2. CASE i = Top.node
      <4>1. colour'[i] = "black"
        BY <3>1, <3>2, <2>2
      <4>2. \A k \in 1..Len(stack') : stack'[k].node # i
        <5> SUFFICES ASSUME NEW k \in 1..Len(stack') PROVE stack[k].node < stack[Len(stack)].node
          BY <3>2, <2>1, <2>3, <1>0 DEF FrameInv, TypeOK
        <5>1. k < Len(stack) /\ k \in 1..Len(stack)
          BY <2>1
        <5>. QED
          BY <5>1, <2>1, <1>0 DEF FrameInv
      <4>. QED
        BY <4>1, <4>2
    <3>3. CASE i # Top.node
      <4>1. colour'[i] = colour[i]
        BY <3>1, <3>3, <2>2
      <4>2. \A k \in 1..Len(stack) : stack[k].node = i => k \in 1..Len(stack')
        <5>1. \A k \in 1..Len(stack) : k = Len(stack) \/ k \in 1..Len(stack')
          BY <2>1
        <5>. QED
          BY <5>1, <3>3, <2>3
      <4>. QED
        <5>1. colour[i] = "gray" <=> \E k \in 1..Len(stack) : stack[k].node = i
          BY <1>0, <3>1 DEF PathInv
        <5>2. \A k \in 1..Len(stack') : k \in 1..Len(stack) /\ stack'[k] = stack[k]
          BY <2>1
        <5>. QED
          BY ONLY <4>1, <4>2, <5>1, <5>2
    <3>. QED
      BY <3>2, <3>3
  <2>. QED
    BY <2>4, <2>5, <2>6 DEF PathInv
<1>5. ASSUME UNCHANGED <<states, treeParent, colour, stack>> PROVE PathInv'
  BY <1>0, <1>5 DEF PathInv
<1>6. CASE RejectStart \/ Exhausted \/ ClimbCycle \/ FinishCycle \/ ClimbPrefix \/ ReturnRun
  BY <1>5, <1>6 DEF RejectStart, Exhausted, ClimbCycle, FinishCycle, ClimbPrefix, ReturnRun, tables
<1>7. CASE UNCHANGED vars
  BY <1>5, <1>7 DEF vars
<1>. QED
  BY <1>1, <1>2, <1>3, <1>4, <1>6, <1>7 DEF Next

LEMMA NextBlackInv == IInv /\ [Next]_vars => BlackInv' /\ BlackOutside'
<1> SUFFICES ASSUME IInv, [Next]_vars PROVE BlackInv' /\ BlackOutside'
  OBVIOUS
<1>0. TypeOK /\ TableInv /\ FrameInv /\ BlackInv /\ BlackOutside
  BY DEF IInv
<1>1. CASE Backtrack
  <2> DEFINE top == states[Top.node]
  <2>1. UNCHANGED <<graph, atom, index, states>> /\ pc = "search" /\ stack # << >>
        /\ colour' = [colour EXCEPT ![Top.node] = "black"] /\ Top.pos > Len(Neighbours)
    BY <1>1 DEF Backtrack, args
  <2>2. /\ Len(stack) \in 1..Len(stack) /\ Top = stack[Len(stack)] /\ top \in Node
        /\ Top.node \in 1..Len(states) /\ Neighbours = graph[top] /\ Neighbours \in Seq(Node)
        /\ Top.pos \in Nat
    BY <2>1, TopFacts DEF Top, Neighbours, Frame
  <2>3. top \in DOMAIN index /\ index[top] = Top.node
    BY <1>0, <2>2 DEF TableInv
  <2>4. Black' = Black \cup {top}
    <3>1. \A n \in DOMAIN index : index[n] \in 1..Len(states) /\ (index[n] = Top.node => n = top)
      BY <1>0 DEF TableInv
    <3>2. \A i \in 1..Len(states) : colour'[i] = IF i = Top.node THEN "black" ELSE colour[i]
      BY <1>0, <2>1 DEF TableInv, TypeOK
    <3>. QED
      BY <2>1, <2>3, <3>1, <3>2 DEF Black
  <2>5. \A j \in 1..Len(graph[top]) : graph[top][j] \in atom => graph[top][j] \in Black
    <3>1. \A j \in 1..Len(graph[top]) : j < Top.pos
      BY <2>1, <2>2
    <3>2. Len(stack) + 1 \notin 1..Len(stack)
      BY <2>2
    <3>. QED
      BY <1>0, <2>1, <2>2, <3>1, <3>2 DEF FrameInv
  <2>6. BlackInv'
    BY <1>0, <2>1, <2>4, <2>5 DEF BlackInv
  <2>7. ASSUME NEW S \in SUBSET atom, Sustains(graph, S) PROVE top \notin S
    <3>1. Black \cap S = {}
      BY <1>0, <2>7 DEF BlackOutside
    <3>2. SUFFICES ASSUME top \in S PROVE FALSE
      OBVIOUS
    <3>3. PICK n \in S : Edge(graph, top, n)
      BY <2>7, <3>2 DEF Sustains
    <3>4. n \in Black
      BY <3>3, <2>5 DEF Edge
    <3>. QED
      BY <3>1, <3>3, <3>4
  <2>8. BlackOutside'
    BY <1>0, <2>1, <2>4, <2>7 DEF BlackOutside
  <2>. QED
    BY <2>6, <2>8
<1>2. ASSUME UNCHANGED <<graph, atom>>, Black' = Black
      PROVE  BlackInv' /\ BlackOutside'
  BY <1>0, <1>2 DEF BlackInv, BlackOutside
<1>3. ASSUME NEW n \in Node, n \notin DOMAIN index, NEW p \in Nat,
             NEW frames \in Seq(Frame), Enter(n, p, frames)
      PROVE  Black' = Black
  <2>1. /\ DOMAIN index' = DOMAIN index \cup {n}
        /\ index'[n] = Len(states) + 1
        /\ \A m \in DOMAIN index : index'[m] = index[m]
        /\ colour'[Len(states) + 1] = "gray"
        /\ \A i \in 1..Len(states) : colour'[i] = colour[i]
    BY <1>0, <1>3, EnterFacts
  <2>2. \A m \in DOMAIN index : index[m] \in 1..Len(states)
    BY <1>0 DEF TableInv
  <2>. QED
    BY <1>3, <2>1, <2>2 DEF Black
<1>4. CASE EnterStart
  <2>1. Start \in Node /\ NoIndex \in Nat /\ stack \in Seq(Frame) /\ Start \notin DOMAIN index
    BY <1>0, <1>4, GraphAssumption DEF EnterStart, TableInv, TypeOK, NoIndex
  <2>. QED
    BY <1>2, <1>3, <1>4, <2>1 DEF EnterStart, args
<1>5. CASE Descend
  <2>1. /\ Candidate \in Node /\ Advanced \in Seq(Frame) /\ Top.node \in Nat
    BY <1>5, CandidateFacts, AdvancedFacts, TopFacts DEF Descend, HasCandidate, Frame
  <2>. QED
    BY <1>2, <1>3, <1>5, <2>1 DEF Descend, args
<1>6. CASE UNCHANGED <<graph, atom, index, colour>>
  BY <1>2, <1>6 DEF Black
<1>. QED
  BY <1>1, <1>4, <1>5, <1>6
  DEF Next, RejectStart, SkipOutside, CloseCycle, SkipBlack, Exhausted,
      ClimbCycle, FinishCycle, ClimbPrefix, ReturnRun, args, tables, vars

-----------------------------------------------------------------------------
(* The tree parent of a stored state, seen from the state.                 *)
LEMMA ParentFacts ==
    ASSUME IInv, NEW i \in 1..Len(states)
    PROVE  \/ i = 1 /\ treeParent[i] = NoIndex /\ states[i] = Start
           \/ /\ i \in 2..Len(states)
              /\ treeParent[i] \in 1..(i - 1)
              /\ treeParent[i] \in 1..Len(states)
              /\ treeParent[i] # NoIndex
              /\ Edge(graph, states[treeParent[i]], states[i])
<1>0. TypeOK /\ TableInv
  BY DEF IInv
<1>1. CASE i = 1
  BY <1>0, <1>1 DEF TableInv, TypeOK
<1>2. CASE i # 1
  <2>1. i \in 2..Len(states)
    BY <1>2, <1>0 DEF TypeOK
  <2>. QED
    BY SMTT(30), <1>0, <2>1 DEF TableInv, TypeOK, NoIndex
<1>. QED
  BY <1>1, <1>2

LEMMA NextRunInv == IInv /\ [Next]_vars => RunInv'
<1> SUFFICES ASSUME IInv, [Next]_vars PROVE RunInv'
  OBVIOUS
<1>0. TypeOK /\ TableInv /\ FrameInv /\ PathInv /\ RunInv
  BY DEF IInv
<1>1. CASE CloseCycle
  <2>1. /\ stack # << >> /\ stack' = Advanced /\ UNCHANGED <<args, tables, cycle, prefix>>
        /\ Candidate \in DOMAIN index /\ colour[index[Candidate]] = "gray"
        /\ child' = index[Candidate] /\ at' = Top.node /\ pc = "search" /\ pc' = "cycle"
    BY <1>1 DEF CloseCycle, HasCandidate
  <2>2. /\ Len(stack') = Len(stack) /\ Len(stack) \in 1..Len(stack)
        /\ \A k \in 1..Len(stack) : stack'[k].node = stack[k].node
        /\ Top = stack[Len(stack)]
    BY <2>1, AdvancedFacts, TopFacts DEF Top
  <2>3. child' \in 1..Len(states) /\ states[child'] = Candidate
    BY <1>0, <2>1 DEF TableInv
  <2>4. PICK m \in 1..Len(stack) : stack[m].node = child'
    BY <1>0, <2>1, <2>3 DEF PathInv
  <2>5. \E k, l \in 1..Len(stack') : l <= k /\ at' = stack'[k].node /\ child' = stack'[l].node
    <3>1. m <= Len(stack)
      OBVIOUS
    <3>. QED
      BY <2>1, <2>2, <2>4, <3>1
  <2>6. Edge(graph, states[at'], states[child'])
    BY <1>1, <2>1, <2>3, CandidateFacts DEF CloseCycle
  <2>7. cycle = << >> /\ prefix = << >>
    BY <1>0, <2>1 DEF RunInv
  <2>. QED
    BY <2>1, <2>5, <2>6, <2>7 DEF RunInv, Collected, Joint, args, tables
<1>2. CASE ClimbCycle
  <2>1. /\ pc = "cycle" /\ pc' = "cycle" /\ at # child
        /\ UNCHANGED <<graph, atom, states, treeParent, stack, child, prefix>>
        /\ cycle' = Append(cycle, states[at]) /\ at' = treeParent[at]
    BY <1>2 DEF ClimbCycle, args, tables
  <2>2. PICK k, m \in 1..Len(stack) : m <= k /\ at = stack[k].node /\ child = stack[m].node
    BY <1>0, <2>1 DEF RunInv
  <2>3. k - 1 \in 1..(Len(stack) - 1) /\ k - 1 \in 1..Len(stack) /\ m <= k - 1 /\ k - 1 + 1 = k
    <3>1. k # m
      BY <2>1, <2>2
    <3>2. Len(stack) \in Nat
      BY <1>0 DEF TypeOK
    <3>. QED
      BY <2>2, <3>1, <3>2
  <2>4. treeParent[at] = stack[k - 1].node
    BY <1>0, <2>2, <2>3 DEF PathInv
  <2>5. at \in 1..Len(states) /\ treeParent[at] \in 1..Len(states)
    BY <1>0, <2>2, <2>3, <2>4 DEF FrameInv
  <2>6. states[at] \in Node /\ states[at] \in atom
    BY <1>0, <2>5 DEF TypeOK, TableInv
  <2>7. Edge(graph, states[treeParent[at]], states[at])
    BY <2>5, ParentFacts DEF NoIndex
  <2>8. /\ cycle' # << >> /\ cycle'[Len(cycle')] = states[at]
        /\ \A i \in 1..Len(cycle') : cycle'[i] \in atom
    <3>1. cycle \in Seq(Node) /\ \A i \in 1..Len(cycle) : cycle[i] \in atom
      BY <1>0, <2>1 DEF TypeOK, RunInv
    <3>. QED
      BY <2>1, <2>6, <3>1, AppendFacts
  <2>9. Collected(graph, cycle', states[child])
    BY <1>0, <2>1, <2>6, CollectOneMore DEF TypeOK, RunInv
  <2>10. Edge(graph, states[at'], Joint(cycle', states[child]))
    BY <2>1, <2>7, <2>8 DEF Joint
  <2>11. \E i, j \in 1..Len(stack) : j <= i /\ at' = stack[i].node /\ child = stack[j].node
    BY <2>1, <2>2, <2>3, <2>4
  <2>. QED
    BY <1>0, <2>1, <2>8, <2>9, <2>10, <2>11 DEF RunInv
<1>3. CASE FinishCycle
  <2> DEFINE trail == Append(cycle, states[child])
  <2>1. /\ pc = "cycle" /\ pc' = "prefix" /\ at = child
        /\ UNCHANGED <<graph, atom, states, treeParent, stack, child, prefix>>
        /\ cycle' = Reverse(trail) /\ at' = treeParent[child]
    BY <1>3 DEF FinishCycle, args, tables
  <2>2. child \in 1..Len(states)
    BY <1>0, <2>1 DEF RunInv, FrameInv
  <2>3. states[child] \in Node /\ states[child] \in atom /\ cycle \in Seq(Node)
    BY <1>0, <2>2 DEF TypeOK, TableInv
  <2>4. /\ trail \in Seq(Node) /\ trail # << >> /\ trail[Len(trail)] = states[child]
        /\ \A i \in 1..Len(trail) : trail[i] \in atom
    BY <1>0, <2>1, <2>3, AppendFacts DEF RunInv
  <2>5. Collected(graph, trail, states[child])
    BY <1>0, <2>1, <2>3, CollectOneMore DEF RunInv
  <2>6. IsCycle(graph, atom, cycle') /\ cycle'[1] = states[child]
    <3>. HIDE DEF trail
    <3>1. IsCycle(graph, atom, Reverse(trail)) /\ Reverse(trail)[1] = states[child]
      BY <2>4, <2>5, CollectedCycle
    <3>. QED
      BY <2>1, <3>1
  <2>7. prefix = << >>
    BY <1>0, <2>1 DEF RunInv
  <2>8. Collected(graph, prefix', cycle'[1]) /\ Joint(prefix', cycle'[1]) = states[child]
    BY <2>1, <2>6, <2>7 DEF Collected, Joint
  <2>9. /\ at' \in 0..Len(states)
        /\ at' = NoIndex => states[child] = Start
        /\ at' # NoIndex => Edge(graph, states[at'], states[child])
    BY <2>1, <2>2, ParentFacts, <1>0 DEF NoIndex, TypeOK
  <2>. QED
    BY <2>1, <2>6, <2>7, <2>8, <2>9 DEF RunInv
<1>4. CASE ClimbPrefix
  <2>1. /\ pc = "prefix" /\ pc' = "prefix" /\ at # NoIndex
        /\ UNCHANGED <<graph, atom, states, treeParent, cycle>>
        /\ prefix' = Append(prefix, states[at]) /\ at' = treeParent[at]
    BY <1>4 DEF ClimbPrefix, args, tables
  <2>2. at \in 1..Len(states) /\ prefix \in Seq(Node)
    BY <1>0, <2>1 DEF RunInv, TypeOK, NoIndex
  <2>3. states[at] \in Node /\ states[at] \in atom
    BY <1>0, <2>2 DEF TypeOK, TableInv
  <2>4. /\ prefix' # << >> /\ prefix'[Len(prefix')] = states[at]
        /\ \A i \in 1..Len(prefix') : prefix'[i] \in atom
    BY <1>0, <2>1, <2>2, <2>3, AppendFacts DEF RunInv
  <2>5. Collected(graph, prefix', cycle[1])
    BY <1>0, <2>1, <2>2, <2>3, CollectOneMore DEF RunInv
  <2>6. /\ at' \in 0..Len(states)
        /\ at' = NoIndex => states[at] = Start
        /\ at' # NoIndex => Edge(graph, states[at'], states[at])
    BY SMTT(30), <2>1, <2>2, ParentFacts, <1>0 DEF NoIndex, TypeOK
  <2>. QED
    BY <1>0, <2>1, <2>4, <2>5, <2>6 DEF RunInv, Joint
<1>5. CASE ReturnRun
  <2>1. /\ pc = "prefix" /\ pc' = "found" /\ at = NoIndex
        /\ UNCHANGED <<graph, atom, states, cycle>> /\ prefix' = Reverse(prefix)
    BY <1>5 DEF ReturnRun, args, tables
  <2>2. LeadsTo(graph, prefix', cycle[1])
    BY <1>0, <2>1, CollectedLeads DEF RunInv, TypeOK
  <2>3. \A i \in 1..Len(prefix') : prefix'[i] \in atom
    <3>1. \A i \in 1..Len(prefix) : Len(prefix) - i + 1 \in 1..Len(prefix)
      BY <1>0 DEF TypeOK
    <3>2. prefix \in Seq(Node) /\ \A i \in 1..Len(prefix) : prefix[i] \in atom
      BY <1>0, <2>1 DEF TypeOK, RunInv
    <3>3. /\ Len(Reverse(prefix)) = Len(prefix)
          /\ \A i \in 1..Len(prefix) : Reverse(prefix)[i] = prefix[Len(prefix) - i + 1]
      BY <3>2, ReverseFacts
    <3>. QED
      BY <2>1, <3>1, <3>2, <3>3
  <2>. QED
    BY <1>0, <2>1, <2>2, <2>3 DEF RunInv
<1>6. CASE EnterStart
  BY <1>0, <1>6 DEF EnterStart, RunInv, run
<1>7. CASE SkipOutside \/ Descend \/ SkipBlack \/ Backtrack
  BY <1>0, <1>7 DEF SkipOutside, Descend, SkipBlack, Backtrack, HasCandidate, RunInv, run
<1>8. CASE RejectStart \/ Exhausted
  BY <1>0, <1>8 DEF RejectStart, Exhausted, RunInv
<1>9. CASE UNCHANGED vars
  BY <1>0, <1>9 DEF RunInv, vars
<1>. QED
  BY <1>1, <1>2, <1>3, <1>4, <1>5, <1>6, <1>7, <1>8, <1>9 DEF Next

-----------------------------------------------------------------------------
(* When the search is exhausted, every stored state is black, the initial  *)
(* one included, and no run that stays in the atom visits a black state.   *)
LEMMA IInvDecides == IInv => DecidesEG
<1> SUFFICES ASSUME IInv PROVE DecidesEG
  OBVIOUS
<1>0. TypeOK /\ TableInv /\ PathInv /\ BlackOutside /\ RunInv
  BY DEF IInv
<1>1. ASSUME pc = "none", NEW S \in SUBSET atom, Start \in S, Sustains(graph, S)
      PROVE  FALSE
  <2>1. states # << >> /\ stack = << >>
    BY <1>0, <1>1 DEF TableInv
  <2>2. 1 \in 1..Len(states) /\ states[1] = Start
    BY <1>0, <2>1 DEF TableInv, TypeOK
  <2>3. colour[1] # "gray"
    BY <1>0, <2>1, <2>2 DEF PathInv
  <2>4. colour[1] \in Colour
    BY <1>0, <2>2 DEF TypeOK, TableInv
  <2>5. Start \in Black
    BY <1>0, <2>2, <2>3, <2>4 DEF Black, TableInv, Colour
  <2>. QED
    BY <1>0, <1>1, <2>5 DEF BlackOutside
<1>2. ASSUME pc = "found"
      PROVE  /\ EG(graph, atom)
             /\ IsCycle(graph, atom, cycle)
             /\ LeadsTo(graph, prefix, cycle[1])
             /\ \A i \in 1..Len(prefix) : prefix[i] \in atom
  BY <1>0, <1>2, LassoStays DEF RunInv, TypeOK
<1>. QED
  BY <1>1, <1>2 DEF DecidesEG, EG

(* The invariant of the search holds in every state of every execution.    *)
THEOREM Invariance == Spec => []IInv
<1>1. IInv /\ [Next]_vars => IInv'
  BY NextTypeOK, NextTableInv, NextFrameInv, NextPathInv, NextBlackInv, NextRunInv DEF IInv
<1>. QED
  BY InitIInv, <1>1, PTL DEF Spec

(* The search's variables keep their types, on every state graph.          *)
THEOREM TypeCorrect == Spec => []TypeOK
<1>1. IInv => TypeOK
  BY DEF IInv
<1>. QED
  BY Invariance, <1>1, PTL

(* The stack is the gray depth-first path, and black states have no way    *)
(* back into it.                                                           *)
THEOREM PathCorrect == Spec => [](PathInv /\ BlackInv)
<1>1. IInv => PathInv /\ BlackInv
  BY DEF IInv
<1>. QED
  BY Invariance, <1>1, PTL

(* search_always() decides E G(atom): it returns no run only if every run  *)
(* leaves the atom, and every state of the lasso it returns is in the atom.*)
THEOREM Correct == Spec => []DecidesEG
BY Invariance, IInvDecides, PTL

(* "Black": the atom successors of a black state are black, so no cycle    *)
(* can be closed through it.                                               *)
THEOREM BlackCorrect == Spec => []BlackInv
<1>1. IInv => BlackInv
  BY DEF IInv
<1>. QED
  BY Invariance, <1>1, PTL

-----------------------------------------------------------------------------
(* The states of s are stored, later ones in s at smaller (larger) indices.*)
Descends(f, s) ==
    /\ \A i \in 1..Len(s) : s[i] \in DOMAIN f
    /\ \A i, j \in 1..Len(s) : i < j => f[s[j]] < f[s[i]]

Ascends(f, s) ==
    /\ \A i \in 1..Len(s) : s[i] \in DOMAIN f
    /\ \A i, j \in 1..Len(s) : i < j => f[s[i]] < f[s[j]]

LEMMA DescendsAppend ==
    ASSUME NEW T, NEW s \in Seq(T), NEW x \in T, NEW f, Descends(f, s), x \in DOMAIN f,
           \A i \in 1..Len(s) : f[x] < f[s[i]]
    PROVE  Descends(f, Append(s, x))
<1> DEFINE t == Append(s, x)
<1>1. /\ Len(t) = Len(s) + 1 /\ Len(s) \in Nat /\ t[Len(s) + 1] = x
      /\ \A i \in 1..Len(s) : t[i] = s[i]
      /\ \A i \in 1..Len(t) : i \in 1..Len(s) \/ i = Len(s) + 1
  BY AppendFacts
<1>. HIDE DEF t
<1>2. \A i \in 1..Len(t) : t[i] \in DOMAIN f
  BY <1>1 DEF Descends
<1>3. ASSUME NEW i \in 1..Len(t), NEW j \in 1..Len(t), i < j PROVE f[t[j]] < f[t[i]]
  <2>1. i \in 1..Len(s)
    BY <1>1, <1>3
  <2>2. CASE j \in 1..Len(s)
    BY <1>1, <1>3, <2>1, <2>2 DEF Descends
  <2>3. CASE j = Len(s) + 1
    BY <1>1, <2>1, <2>3
  <2>. QED
    BY <1>1, <2>2, <2>3
<1>. QED
  BY <1>2, <1>3 DEF Descends, t

LEMMA ReverseAscends ==
    ASSUME NEW T, NEW s \in Seq(T), NEW f, Descends(f, s)
    PROVE  Ascends(f, Reverse(s))
<1> DEFINE r == Reverse(s)
<1>1. Len(r) = Len(s) /\ Len(s) \in Nat /\ \A i \in 1..Len(s) : r[i] = s[Len(s) - i + 1]
  BY ReverseFacts
<1>. HIDE DEF r
<1>2. \A i \in 1..Len(s) : Len(s) - i + 1 \in 1..Len(s)
  BY <1>1
<1>3. \A i, j \in 1..Len(s) : i < j => Len(s) - j + 1 < Len(s) - i + 1
  BY <1>1
<1>. QED
  BY ZenonT(30), <1>1, <1>2, <1>3 DEF Descends, Ascends, r

LEMMA AscendsInjective ==
    ASSUME NEW T, NEW s \in Seq(T), NEW D, NEW f \in [D -> Nat], Ascends(f, s)
    PROVE  IsInjective(s)
<1> SUFFICES ASSUME NEW i \in 1..Len(s), NEW j \in 1..Len(s), s[i] = s[j], i < j
             PROVE  FALSE
  BY DEF IsInjective
<1>1. f[s[i]] < f[s[j]] /\ f[s[i]] \in Nat
  BY DEF Ascends
<1>. QED
  BY <1>1

(* Following the tree parents visits smaller and smaller indices, first    *)
(* those of the cycle and then those of the prefix.                        *)
SimpleInv ==
    /\ pc = "cycle" =>
          /\ Descends(index, cycle)
          /\ \A i \in 1..Len(cycle) : at < index[cycle[i]]
    /\ pc \in {"prefix", "found"} => Ascends(index, cycle) /\ cycle # << >>
    /\ pc = "prefix" =>
          /\ Descends(index, prefix)
          /\ \A i \in 1..Len(prefix) : at < index[prefix[i]] /\ index[prefix[i]] < index[cycle[1]]
          /\ at < index[cycle[1]]
    /\ pc = "found" =>
          /\ Ascends(index, prefix)
          /\ \A i \in 1..Len(prefix) : index[prefix[i]] < index[cycle[1]]

LEMMA NextSimpleInv == IInv /\ SimpleInv /\ [Next]_vars => SimpleInv'
<1> SUFFICES ASSUME IInv, SimpleInv, [Next]_vars PROVE SimpleInv'
  OBVIOUS
<1>0. TypeOK /\ TableInv /\ FrameInv /\ RunInv
  BY DEF IInv
<1>1. ASSUME NEW i \in 1..Len(states)
      PROVE  /\ states[i] \in Node /\ states[i] \in DOMAIN index /\ index[states[i]] = i
             /\ i \in Nat /\ treeParent[i] \in Nat /\ treeParent[i] < i
  <2>1. states[i] \in Node /\ states[i] \in DOMAIN index /\ index[states[i]] = i
    BY <1>0 DEF TypeOK, TableInv
  <2>2. treeParent[i] = NoIndex \/ treeParent[i] \in 1..(i - 1)
    BY ParentFacts
  <2>. QED
    BY <2>1, <2>2 DEF NoIndex
<1>2. CASE CloseCycle
  <2>1. cycle' = << >> /\ pc' = "cycle"
    BY <1>0, <1>2 DEF CloseCycle, HasCandidate, RunInv
  <2>. QED
    BY <2>1 DEF SimpleInv, Descends
<1>3. CASE ClimbCycle
  <2>1. /\ pc = "cycle" /\ pc' = "cycle" /\ index' = index
        /\ cycle' = Append(cycle, states[at]) /\ at' = treeParent[at]
    BY <1>3 DEF ClimbCycle, tables
  <2>2. at \in 1..Len(states) /\ cycle \in Seq(Node)
    BY <1>0, <2>1 DEF RunInv, FrameInv, TypeOK
  <2>3. \A i \in 1..Len(cycle) : at < index[cycle[i]] /\ index[cycle[i]] \in Nat
    BY <1>0, <2>1 DEF SimpleInv, Descends, TypeOK
  <2>4. Descends(index, cycle')
    BY <1>1, <2>1, <2>2, <2>3, DescendsAppend DEF SimpleInv
  <2>5. \A i \in 1..Len(cycle') : at' < index[cycle'[i]]
    <3>1. \A i \in 1..Len(cycle) : at' < index[cycle[i]]
      BY <1>1, <2>1, <2>2, <2>3
    <3>2. at' < index[states[at]] /\ states[at] \in Node
      BY <1>1, <2>1, <2>2
    <3>. QED
      BY <2>1, <2>2, <3>1, <3>2, AppendFacts
  <2>. QED
    BY <2>1, <2>4, <2>5 DEF SimpleInv
<1>4. CASE FinishCycle
  <2> DEFINE trail == Append(cycle, states[child])
  <2>1. /\ pc = "cycle" /\ pc' = "prefix" /\ at = child /\ UNCHANGED <<index, prefix>>
        /\ cycle' = Reverse(trail) /\ at' = treeParent[child]
    BY <1>4 DEF FinishCycle, tables
  <2>2. child \in 1..Len(states) /\ cycle \in Seq(Node) /\ prefix = << >>
    BY <1>0, <2>1 DEF RunInv, FrameInv, TypeOK
  <2>3. Descends(index, trail) /\ trail \in Seq(Node) /\ trail # << >>
        /\ trail[Len(trail)] = states[child]
    BY SMTT(30), <1>1, <2>1, <2>2, DescendsAppend, AppendFacts DEF SimpleInv
  <2>. HIDE DEF trail
  <2>4. Ascends(index, cycle') /\ cycle' # << >> /\ cycle'[1] = states[child]
    BY <2>1, <2>3, ReverseAscends, ReverseFacts
  <2>5. at' < index[cycle'[1]]
    BY <1>1, <2>1, <2>2, <2>4
  <2>. QED
    BY <2>1, <2>2, <2>4, <2>5 DEF SimpleInv, Descends
<1>5. CASE ClimbPrefix
  <2>1. /\ pc = "prefix" /\ pc' = "prefix" /\ at # NoIndex /\ UNCHANGED <<index, cycle>>
        /\ prefix' = Append(prefix, states[at]) /\ at' = treeParent[at]
    BY <1>5 DEF ClimbPrefix, tables
  <2>2. at \in 1..Len(states) /\ prefix \in Seq(Node)
    BY <1>0, <2>1 DEF RunInv, TypeOK, NoIndex
  <2>3. /\ \A i \in 1..Len(prefix) : /\ at < index[prefix[i]] /\ index[prefix[i]] \in Nat
                                     /\ index[prefix[i]] < index[cycle[1]]
        /\ at < index[cycle[1]] /\ index[cycle[1]] \in Nat
    <3>1. 1 \in 1..Len(cycle)
      BY <1>0, <2>1 DEF SimpleInv, TypeOK
    <3>. QED
      BY <1>0, <2>1, <3>1 DEF SimpleInv, Descends, Ascends, TypeOK
  <2>4. Descends(index, prefix')
    BY <1>1, <2>1, <2>2, <2>3, DescendsAppend DEF SimpleInv
  <2>5. \A i \in 1..Len(prefix') : at' < index[prefix'[i]] /\ index[prefix'[i]] < index[cycle[1]]
    <3>1. \A i \in 1..Len(prefix) : at' < index[prefix[i]]
      BY <1>1, <2>1, <2>2, <2>3
    <3>2. at' < index[states[at]] /\ index[states[at]] < index[cycle[1]] /\ states[at] \in Node
      BY <1>1, <2>1, <2>2, <2>3
    <3>. QED
      BY <2>1, <2>2, <2>3, <3>1, <3>2, AppendFacts
  <2>6. at' < index[cycle[1]]
    BY <1>1, <2>1, <2>2, <2>3
  <2>. QED
    BY <2>1, <2>4, <2>5, <2>6 DEF SimpleInv
<1>6. CASE ReturnRun
  <2>1. pc = "prefix" /\ pc' = "found" /\ UNCHANGED <<index, cycle>> /\ prefix' = Reverse(prefix)
    BY <1>6 DEF ReturnRun, tables
  <2>2. prefix \in Seq(Node)
    BY <1>0 DEF TypeOK
  <2>3. Ascends(index, prefix')
    BY <2>1, <2>2, ReverseAscends DEF SimpleInv
  <2>4. \A i \in 1..Len(prefix') : index[prefix'[i]] < index[cycle[1]]
    <3>1. \A i \in 1..Len(prefix) : Len(prefix) - i + 1 \in 1..Len(prefix)
      BY <2>2
    <3>2. /\ Len(Reverse(prefix)) = Len(prefix)
          /\ \A i \in 1..Len(prefix) : Reverse(prefix)[i] = prefix[Len(prefix) - i + 1]
      BY <2>2, ReverseFacts
    <3>. QED
      BY <2>1, <3>1, <3>2 DEF SimpleInv
  <2>. QED
    BY <2>1, <2>3, <2>4 DEF SimpleInv
<1>7. CASE \/ RejectStart \/ EnterStart \/ SkipOutside \/ Descend \/ SkipBlack
           \/ Backtrack \/ Exhausted
  <2>1. pc' \in {"search", "none"}
    BY <1>7 DEF RejectStart, EnterStart, SkipOutside, Descend, SkipBlack, Backtrack, Exhausted,
                HasCandidate
  <2>. QED
    BY <2>1 DEF SimpleInv
<1>8. CASE UNCHANGED vars
  BY <1>8 DEF SimpleInv, vars
<1>. QED
  BY <1>2, <1>3, <1>4, <1>5, <1>6, <1>7, <1>8 DEF Next

(* The lasso lists states in the order in which they were stored.          *)
LEMMA SimpleInvInjective == IInv /\ SimpleInv => SimpleLasso
<1> SUFFICES ASSUME IInv, SimpleInv, pc = "found" PROVE IsInjective(prefix \o cycle)
  BY DEF SimpleLasso
<1> DEFINE lasso == prefix \o cycle
<1>1. /\ prefix \in Seq(Node) /\ cycle \in Seq(Node) /\ index \in [DOMAIN index -> Nat]
      /\ Len(prefix) \in Nat /\ Len(cycle) \in Nat
  BY DEF IInv, TypeOK
<1>2. /\ Ascends(index, prefix) /\ Ascends(index, cycle) /\ cycle # << >>
      /\ \A i \in 1..Len(prefix) : index[prefix[i]] < index[cycle[1]]
  BY DEF SimpleInv
<1>3. /\ lasso \in Seq(Node) /\ Len(lasso) = Len(prefix) + Len(cycle)
      /\ \A i \in 1..Len(prefix) : lasso[i] = prefix[i]
      /\ \A i \in (Len(prefix) + 1)..Len(lasso) : lasso[i] = cycle[i - Len(prefix)]
  BY <1>1
<1>. HIDE DEF lasso
<1>4. ASSUME NEW i \in 1..Len(lasso)
      PROVE  \/ i \in 1..Len(prefix) /\ lasso[i] = prefix[i]
             \/ i > Len(prefix) /\ i - Len(prefix) \in 1..Len(cycle)
                /\ lasso[i] = cycle[i - Len(prefix)]
  BY <1>1, <1>3
<1>5. \A i \in 1..Len(lasso) : lasso[i] \in DOMAIN index
  BY <1>2, <1>4 DEF Ascends
<1>6. \A k \in 1..Len(cycle) : /\ index[cycle[k]] \in Nat /\ index[cycle[1]] \in Nat
                               /\ index[cycle[1]] <= index[cycle[k]]
  <2> TAKE k \in 1..Len(cycle)
  <2>1. 1 \in 1..Len(cycle) /\ index[cycle[k]] \in Nat /\ index[cycle[1]] \in Nat
    BY <1>1, <1>2 DEF Ascends
  <2>2. k = 1 \/ 1 < k
    OBVIOUS
  <2>. QED
    BY <1>2, <2>1, <2>2 DEF Ascends
<1>7. ASSUME NEW i \in 1..Len(lasso), NEW j \in 1..Len(lasso), i < j
      PROVE  index[lasso[i]] < index[lasso[j]]
  <2>1. CASE i \in 1..Len(prefix) /\ j \in 1..Len(prefix)
    BY <1>2, <1>3, <1>7, <2>1 DEF Ascends
  <2>2. CASE i \in 1..Len(prefix) /\ j > Len(prefix)
    <3>1. j - Len(prefix) \in 1..Len(cycle) /\ lasso[j] = cycle[j - Len(prefix)]
      BY <1>1, <1>4, <2>2
    <3>2. index[prefix[i]] \in Nat /\ index[prefix[i]] < index[cycle[1]]
      BY <1>1, <1>2, <2>2 DEF Ascends
    <3>3. index[cycle[1]] <= index[lasso[j]] /\ index[lasso[j]] \in Nat /\ index[cycle[1]] \in Nat
      BY <1>6, <3>1
    <3>. QED
      BY <1>3, <2>2, <3>2, <3>3
  <2>3. CASE i > Len(prefix)
    <3>1. /\ i - Len(prefix) \in 1..Len(cycle) /\ lasso[i] = cycle[i - Len(prefix)]
          /\ j - Len(prefix) \in 1..Len(cycle) /\ lasso[j] = cycle[j - Len(prefix)]
          /\ i - Len(prefix) < j - Len(prefix)
      BY <1>1, <1>4, <1>7, <2>3
    <3>. QED
      BY <1>2, <3>1 DEF Ascends
  <2>. QED
    BY <1>1, <1>3, <1>7, <2>1, <2>2, <2>3
<1>8. Ascends(index, lasso)
  BY <1>5, <1>7 DEF Ascends
<1>. QED
  BY <1>1, <1>3, <1>8, AscendsInjective DEF lasso

(* The lasso is simple on every state graph: no state is printed twice.    *)
THEOREM Simple == Spec => []SimpleLasso
<1>1. Init => SimpleInv
  BY DEF Init, SimpleInv
<1>2. IInv /\ SimpleInv /\ [Next]_vars => SimpleInv'
  BY NextSimpleInv
<1>3. IInv /\ SimpleInv => SimpleLasso
  BY SimpleInvInjective
<1>. QED
  BY Invariance, <1>1, <1>2, <1>3, PTL DEF Spec
=============================================================================

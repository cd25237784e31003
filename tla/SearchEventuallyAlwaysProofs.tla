-------------------- MODULE SearchEventuallyAlwaysProofs --------------------
(***************************************************************************)
(* search_eventually_always() decides E F(G(atom)) on every state graph on *)
(* which it returns: explore() stores exactly the reachable graph,         *)
(* find_cycle() misses no cycle of atom states, and the run is a lasso     *)
(* whose prefix is a shortest path to the entry of its cycle.              *)
(***************************************************************************)
EXTENDS SearchEventuallyAlways, OperatorProofs

(* explore(): the hash table and the vectors describe one tree of stored   *)
(* states, whose edges are among the stored successor lists.               *)
TreeInv ==
    /\ DOMAIN index = {states[i] : i \in 1..Len(states)}
    /\ \A i \in 1..Len(states) : index[states[i]] = i
    /\ Len(parent) = Len(states)
    /\ Len(successors) = Len(states)
    /\ states # << >> /\ states[1] = Start /\ parent[1] = NoIndex
    /\ \A i \in 2..Len(states) :
          parent[i] \in 1..(i - 1) /\ Edge(successors, parent[i], i)

(* explore(): the successor lists name the successors in iterator order,   *)
(* completely below current and up to pos at current.                      *)
LinkInv ==
    /\ current \in 1..(Len(states) + 1)
    /\ pos >= 1
    /\ \A i \in 1..Len(states) :
          /\ i < current => Len(successors[i]) = Len(graph[states[i]])
          /\ i = current => Len(successors[i]) = pos - 1
          /\ i > current => Len(successors[i]) = 0
          /\ Len(successors[i]) <= Len(graph[states[i]])
          /\ \A j \in 1..Len(successors[i]) :
                /\ successors[i][j] \in 1..Len(states)
                /\ states[successors[i][j]] = graph[states[i]][j]
    /\ pc # "explore" => current > Len(states)

ReachInv == \A i \in 1..Len(states) : states[i] \in Reachable(graph)

(* find_cycle(): every frame holds an atom state, no state twice, and      *)
(* while the search runs, the atom successors that a frame has passed are  *)
(* black, except the one that the next frame is exploring.                 *)
FrameInv ==
    /\ pc = "explore" => colour = << >>
    /\ pc # "explore" => Len(colour) = Len(states) /\ Len(treeParent) = Len(states)
    /\ \A k \in 1..Len(stack) :
          /\ stack[k].node \in 1..Len(states) /\ stack[k].pos >= 1
          /\ Allowed(stack[k].node)
    /\ \A k, l \in 1..Len(stack) : stack[k].node = stack[l].node => k = l
    /\ pc = "search" =>
          \A k \in 1..Len(stack) :
             \A j \in 1..Len(successors[stack[k].node]) :
                j < stack[k].pos =>
                   \/ ~Allowed(successors[stack[k].node][j])
                   \/ colour[successors[stack[k].node][j]] = "black"
                   \/ /\ k + 1 \in 1..Len(stack)
                      /\ successors[stack[k].node][j] = stack[k + 1].node

(* The stack is a path of tree edges, and holds exactly the gray states.   *)
PathInv ==
    /\ \A k \in 1..(Len(stack) - 1) :
          /\ treeParent[stack[k + 1].node] = stack[k].node
          /\ Edge(successors, stack[k].node, stack[k + 1].node)
    /\ \A i \in 1..Len(colour) :
          colour[i] = "gray" <=> \E k \in 1..Len(stack) : stack[k].node = i

(* The root loop: what it has passed is black.                             *)
RootInv ==
    /\ root \in 1..(Len(states) + 1)
    /\ pc \in {"explore", "roots", "none"} => stack = << >>
    /\ pc = "explore" => root = 1
    /\ pc = "search" => root <= Len(states) /\ colour[root] # "white"
    /\ pc = "none" => root > Len(states)
    /\ pc # "explore" => \A i \in 1..(root - 1) : Allowed(i) => colour[i] = "black"

(* The atom successors of a black state are black, and no run that stays   *)
(* in the atom visits a black state.                                       *)
BlackClosed ==
    \A i \in 1..Len(colour) :
        colour[i] = "black" =>
            \A j \in 1..Len(successors[i]) :
                Allowed(successors[i][j]) => colour[successors[i][j]] = "black"

BlackOutside ==
    \A S \in SUBSET atom :
        Sustains(graph, S) =>
            \A i \in 1..Len(colour) : colour[i] = "black" => states[i] \notin S

AtomIndices == {i \in 1..Len(states) : Allowed(i)}

(* What following the parents has established: of indices while they are   *)
(* collected, and of states once make_run() has mapped them.               *)
RunInv ==
    /\ pc \in {"explore", "roots", "search", "none"} => cycle = << >> /\ prefix = << >>
    /\ pc = "cycle" =>
          /\ prefix = << >>
          /\ \E k, m \in 1..Len(stack) :
                m <= k /\ at = stack[k].node /\ child = stack[m].node
          /\ Collected(successors, cycle, child)
          /\ Edge(successors, at, Joint(cycle, child))
          /\ \A i \in 1..Len(cycle) : cycle[i] \in AtomIndices
    /\ pc = "prefix" =>
          /\ child \in 1..Len(states)
          /\ IsCycle(successors, AtomIndices, cycle)
          /\ cycle[1] = child
          /\ at \in 0..Len(states)
          /\ Collected(successors, prefix, child)
          /\ at = NoIndex => Joint(prefix, child) = 1
          /\ at # NoIndex => Edge(successors, at, Joint(prefix, child))
          /\ \A i \in 1..Len(prefix) : prefix[i] \in 1..Len(states)
    /\ pc = "found" =>
          /\ IsCycle(graph, atom, cycle)
          /\ LeadsTo(graph, prefix, cycle[1])
          /\ \A i \in 1..Len(cycle) : cycle[i] \in Reachable(graph)

IInv ==
    /\ TypeOK /\ TreeInv /\ LinkInv /\ ReachInv /\ FrameInv /\ PathInv
    /\ RootInv /\ BlackClosed /\ BlackOutside /\ RunInv

-----------------------------------------------------------------------------
LEMMA InitIInv == Init => IInv
<1> SUFFICES ASSUME Init PROVE IInv
  OBVIOUS
<1>1. TypeOK
  BY GraphAssumption DEF Init, TypeOK, NoIndex
<1>2. TreeInv
  BY DEF Init, TreeInv, NoIndex
<1>3. LinkInv
  <2>1. graph[Start] \in Seq(Node)
    BY GraphAssumption DEF Init
  <2>2. Len(graph[Start]) \in Nat
    BY <2>1
  <2>. QED
    BY <2>2 DEF Init, LinkInv
<1>4. ReachInv
  BY StartReachable DEF Init, ReachInv
<1>5. FrameInv /\ PathInv /\ RootInv /\ BlackClosed /\ BlackOutside
  BY DEF Init, FrameInv, PathInv, RootInv, BlackClosed, BlackOutside
<1>6. RunInv
  BY DEF Init, RunInv
<1>. QED
  BY <1>1, <1>2, <1>3, <1>4, <1>5, <1>6 DEF IInv

(* A stored state and its successor list.                                  *)
LEMMA StoredFacts ==
    ASSUME TypeOK, TreeInv, LinkInv, NEW i \in 1..Len(states)
    PROVE  /\ states[i] \in Node
           /\ states[i] \in DOMAIN index
           /\ graph[states[i]] \in Seq(Node)
           /\ Len(graph[states[i]]) \in Nat
           /\ successors[i] \in Seq(Nat)
           /\ Len(successors[i]) \in Nat
           /\ \A j \in 1..Len(successors[i]) :
                 /\ successors[i][j] \in 1..Len(states)
                 /\ j \in 1..Len(graph[states[i]])
                 /\ states[successors[i][j]] = graph[states[i]][j]
<1>1. states[i] \in Node /\ states[i] \in DOMAIN index
  BY DEF TypeOK, TreeInv
<1>2. graph[states[i]] \in Seq(Node)
  BY <1>1, GraphAssumption DEF TypeOK
<1>3. successors[i] \in Seq(Nat)
  BY SMTT(30) DEF TypeOK, TreeInv
<1>4. Len(graph[states[i]]) \in Nat /\ Len(successors[i]) \in Nat
  BY <1>2, <1>3
<1>5. Len(successors[i]) <= Len(graph[states[i]])
  BY DEF LinkInv
<1>6. \A j \in 1..Len(successors[i]) : j \in 1..Len(graph[states[i]])
  BY <1>4, <1>5
<1>. QED
  BY <1>1, <1>2, <1>3, <1>4, <1>6 DEF LinkInv

(* An edge between stored indices is an edge between the states.           *)
LEMMA IndexEdge ==
    ASSUME TypeOK, TreeInv, LinkInv, NEW i \in 1..Len(states), NEW j, Edge(successors, i, j)
    PROVE  j \in 1..Len(states) /\ Edge(graph, states[i], states[j])
<1>1. PICK k \in 1..Len(successors[i]) : successors[i][k] = j
  BY DEF Edge
<1>2. /\ j \in 1..Len(states) /\ k \in 1..Len(graph[states[i]])
      /\ states[j] = graph[states[i]][k]
  BY <1>1, StoredFacts
<1>. QED
  BY <1>2 DEF Edge

(* After explore(), the lists are complete.                                *)
LEMMA StateEdge ==
    ASSUME TypeOK, TreeInv, LinkInv, pc # "explore",
           NEW i \in 1..Len(states), NEW n, Edge(graph, states[i], n)
    PROVE  \E j \in 1..Len(successors[i]) : states[successors[i][j]] = n
<1>1. PICK k \in 1..Len(graph[states[i]]) : graph[states[i]][k] = n
  BY DEF Edge
<1>2. Len(successors[i]) = Len(graph[states[i]])
  BY DEF LinkInv, TypeOK
<1>. QED
  BY <1>1, <1>2 DEF LinkInv

(* explore(): the state being expanded and the successor at hand.          *)
LEMMA CandidateFacts ==
    ASSUME TypeOK, TreeInv, LinkInv, Unexpanded
    PROVE  /\ current \in 1..Len(states)
           /\ pos \in 1..Len(graph[states[current]])
           /\ Candidate \in Node
           /\ Candidate = graph[states[current]][pos]
           /\ Len(successors[current]) = pos - 1
<1>1. current \in 1..Len(states)
  BY DEF TypeOK, LinkInv, Unexpanded
<1>2. pos \in 1..Len(graph[states[current]])
  BY <1>1, StoredFacts DEF TypeOK, LinkInv, Unexpanded
<1>3. Candidate \in Node
  BY <1>1, <1>2, StoredFacts DEF Candidate
<1>. QED
  BY <1>1, <1>2, <1>3 DEF LinkInv, Candidate

(* A successor list grows by one element.                                  *)
LEMMA LinkedFacts ==
    ASSUME NEW s \in Seq(Seq(Nat)), NEW c \in 1..Len(s), NEW x \in Nat,
           NEW t, t = [s EXCEPT ![c] = Append(@, x)]
    PROVE  /\ t \in Seq(Seq(Nat))
           /\ Len(t) = Len(s)
           /\ t[c] = Append(s[c], x)
           /\ \A i \in 1..Len(s) : i # c => t[i] = s[i]
<1>1. Append(s[c], x) \in Seq(Nat)
  <2>1. s[c] \in Seq(Nat)
    OBVIOUS
  <2>. QED
    BY <2>1
<1>2. t = [s EXCEPT ![c] = Append(s[c], x)]
  OBVIOUS
<1>. QED
  BY <1>1, <1>2, ExceptFacts

LEMMA LinkedEdge ==
    ASSUME NEW s, NEW t, NEW c, NEW x \in Nat, s[c] \in Seq(Nat), t[c] = Append(s[c], x)
    PROVE  Edge(t, c, x) /\ \A n : Edge(s, c, n) => Edge(t, c, n)
<1>1. /\ Len(t[c]) = Len(s[c]) + 1 /\ Len(s[c]) \in Nat
      /\ t[c][Len(s[c]) + 1] = x
      /\ \A j \in 1..Len(s[c]) : t[c][j] = s[c][j]
  BY AppendFacts
<1>2. Edge(t, c, x)
  <2>1. Len(s[c]) + 1 \in 1..Len(t[c])
    BY <1>1
  <2>. QED
    BY <1>1, <2>1 DEF Edge
<1>3. ASSUME NEW n, Edge(s, c, n) PROVE Edge(t, c, n)
  <2>1. PICK j \in 1..Len(s[c]) : s[c][j] = n
    BY <1>3 DEF Edge
  <2>2. j \in 1..Len(t[c]) /\ t[c][j] = n
    BY <1>1, <2>1
  <2>. QED
    BY <2>2 DEF Edge
<1>. QED
  BY <1>2, <1>3

(* find_cycle(): the top frame, its next child, and the stack after        *)
(* stack.back().second++.                                                  *)
LEMMA TopFacts ==
    ASSUME IInv, stack # << >>
    PROVE  /\ Len(stack) \in 1..Len(stack)
           /\ Top = stack[Len(stack)]
           /\ Top \in Frame
           /\ Top.node \in 1..Len(states)
           /\ Allowed(Top.node)
           /\ Top.pos \in Nat /\ Top.pos >= 1
           /\ Len(successors[Top.node]) \in Nat
           /\ pc # "explore"
           /\ Len(colour) = Len(states) /\ Len(treeParent) = Len(states)
<1>0. TypeOK /\ TreeInv /\ LinkInv /\ FrameInv /\ RootInv
  BY DEF IInv
<1>1. Len(stack) \in 1..Len(stack)
  BY <1>0 DEF TypeOK
<1>2. Top = stack[Len(stack)] /\ Top \in Frame
  BY <1>0, <1>1 DEF TypeOK, Top
<1>4. Top.node \in 1..Len(states) /\ Top.pos >= 1
  BY <1>0, <1>1, <1>2 DEF FrameInv
<1>5. Allowed(Top.node)
  BY <1>0, <1>1, <1>2 DEF FrameInv, Allowed
<1>3. Len(successors[Top.node]) \in Nat
  BY <1>0, <1>4, StoredFacts
<1>. QED
  BY <1>0, <1>1, <1>2, <1>3, <1>4, <1>5 DEF Frame, FrameInv, RootInv

LEMMA ChildFacts ==
    ASSUME IInv, HasNext
    PROVE  /\ Top.pos \in 1..Len(successors[Top.node])
           /\ NextChild = successors[Top.node][Top.pos]
           /\ NextChild \in 1..Len(states)
           /\ NextChild \in 1..Len(colour)
           /\ Edge(successors, Top.node, NextChild)
<1>1. Top.pos \in 1..Len(successors[Top.node])
  BY TopFacts DEF HasNext
<1>2. NextChild \in 1..Len(states)
  BY <1>1, TopFacts, StoredFacts DEF IInv, HasNext, NextChild
<1>. QED
  BY <1>1, <1>2, TopFacts DEF HasNext, NextChild, Edge

LEMMA AdvancedFacts ==
    ASSUME IInv, stack # << >>
    PROVE  /\ Advanced \in Seq(Frame)
           /\ Len(Advanced) = Len(stack)
           /\ \A k \in 1..Len(stack) : Advanced[k].node = stack[k].node
           /\ \A k \in 1..Len(stack) : k # Len(stack) => Advanced[k].pos = stack[k].pos
           /\ Advanced[Len(stack)].pos = Top.pos + 1
<1>1. stack \in Seq(Frame) /\ Len(stack) \in 1..Len(stack)
  BY TopFacts DEF IInv, TypeOK
<1>2. stack \in [1..Len(stack) -> Frame] /\ Len(stack) \in Nat
  BY <1>1
<1>3. [stack[Len(stack)] EXCEPT !.pos = @ + 1] \in Frame
  <2>1. stack[Len(stack)] \in Frame
    BY TopFacts DEF Top
  <2>2. \A f \in Frame : [f EXCEPT !.pos = @ + 1] \in Frame
    BY DEF Frame
  <2>. QED
    BY <2>1, <2>2
<1>4. Advanced = [stack EXCEPT ![Len(stack)] = [stack[Len(stack)] EXCEPT !.pos = @ + 1]]
  BY DEF Advanced
<1>5. Advanced \in [1..Len(stack) -> Frame]
  BY <1>2, <1>3, <1>4
<1>6. Advanced \in Seq(Frame) /\ Len(Advanced) = Len(stack)
  BY <1>2, <1>5
<1>7. ASSUME NEW k \in 1..Len(stack)
      PROVE  Advanced[k] = IF k = Len(stack) THEN [stack[Len(stack)] EXCEPT !.pos = @ + 1]
                           ELSE stack[k]
  BY <1>2, <1>4
<1>8. \A k \in 1..Len(stack) : stack[k] \in Frame
  BY <1>2
<1>. QED
  BY <1>1, <1>6, <1>7, <1>8 DEF Top, Frame

LEMMA FrontFacts ==
    ASSUME IInv, stack # << >>
    PROVE  /\ Front(stack) \in Seq(Frame)
           /\ Len(Front(stack)) = Len(stack) - 1
           /\ \A k \in 1..(Len(stack) - 1) : Front(stack)[k] = stack[k] /\ k \in 1..Len(stack)
<1>1. stack \in Seq(Frame) /\ Len(stack) - 1 \in Nat
  BY TopFacts DEF IInv, TypeOK
<1>2. Front(stack) = [k \in 1..(Len(stack) - 1) |-> stack[k]]
  BY <1>1 DEF Front
<1>. QED
  BY <1>1, <1>2

LEMMA NextTypeOK == IInv /\ [Next]_vars => TypeOK'
<1> SUFFICES ASSUME IInv, [Next]_vars PROVE TypeOK'
  OBVIOUS
<1>0. TypeOK /\ TreeInv /\ LinkInv /\ FrameInv /\ RootInv /\ RunInv
  BY DEF IInv
<1>1. CASE LinkKnown
  <2>1. index[Candidate] \in Nat /\ current \in 1..Len(successors)
    BY <1>0, <1>1, CandidateFacts DEF LinkKnown, TypeOK, TreeInv
  <2>2. successors' \in Seq(Seq(Nat))
    <3>1. /\ successors' = [successors EXCEPT ![current] = Append(@, index[Candidate])]
          /\ successors \in Seq(Seq(Nat))
      BY <1>0, <1>1 DEF LinkKnown, TypeOK
    <3>. QED
      BY <2>1, <3>1, LinkedFacts
  <2>3. /\ UNCHANGED <<graph, atom, index, states, parent, current, colour, treeParent, root,
                        stack, child, at, cycle, prefix, pc>>
        /\ pos' = pos + 1
    BY <1>1 DEF LinkKnown, args, search, run
  <2>. QED
    BY SMTT(30), <1>0, <2>2, <2>3 DEF TypeOK
<1>2. CASE LinkNew
  <2>1. /\ Candidate \in Node /\ current \in 1..Len(successors) /\ Len(states) + 1 \in Nat
    <3>1. Candidate \in Node /\ current \in 1..Len(states)
      BY <1>0, <1>2, CandidateFacts DEF LinkNew
    <3>. QED
      BY <1>0, <3>1 DEF TypeOK, TreeInv
  <2>2. successors' \in Seq(Seq(Nat))
    <3> DEFINE t == [successors EXCEPT ![current] = Append(@, Len(states) + 1)]
    <3>1. t \in Seq(Seq(Nat))
      <4>1. successors \in Seq(Seq(Nat))
        BY <1>0 DEF TypeOK
      <4>. QED
        BY <2>1, <4>1, LinkedFacts
    <3>2. << >> \in Seq(Nat)
      OBVIOUS
    <3>. QED
      BY <1>2, <3>1, <3>2, AppendFacts DEF LinkNew
  <2>3. DOMAIN index' = DOMAIN index \cup {Candidate}
    BY <1>2 DEF LinkNew
  <2>4. index' \in [DOMAIN index' -> Nat]
    BY <1>0, <1>2, <2>3 DEF TypeOK, LinkNew
  <2>5. states' \in Seq(Node) /\ parent' \in Seq(Nat)
    BY <1>0, <1>2, <2>1 DEF TypeOK, LinkNew
  <2>6. /\ UNCHANGED <<graph, atom, current, colour, treeParent, root,
                        stack, child, at, cycle, prefix, pc>>
        /\ pos' = pos + 1
    BY <1>2 DEF LinkNew, args, search, run
  <2>7. DOMAIN index' \in SUBSET Node
    BY <1>0, <2>1, <2>3 DEF TypeOK
  <2>. QED
    BY SMTT(30), <1>0, <2>2, <2>4, <2>5, <2>6, <2>7 DEF TypeOK
<1>3. CASE Advance
  BY SMTT(30), <1>0, <1>3 DEF Advance, TypeOK, args, stored, search, run
<1>4. CASE StartFindCycle
  <2>1. Len(states) \in Nat
    BY <1>0 DEF TypeOK
  <2>2. colour' \in Seq(Colour) /\ treeParent' \in Seq(Nat)
    BY <1>4, <2>1 DEF StartFindCycle, Colour, NoIndex
  <2>. QED
    BY <1>0, <1>4, <2>2 DEF StartFindCycle, TypeOK, args, exploration, stored, run
<1>5. CASE SkipRoot \/ LeaveRoot \/ Exhausted
  BY <1>0, <1>5 DEF SkipRoot, LeaveRoot, Exhausted, TypeOK, args, exploration, stored, search, run
<1>6. CASE EnterRoot
  <2>1. [node |-> root, pos |-> 1] \in Frame /\ "gray" \in Colour
    BY <1>0 DEF TypeOK, Frame, Colour
  <2>2. stack' \in Seq(Frame)
    BY <1>6, <2>1 DEF EnterRoot
  <2>3. colour' \in Seq(Colour)
    <3>1. root \in 1..Len(colour) /\ colour \in Seq(Colour)
      BY <1>0, <1>6 DEF EnterRoot, RootInv, FrameInv, TypeOK
    <3>. QED
      BY <1>6, <2>1, <3>1, ExceptFacts DEF EnterRoot
  <2>. QED
    BY <1>0, <1>6, <2>2, <2>3 DEF EnterRoot, TypeOK, args, exploration, stored, run
<1>7. CASE SkipChild \/ CloseCycle
  <2>1. Advanced \in Seq(Frame) /\ NextChild \in Nat /\ Top.node \in Nat
    BY <1>7, AdvancedFacts, ChildFacts, TopFacts DEF SkipChild, CloseCycle, HasNext
  <2>. QED
    BY <1>0, <1>7, <2>1
    DEF SkipChild, CloseCycle, HasNext, TypeOK, args, exploration, stored, run
<1>8. CASE Descend
  <2>1. Advanced \in Seq(Frame) /\ NextChild \in Nat /\ Top.node \in Nat
    BY <1>8, AdvancedFacts, ChildFacts, TopFacts DEF Descend, HasNext
  <2>2. [node |-> NextChild, pos |-> 1] \in Frame /\ "gray" \in Colour
    BY <2>1 DEF Frame, Colour
  <2>3. stack' \in Seq(Frame)
    BY <1>8, <2>1, <2>2, AppendFacts DEF Descend
  <2>4. colour' \in Seq(Colour) /\ treeParent' \in Seq(Nat)
    <3>1. /\ NextChild \in 1..Len(colour) /\ NextChild \in 1..Len(treeParent)
          /\ colour \in Seq(Colour) /\ treeParent \in Seq(Nat)
      BY <1>0, <1>8, ChildFacts, TopFacts DEF Descend, HasNext, TypeOK
    <3>2. /\ colour' = [colour EXCEPT ![NextChild] = "gray"]
          /\ treeParent' = [treeParent EXCEPT ![NextChild] = Top.node]
      BY <1>8 DEF Descend
    <3>. QED
      BY <2>1, <2>2, <3>1, <3>2, ExceptFacts
  <2>. QED
    BY <1>0, <1>8, <2>3, <2>4 DEF Descend, HasNext, TypeOK, args, exploration, stored, run
<1>9. CASE Backtrack
  <2>1. Front(stack) \in Seq(Frame) /\ "black" \in Colour
    BY <1>9, FrontFacts DEF Backtrack, Colour
  <2>2. colour' \in Seq(Colour)
    <3>1. Top.node \in 1..Len(colour) /\ colour \in Seq(Colour)
      BY <1>0, <1>9, TopFacts DEF Backtrack, TypeOK
    <3>. QED
      BY <1>9, <2>1, <3>1, ExceptFacts DEF Backtrack
  <2>. QED
    BY <1>0, <1>9, <2>1, <2>2 DEF Backtrack, TypeOK, args, exploration, stored, run
<1>10. CASE ClimbCycle
  <2>1. pc = "cycle" /\ pc' = "cycle" /\ at \in 1..Len(states) /\ treeParent[at] \in Nat
    <3>1. at \in 1..Len(states)
      BY <1>0, <1>10 DEF ClimbCycle, RunInv, FrameInv
    <3>. QED
      BY <1>0, <1>10, <3>1 DEF ClimbCycle, TypeOK, FrameInv
  <2>2. Append(cycle, at) \in Seq(Nat) /\ prefix \in Seq(Nat)
    BY <1>0, <2>1 DEF TypeOK
  <2>. QED
    BY <1>0, <1>10, <2>1, <2>2
    DEF ClimbCycle, TypeOK, args, exploration, stored, search
<1>11. CASE FinishCycle
  <2>1. pc = "cycle" /\ pc' = "prefix" /\ child \in 1..Len(states) /\ parent[child] \in Nat
    <3>1. child \in 1..Len(states)
      BY <1>0, <1>11 DEF FinishCycle, RunInv, FrameInv
    <3>. QED
      BY SMTT(30), <1>0, <1>11, <3>1 DEF FinishCycle, TypeOK, TreeInv
  <2>2. Append(cycle, child) \in Seq(Nat) /\ prefix \in Seq(Nat)
    BY <1>0, <2>1 DEF TypeOK
  <2>3. Reverse(Append(cycle, child)) \in Seq(Nat)
    BY <2>2, ReverseFacts
  <2>. QED
    BY <1>0, <1>11, <2>1, <2>2, <2>3
    DEF FinishCycle, TypeOK, args, exploration, stored, search
<1>12. CASE ClimbPrefix
  <2>1. pc = "prefix" /\ pc' = "prefix" /\ at \in 1..Len(states) /\ parent[at] \in Nat
    <3>1. at \in 1..Len(states)
      BY <1>0, <1>12 DEF ClimbPrefix, RunInv, NoIndex, TypeOK
    <3>. QED
      BY SMTT(30), <1>0, <1>12, <3>1 DEF ClimbPrefix, TypeOK, TreeInv
  <2>2. Append(prefix, at) \in Seq(Nat) /\ cycle \in Seq(Nat)
    BY <1>0, <2>1 DEF TypeOK
  <2>. QED
    BY <1>0, <1>12, <2>1, <2>2
    DEF ClimbPrefix, TypeOK, args, exploration, stored, search
<1>13. CASE MakeRun
  <2>1. pc = "prefix" /\ pc' = "found" /\ prefix \in Seq(Nat) /\ cycle \in Seq(Nat)
    BY <1>0, <1>13 DEF MakeRun, TypeOK
  <2>2. \A i \in 1..Len(prefix) : states[Reverse(prefix)[i]] \in Node
    <3>1. \A i \in 1..Len(prefix) : Len(prefix) - i + 1 \in 1..Len(prefix)
      BY <2>1
    <3>2. \A i \in 1..Len(prefix) : Reverse(prefix)[i] \in 1..Len(states)
      BY <1>0, <2>1, <3>1, ReverseFacts DEF RunInv
    <3>. QED
      BY <1>0, <3>2 DEF TypeOK
  <2>3. \A i \in 1..Len(cycle) : states[cycle[i]] \in Node
    BY SMTT(30), <1>0, <2>1 DEF RunInv, IsCycle, AtomIndices, TypeOK
  <2>4. prefix' \in Seq(Node)
    <3>1. /\ prefix' = [i \in 1..Len(prefix) |-> states[Reverse(prefix)[i]]]
          /\ Len(prefix) \in Nat
      BY <1>13, <2>1 DEF MakeRun
    <3>. QED
      BY ONLY <2>2, <3>1
  <2>5. cycle' \in Seq(Node)
    <3>1. cycle' = [i \in 1..Len(cycle) |-> states[cycle[i]]] /\ Len(cycle) \in Nat
      BY <1>13, <2>1 DEF MakeRun
    <3>. QED
      BY ONLY <2>3, <3>1
  <2>. QED
    BY <1>0, <1>13, <2>1, <2>4, <2>5 DEF MakeRun, TypeOK, args, exploration, stored, search
<1>14. CASE UNCHANGED vars
  BY <1>0, <1>14 DEF TypeOK, vars
<1>. QED
  BY <1>1, <1>2, <1>3, <1>4, <1>5, <1>6, <1>7, <1>8, <1>9, <1>10, <1>11, <1>12, <1>13, <1>14
  DEF Next

(* The tables after a new state is stored and linked.                      *)
LEMMA LinkNewFacts ==
    ASSUME IInv, LinkNew
    PROVE  /\ UNCHANGED <<graph, atom, current, pc>> /\ pc = "explore" /\ pos' = pos + 1
           /\ Len(states) \in Nat
           /\ states' = Append(states, Candidate) /\ parent' = Append(parent, current)
           /\ DOMAIN index' = DOMAIN index \cup {Candidate} /\ Candidate \notin DOMAIN index
           /\ index'[Candidate] = Len(states) + 1
           /\ \A n \in DOMAIN index : index'[n] = index[n]
           /\ Len(states') = Len(states) + 1 /\ states'[Len(states) + 1] = Candidate
           /\ Len(parent') = Len(states) + 1 /\ parent'[Len(states) + 1] = current
           /\ \A i \in 1..Len(states) : states'[i] = states[i] /\ parent'[i] = parent[i]
           /\ \A i \in 1..Len(states') : i \in 1..Len(states) \/ i = Len(states) + 1
           /\ \A i \in 1..Len(states) : i \in 1..Len(states')
           /\ Len(successors') = Len(states) + 1 /\ successors'[Len(states) + 1] = << >>
           /\ successors'[current] = Append(successors[current], Len(states) + 1)
           /\ \A i \in 1..Len(states) : i # current => successors'[i] = successors[i]
           /\ \A i \in 1..Len(states) : \A n : Edge(successors, i, n) => Edge(successors', i, n)
           /\ Edge(successors', current, Len(states) + 1)
<1>0. TypeOK /\ TreeInv /\ LinkInv
  BY DEF IInv
<1>1. /\ UNCHANGED <<graph, atom, current, pc>> /\ pc = "explore" /\ pos' = pos + 1
      /\ states' = Append(states, Candidate) /\ parent' = Append(parent, current)
      /\ DOMAIN index' = DOMAIN index \cup {Candidate} /\ Candidate \notin DOMAIN index
      /\ index'[Candidate] = Len(states) + 1
      /\ \A n \in DOMAIN index : index'[n] = index[n]
  BY DEF LinkNew, Unexpanded, args
<1>2. Candidate \in Node /\ current \in 1..Len(states) /\ Len(states) \in Nat
  BY SMTT(30), <1>0, CandidateFacts DEF LinkNew, TypeOK
<1>3. /\ Len(states') = Len(states) + 1 /\ states'[Len(states) + 1] = Candidate
      /\ \A i \in 1..Len(states) : states'[i] = states[i]
      /\ \A i \in 1..Len(states') : i \in 1..Len(states) \/ i = Len(states) + 1
  BY <1>0, <1>1, <1>2, AppendFacts DEF TypeOK
<1>4. /\ Len(parent') = Len(states) + 1 /\ parent'[Len(states) + 1] = current
      /\ \A i \in 1..Len(states) : parent'[i] = parent[i]
  <2>1. parent \in Seq(Nat) /\ Len(parent) = Len(states) /\ current \in Nat
    BY <1>0, <1>2 DEF TypeOK, TreeInv
  <2>. QED
    BY <1>1, <2>1, AppendFacts
<1> DEFINE t == [successors EXCEPT ![current] = Append(@, Len(states) + 1)]
<1>5. /\ t \in Seq(Seq(Nat)) /\ Len(t) = Len(states)
      /\ t[current] = Append(successors[current], Len(states) + 1)
      /\ \A i \in 1..Len(states) : i # current => t[i] = successors[i]
      /\ \A i \in 1..Len(states) : \A n : Edge(successors, i, n) => Edge(t, i, n)
      /\ Edge(t, current, Len(states) + 1)
  <2>1. /\ successors \in Seq(Seq(Nat)) /\ current \in 1..Len(successors)
        /\ Len(states) + 1 \in Nat /\ Len(successors) = Len(states)
    BY <1>0, <1>2 DEF TypeOK, TreeInv
  <2>2. t = [successors EXCEPT ![current] = Append(@, Len(states) + 1)]
    OBVIOUS
  <2>. HIDE DEF t
  <2>3. /\ t \in Seq(Seq(Nat)) /\ Len(t) = Len(successors)
        /\ t[current] = Append(successors[current], Len(states) + 1)
        /\ \A i \in 1..Len(successors) : i # current => t[i] = successors[i]
    BY <2>1, <2>2, LinkedFacts
  <2>4. successors[current] \in Seq(Nat)
    BY <1>0, <1>2, StoredFacts
  <2>5. /\ Edge(t, current, Len(states) + 1)
        /\ \A n : Edge(successors, current, n) => Edge(t, current, n)
    BY <2>1, <2>3, <2>4, LinkedEdge
  <2>6. ASSUME NEW i \in 1..Len(states), i # current, NEW n, Edge(successors, i, n)
        PROVE  Edge(t, i, n)
    BY <2>1, <2>3, <2>6 DEF Edge
  <2>. QED
    BY <2>1, <2>3, <2>5, <2>6
<1>6. successors' = Append(t, << >>)
  BY DEF LinkNew
<1>. HIDE DEF t
<1>7. /\ Len(successors') = Len(states) + 1 /\ successors'[Len(states) + 1] = << >>
      /\ \A i \in 1..Len(states) : successors'[i] = t[i]
  <2>1. << >> \in Seq(Nat)
    OBVIOUS
  <2>. QED
    BY <1>5, <1>6, <2>1, AppendFacts
<1>8. \A i \in 1..Len(states) : \A n : Edge(t, i, n) => Edge(successors', i, n)
  BY <1>7 DEF Edge
<1>9. /\ \A i \in 1..Len(states) : i \in 1..Len(states')
      /\ \A i \in 1..Len(states) : states'[i] = states[i] /\ parent'[i] = parent[i]
  BY <1>2, <1>3, <1>4
<1>10. /\ \A i \in 1..Len(states) : \A n : Edge(successors, i, n) => Edge(successors', i, n)
       /\ Edge(successors', current, Len(states) + 1)
  BY <1>2, <1>5, <1>8
<1>11. /\ successors'[current] = Append(successors[current], Len(states) + 1)
       /\ \A i \in 1..Len(states) : i # current => successors'[i] = successors[i]
  BY <1>2, <1>5, <1>7
<1>. QED
  BY <1>1, <1>2, <1>3, <1>4, <1>7, <1>9, <1>10, <1>11

LEMMA NextTreeInv == IInv /\ [Next]_vars => TreeInv'
<1> SUFFICES ASSUME IInv, [Next]_vars PROVE TreeInv'
  OBVIOUS
<1>0. TypeOK /\ TreeInv /\ LinkInv
  BY DEF IInv
<1>1. CASE LinkKnown
  <2>1. /\ UNCHANGED <<graph, index, states, parent>>
        /\ successors' = [successors EXCEPT ![current] = Append(@, index[Candidate])]
    BY <1>1 DEF LinkKnown, args
  <2>2. current \in 1..Len(successors) /\ index[Candidate] \in Nat
    BY <1>0, <1>1, CandidateFacts DEF LinkKnown, TypeOK, TreeInv
  <2>3. /\ Len(successors') = Len(successors)
        /\ \A i \in 1..Len(successors) : \A n : Edge(successors, i, n) => Edge(successors', i, n)
    <3>1. successors \in Seq(Seq(Nat)) /\ successors[current] \in Seq(Nat)
      BY <1>0, <2>2 DEF TypeOK
    <3>2. /\ Len(successors') = Len(successors)
          /\ successors'[current] = Append(successors[current], index[Candidate])
          /\ \A i \in 1..Len(successors) : i # current => successors'[i] = successors[i]
      BY <2>1, <2>2, <3>1, LinkedFacts
    <3>3. \A n : Edge(successors, current, n) => Edge(successors', current, n)
      BY <2>2, <3>1, <3>2, LinkedEdge
    <3>4. ASSUME NEW i \in 1..Len(successors), i # current, NEW n, Edge(successors, i, n)
          PROVE  Edge(successors', i, n)
      BY <3>2, <3>4 DEF Edge
    <3>. QED
      BY <3>2, <3>3, <3>4
  <2>4. \A i \in 2..Len(states) : parent[i] \in 1..Len(successors)
    <3>1. Len(states) \in Nat
      BY <1>0 DEF TypeOK
    <3>2. /\ Len(successors) = Len(states)
          /\ \A i \in 2..Len(states) : parent[i] \in 1..(i - 1)
      BY <1>0 DEF TreeInv
    <3>. QED
      BY <3>1, <3>2
  <2>. QED
    BY <1>0, <2>1, <2>3, <2>4 DEF TreeInv
<1>2. CASE LinkNew
  <2>1. current \in 1..Len(states)
    BY <1>0, <1>2, CandidateFacts DEF LinkNew
  <2>2. DOMAIN index' = {states'[i] : i \in 1..Len(states')}
    <3>1. ASSUME NEW n \in DOMAIN index
          PROVE  \E i \in 1..Len(states') : states'[i] = n
      <4>1. PICK i \in 1..Len(states) : states[i] = n
        BY <1>0 DEF TreeInv
      <4>2. i \in 1..Len(states') /\ states'[i] = n
        BY <1>2, <4>1, LinkNewFacts
      <4>. QED
        BY <4>2
    <3>2. \E i \in 1..Len(states') : states'[i] = Candidate
      <4>1. Len(states) + 1 \in 1..Len(states')
        BY <1>2, LinkNewFacts
      <4>. QED
        BY <1>2, <4>1, LinkNewFacts
    <3>3. ASSUME NEW i \in 1..Len(states')
          PROVE  states'[i] \in DOMAIN index \cup {Candidate}
      BY <1>0, <1>2, LinkNewFacts DEF TreeInv
    <3>. QED
      BY <1>2, <3>1, <3>2, <3>3, LinkNewFacts
  <2>3. \A i \in 1..Len(states') : index'[states'[i]] = i
    <3>1. \A i \in 1..Len(states) : states[i] \in DOMAIN index /\ index[states[i]] = i
      BY <1>0 DEF TreeInv
    <3>. QED
      BY <1>2, <3>1, LinkNewFacts
  <2>4. ASSUME NEW i \in 2..Len(states')
        PROVE  parent'[i] \in 1..(i - 1) /\ Edge(successors', parent'[i], i)
    <3>1. CASE i = Len(states) + 1
      <4>1. parent'[i] = current /\ Edge(successors', current, i) /\ Len(states) \in Nat
        BY <1>2, <3>1, LinkNewFacts
      <4>. QED
        BY <2>1, <3>1, <4>1
    <3>2. CASE i # Len(states) + 1
      <4>1. i \in 2..Len(states) /\ i \in 1..Len(states)
        BY <1>2, <3>2, LinkNewFacts
      <4>2. parent[i] \in 1..(i - 1) /\ parent[i] \in 1..Len(states) /\ Edge(successors, parent[i], i)
        <5>1. parent[i] \in 1..(i - 1) /\ Edge(successors, parent[i], i) /\ Len(states) \in Nat
          BY <1>0, <4>1 DEF TreeInv, TypeOK
        <5>. QED
          BY <4>1, <5>1
      <4>. QED
        BY <1>2, <4>1, <4>2, LinkNewFacts
    <3>. QED
      BY <3>1, <3>2
  <2>5. /\ Len(parent') = Len(states') /\ Len(successors') = Len(states')
        /\ states' # << >> /\ states'[1] = Start /\ parent'[1] = NoIndex
    <3>1. 1 \in 1..Len(states)
      BY <2>1
    <3>. QED
      BY <1>0, <1>2, <3>1, LinkNewFacts DEF TreeInv
  <2>. QED
    BY <2>2, <2>3, <2>4, <2>5 DEF TreeInv
<1>3. CASE UNCHANGED stored
  BY <1>0, <1>3 DEF TreeInv, stored
<1>. QED
  BY <1>1, <1>2, <1>3
  DEF Next, Advance, StartFindCycle, SkipRoot, EnterRoot, LeaveRoot, Exhausted, SkipChild,
      Descend, CloseCycle, Backtrack, ClimbCycle, FinishCycle, ClimbPrefix, MakeRun,
      exploration, stored, vars

LEMMA NextLinkInv == IInv /\ [Next]_vars => LinkInv'
<1> SUFFICES ASSUME IInv, [Next]_vars PROVE LinkInv'
  OBVIOUS
<1>0. TypeOK /\ TreeInv /\ LinkInv
  BY DEF IInv
<1>1. CASE LinkKnown
  <2>1. /\ UNCHANGED <<graph, states, current, pc>> /\ pc = "explore" /\ pos' = pos + 1
        /\ Candidate \in DOMAIN index
        /\ successors' = [successors EXCEPT ![current] = Append(@, index[Candidate])]
    BY <1>1 DEF LinkKnown, Unexpanded, args
  <2>2. /\ current \in 1..Len(states) /\ current \in 1..Len(successors)
        /\ pos \in 1..Len(graph[states[current]])
        /\ Candidate = graph[states[current]][pos]
        /\ Len(successors[current]) = pos - 1
    BY <1>0, <1>1, CandidateFacts DEF LinkKnown, TreeInv
  <2>3. index[Candidate] \in 1..Len(states) /\ states[index[Candidate]] = Candidate
    BY <1>0, <2>1 DEF TreeInv
  <2>4. /\ \A i \in 1..Len(states) : i # current => successors'[i] = successors[i]
        /\ Len(successors'[current]) = pos
        /\ successors'[current][pos] = index[Candidate]
        /\ \A j \in 1..(pos - 1) : successors'[current][j] = successors[current][j]
        /\ \A j \in 1..pos : j \in 1..(pos - 1) \/ j = pos
    <3>1. /\ successors \in Seq(Seq(Nat)) /\ index[Candidate] \in Nat
          /\ Len(successors) = Len(states) /\ successors[current] \in Seq(Nat)
      <4>1. index[Candidate] \in Nat
        BY <1>0, <2>3 DEF TypeOK
      <4>2. successors[current] \in Seq(Nat)
        BY <1>0, <2>2, StoredFacts
      <4>. QED
        BY <1>0, <4>1, <4>2 DEF TypeOK, TreeInv
    <3>2. pos \in Nat /\ pos - 1 + 1 = pos
      BY <1>0 DEF TypeOK
    <3>3. /\ successors'[current] = Append(successors[current], index[Candidate])
          /\ \A i \in 1..Len(successors) : i # current => successors'[i] = successors[i]
      BY <2>1, <2>2, <3>1, LinkedFacts
    <3>4. /\ Len(successors'[current]) = pos
          /\ successors'[current][pos] = index[Candidate]
          /\ \A j \in 1..(pos - 1) : successors'[current][j] = successors[current][j]
          /\ \A j \in 1..pos : j \in 1..(pos - 1) \/ j = pos
      BY <2>2, <3>1, <3>2, <3>3, AppendFacts
    <3>. QED
      BY <3>1, <3>3, <3>4
  <2>5. ASSUME NEW i \in 1..Len(states)
        PROVE  /\ i < current => Len(successors'[i]) = Len(graph[states[i]])
               /\ i = current => Len(successors'[i]) = pos + 1 - 1
               /\ i > current => Len(successors'[i]) = 0
               /\ Len(successors'[i]) <= Len(graph[states[i]])
               /\ \A j \in 1..Len(successors'[i]) :
                     /\ successors'[i][j] \in 1..Len(states)
                     /\ states[successors'[i][j]] = graph[states[i]][j]
    <3>1. CASE i = current
      <4>1. Len(successors'[i]) = pos /\ pos <= Len(graph[states[i]]) /\ pos \in Nat
        BY <2>2, <2>4, <3>1
      <4>2. \A j \in 1..pos : /\ successors'[i][j] \in 1..Len(states)
                              /\ states[successors'[i][j]] = graph[states[i]][j]
        <5>1. \A j \in 1..(pos - 1) :
                 /\ successors[current][j] \in 1..Len(states)
                 /\ states[successors[current][j]] = graph[states[current]][j]
          BY <1>0, <2>2 DEF LinkInv
        <5>. QED
          BY <2>2, <2>3, <2>4, <3>1, <5>1
      <4>. QED
        BY <2>2, <3>1, <4>1, <4>2
    <3>2. CASE i # current
      BY <1>0, <2>4, <3>2 DEF LinkInv
    <3>. QED
      BY <3>1, <3>2
  <2>6. pos' >= 1 /\ current' \in 1..(Len(states') + 1)
    BY <1>0, <2>1, <2>2 DEF LinkInv
  <2>7. \A i \in 1..Len(states') :
           /\ i < current' => Len(successors'[i]) = Len(graph'[states'[i]])
           /\ i = current' => Len(successors'[i]) = pos' - 1
           /\ i > current' => Len(successors'[i]) = 0
           /\ Len(successors'[i]) <= Len(graph'[states'[i]])
           /\ \A j \in 1..Len(successors'[i]) :
                 /\ successors'[i][j] \in 1..Len(states')
                 /\ states'[successors'[i][j]] = graph'[states'[i]][j]
    <3> TAKE i \in 1..Len(states')
    <3>1. i \in 1..Len(states) /\ pos' - 1 = pos + 1 - 1
      BY <1>0, <2>1 DEF TypeOK
    <3>. QED
      BY <2>1, <2>5, <3>1
  <2>. QED
    BY <2>1, <2>6, <2>7 DEF LinkInv
<1>2. CASE LinkNew
  <2>1. /\ current \in 1..Len(states)
        /\ pos \in 1..Len(graph[states[current]])
        /\ Candidate = graph[states[current]][pos]
        /\ Len(successors[current]) = pos - 1
        /\ graph[states[current]] \in Seq(Node) /\ Candidate \in Node
        /\ successors[current] \in Seq(Nat)
    BY <1>0, <1>2, CandidateFacts, StoredFacts DEF LinkNew
  <2>2. /\ pos \in Nat /\ Len(states) \in Nat
        /\ Len(successors'[current]) = pos
        /\ successors'[current][pos] = Len(states) + 1
        /\ \A j \in 1..(pos - 1) : successors'[current][j] = successors[current][j]
        /\ \A j \in 1..pos : j \in 1..(pos - 1) \/ j = pos
    <3>1. pos \in Nat /\ pos - 1 + 1 = pos /\ Len(states) \in Nat
      BY SMTT(30), <2>1, <1>0 DEF TypeOK
    <3>2. successors'[current] = Append(successors[current], Len(states) + 1)
      BY <1>2, LinkNewFacts
    <3>. QED
      BY <2>1, <3>1, <3>2, AppendFacts
  <2>3. ASSUME NEW i \in 1..Len(states')
        PROVE  /\ i < current => Len(successors'[i]) = Len(graph[states'[i]])
               /\ i = current => Len(successors'[i]) = pos + 1 - 1
               /\ i > current => Len(successors'[i]) = 0
               /\ Len(successors'[i]) <= Len(graph[states'[i]])
               /\ \A j \in 1..Len(successors'[i]) :
                     /\ successors'[i][j] \in 1..Len(states')
                     /\ states'[successors'[i][j]] = graph[states'[i]][j]
    <3>1. CASE i = current
      <4>1. Len(successors'[i]) = pos /\ states'[i] = states[i] /\ pos <= Len(graph[states[i]])
        BY <1>2, <2>1, <2>2, <3>1, LinkNewFacts
      <4>2. ASSUME NEW j \in 1..pos
            PROVE  /\ successors'[i][j] \in 1..Len(states')
                   /\ states'[successors'[i][j]] = graph[states[i]][j]
        <5>1. CASE j = pos
          <6>1. successors'[i][j] = Len(states) + 1 /\ Len(states) + 1 \in 1..Len(states')
            BY <1>2, <2>2, <3>1, <5>1, LinkNewFacts
          <6>. QED
            BY <1>2, <2>1, <3>1, <5>1, <6>1, LinkNewFacts
        <5>2. CASE j \in 1..(pos - 1)
          <6>1. /\ successors'[i][j] = successors[i][j]
                /\ successors[i][j] \in 1..Len(states)
                /\ states[successors[i][j]] = graph[states[i]][j]
            BY <1>0, <2>1, <2>2, <3>1, <5>2 DEF LinkInv
          <6>. QED
            BY <1>2, <6>1, LinkNewFacts
        <5>. QED
          BY <2>2, <5>1, <5>2
      <4>. QED
        BY <2>1, <2>2, <3>1, <4>1, <4>2
    <3>2. CASE i \in 1..Len(states) /\ i # current
      <4>1. successors'[i] = successors[i] /\ states'[i] = states[i]
        BY <1>2, <3>2, LinkNewFacts
      <4>2. \A j \in 1..Len(successors[i]) :
               /\ successors[i][j] \in 1..Len(states)
               /\ states[successors[i][j]] = graph[states[i]][j]
        BY <1>0, <3>2 DEF LinkInv
      <4>3. \A j \in 1..Len(successors[i]) :
               /\ successors[i][j] \in 1..Len(states')
               /\ states'[successors[i][j]] = graph[states[i]][j]
        BY <1>2, <4>2, LinkNewFacts
      <4>. QED
        BY <1>0, <3>2, <4>1, <4>3 DEF LinkInv
    <3>3. CASE i = Len(states) + 1
      <4>1. successors'[i] = << >> /\ states'[i] = Candidate
        BY <1>2, <3>3, LinkNewFacts
      <4>2. Len(graph[Candidate]) \in Nat
        <5>1. graph[Candidate] \in Seq(Node)
          BY <1>0, <2>1, GraphAssumption DEF TypeOK
        <5>. QED
          BY <5>1
      <4>. QED
        BY <2>1, <2>2, <3>3, <4>1, <4>2
    <3>. QED
      BY <1>2, <3>1, <3>2, <3>3, LinkNewFacts
  <2>4. /\ UNCHANGED <<graph, current, pc>> /\ pc = "explore" /\ pos' = pos + 1
        /\ Len(states') = Len(states) + 1
    BY <1>2, LinkNewFacts
  <2>5. pos' >= 1 /\ current' \in 1..(Len(states') + 1)
    BY <2>1, <2>2, <2>4
  <2>6. \A i \in 1..Len(states') :
           /\ i < current' => Len(successors'[i]) = Len(graph'[states'[i]])
           /\ i = current' => Len(successors'[i]) = pos' - 1
           /\ i > current' => Len(successors'[i]) = 0
           /\ Len(successors'[i]) <= Len(graph'[states'[i]])
           /\ \A j \in 1..Len(successors'[i]) :
                 /\ successors'[i][j] \in 1..Len(states')
                 /\ states'[successors'[i][j]] = graph'[states'[i]][j]
    <3> TAKE i \in 1..Len(states')
    <3>1. pos' - 1 = pos + 1 - 1
      BY <1>0, <2>4 DEF TypeOK
    <3>. QED
      BY <2>3, <2>4, <3>1
  <2>. QED
    BY <2>4, <2>5, <2>6 DEF LinkInv
<1>3. CASE Advance
  <2>1. /\ UNCHANGED <<graph, states, successors, pc>> /\ pc = "explore" /\ pos' = 1
        /\ current' = current + 1 /\ current <= Len(states) /\ pos > Len(graph[states[current]])
    BY <1>3 DEF Advance, args, stored
  <2>2. current \in 1..Len(states) /\ Len(states) \in Nat
    BY <1>0, <2>1 DEF LinkInv, TypeOK
  <2>3. Len(successors[current]) = Len(graph[states[current]])
    <3>1. /\ Len(successors[current]) = pos - 1 /\ pos \in Nat
          /\ Len(successors[current]) <= Len(graph[states[current]])
          /\ Len(graph[states[current]]) \in Nat
      BY <1>0, <2>2, StoredFacts DEF LinkInv, TypeOK
    <3>. QED
      BY <2>1, <3>1
  <2>4. ASSUME NEW i \in 1..Len(states)
        PROVE  /\ i < current + 1 => Len(successors[i]) = Len(graph[states[i]])
               /\ i = current + 1 => Len(successors[i]) = 1 - 1
               /\ i > current + 1 => Len(successors[i]) = 0
    <3>1. i < current + 1 => i < current \/ i = current
      BY <2>2
    <3>2. i = current + 1 \/ i > current + 1 => i > current
      BY <2>2
    <3>. QED
      BY <1>0, <2>3, <3>1, <3>2 DEF LinkInv
  <2>5. current + 1 \in 1..(Len(states) + 1)
    BY <2>2
  <2>. QED
    BY <1>0, <2>1, <2>4, <2>5 DEF LinkInv
<1>4. CASE StartFindCycle
  BY <1>0, <1>4 DEF StartFindCycle, LinkInv, args, exploration, stored
<1>5. ASSUME UNCHANGED <<graph, states, successors, current, pos>>,
             pc' # "explore" => pc # "explore"
      PROVE  LinkInv'
  BY <1>0, <1>5 DEF LinkInv
<1>6. CASE \/ SkipRoot \/ EnterRoot \/ LeaveRoot \/ Exhausted
           \/ SkipChild \/ Descend \/ CloseCycle \/ Backtrack
           \/ ClimbCycle \/ FinishCycle \/ ClimbPrefix \/ MakeRun
  BY <1>5, <1>6
  DEF SkipRoot, EnterRoot, LeaveRoot, Exhausted, SkipChild, Descend, CloseCycle, Backtrack,
      ClimbCycle, FinishCycle, ClimbPrefix, MakeRun, HasNext, args, exploration, stored
<1>7. CASE UNCHANGED vars
  BY <1>5, <1>7 DEF vars
<1>. QED
  BY <1>1, <1>2, <1>3, <1>4, <1>6, <1>7 DEF Next

LEMMA NextReachInv == IInv /\ [Next]_vars => ReachInv'
<1> SUFFICES ASSUME IInv, [Next]_vars PROVE ReachInv'
  OBVIOUS
<1>0. TypeOK /\ TreeInv /\ LinkInv /\ ReachInv
  BY DEF IInv
<1>1. CASE LinkNew
  <2>1. /\ current \in 1..Len(states) /\ states[current] \in Node
        /\ pos \in 1..Len(graph[states[current]])
        /\ Candidate = graph[states[current]][pos]
    BY <1>0, <1>1, CandidateFacts, StoredFacts DEF LinkNew
  <2>2. Candidate \in Reachable(graph)
    BY <1>0, <2>1, SuccessorReachable DEF TypeOK, ReachInv
  <2>. QED
    BY <1>0, <1>1, <2>2, LinkNewFacts DEF ReachInv
<1>2. CASE UNCHANGED <<graph, states>>
  BY <1>0, <1>2 DEF ReachInv, Reachable, Closed
<1>. QED
  BY <1>1, <1>2
  DEF Next, LinkKnown, Advance, StartFindCycle, SkipRoot, EnterRoot, LeaveRoot, Exhausted,
      SkipChild, Descend, CloseCycle, Backtrack, ClimbCycle, FinishCycle, ClimbPrefix, MakeRun,
      args, exploration, stored, vars

-----------------------------------------------------------------------------
(* What the steps of find_cycle() do to the stack and to the colours.      *)
LEMMA PassFacts ==
    ASSUME IInv, HasNext, stack' = Advanced
    PROVE  /\ Len(stack') = Len(stack) /\ Len(stack) \in 1..Len(stack)
           /\ \A k \in 1..Len(stack) : stack'[k].node = stack[k].node
           /\ \A k \in 1..Len(stack) : k # Len(stack) => stack'[k].pos = stack[k].pos
           /\ stack'[Len(stack)].pos = Top.pos + 1
  BY AdvancedFacts, TopFacts DEF HasNext

LEMMA DescendFacts ==
    ASSUME IInv, Descend
    PROVE  /\ UNCHANGED <<graph, atom, states, successors, root>>
           /\ pc = "search" /\ pc' = "search"
           /\ Len(stack) \in 1..Len(stack) /\ Len(stack') = Len(stack) + 1
           /\ stack'[Len(stack) + 1] = [node |-> NextChild, pos |-> 1]
           /\ \A k \in 1..Len(stack') : k \in 1..Len(stack) \/ k = Len(stack) + 1
           /\ \A k \in 1..Len(stack) : stack'[k].node = stack[k].node
           /\ \A k \in 1..Len(stack) : k # Len(stack) => stack'[k].pos = stack[k].pos
           /\ stack'[Len(stack)].pos = Top.pos + 1
           /\ Len(colour') = Len(colour) /\ Len(treeParent') = Len(treeParent)
           /\ colour[NextChild] = "white" /\ colour'[NextChild] = "gray"
           /\ treeParent'[NextChild] = Top.node
           /\ \A i \in 1..Len(colour) : i # NextChild => colour'[i] = colour[i]
                                                         /\ treeParent'[i] = treeParent[i]
           /\ \A k \in 1..Len(stack) : stack[k].node # NextChild
<1>0. TypeOK /\ FrameInv /\ PathInv
  BY DEF IInv
<1>1. HasNext /\ stack # << >>
  BY DEF Descend, HasNext
<1>2. /\ UNCHANGED <<graph, atom, states, successors, root>>
      /\ pc = "search" /\ pc' = "search"
      /\ stack' = Append(Advanced, [node |-> NextChild, pos |-> 1])
      /\ colour' = [colour EXCEPT ![NextChild] = "gray"]
      /\ treeParent' = [treeParent EXCEPT ![NextChild] = Top.node]
      /\ colour[NextChild] = "white"
  BY DEF Descend, HasNext, args, exploration, stored
<1>3. /\ NextChild \in 1..Len(states) /\ NextChild \in 1..Len(colour)
      /\ Top.node \in Nat /\ Len(stack) \in 1..Len(stack)
      /\ Len(colour) = Len(states) /\ Len(treeParent) = Len(states)
  BY <1>1, ChildFacts, TopFacts
<1>4. [node |-> NextChild, pos |-> 1] \in Frame
  BY <1>3 DEF Frame
<1>5. /\ Advanced \in Seq(Frame) /\ Len(Advanced) = Len(stack)
      /\ \A k \in 1..Len(stack) : Advanced[k].node = stack[k].node
      /\ \A k \in 1..Len(stack) : k # Len(stack) => Advanced[k].pos = stack[k].pos
      /\ Advanced[Len(stack)].pos = Top.pos + 1
  BY <1>1, AdvancedFacts
<1>6. /\ Len(stack') = Len(stack) + 1
      /\ stack'[Len(stack) + 1] = [node |-> NextChild, pos |-> 1]
      /\ \A k \in 1..Len(stack) : stack'[k] = Advanced[k]
      /\ \A k \in 1..Len(stack') : k \in 1..Len(stack) \/ k = Len(stack) + 1
  BY <1>2, <1>4, <1>5, AppendFacts
<1>7. /\ Len(colour') = Len(colour) /\ colour'[NextChild] = "gray"
      /\ \A i \in 1..Len(colour) : i # NextChild => colour'[i] = colour[i]
  <2>1. colour \in Seq(Colour) /\ "gray" \in Colour
    BY <1>0 DEF TypeOK, Colour
  <2>. QED
    BY <1>2, <1>3, <2>1, ExceptFacts
<1>8. /\ Len(treeParent') = Len(treeParent) /\ treeParent'[NextChild] = Top.node
      /\ \A i \in 1..Len(treeParent) : i # NextChild => treeParent'[i] = treeParent[i]
  <2>1. treeParent \in Seq(Nat) /\ NextChild \in 1..Len(treeParent)
    BY <1>0, <1>3 DEF TypeOK
  <2>. QED
    BY <1>2, <1>3, <2>1, ExceptFacts
<1>9. \A k \in 1..Len(stack) : stack[k].node # NextChild
  BY <1>0, <1>2, <1>3 DEF PathInv
<1>. QED
  BY <1>2, <1>3, <1>5, <1>6, <1>7, <1>8, <1>9

LEMMA EnterRootFacts ==
    ASSUME IInv, EnterRoot
    PROVE  /\ UNCHANGED <<graph, atom, states, successors, treeParent, root>>
           /\ pc = "roots" /\ pc' = "search"
           /\ root \in 1..Len(states) /\ root \in 1..Len(colour) /\ Allowed(root)
           /\ stack = << >> /\ Len(stack') = 1 /\ stack'[1] = [node |-> root, pos |-> 1]
           /\ Len(colour') = Len(colour)
           /\ colour[root] = "white" /\ colour'[root] = "gray"
           /\ \A i \in 1..Len(colour) : i # root => colour'[i] = colour[i]
<1>0. TypeOK /\ FrameInv /\ RootInv
  BY DEF IInv
<1>1. /\ UNCHANGED <<graph, atom, states, successors, treeParent, root>>
      /\ pc = "roots" /\ pc' = "search" /\ root <= Len(states) /\ Allowed(root)
      /\ stack' = <<[node |-> root, pos |-> 1]>>
      /\ colour[root] = "white" /\ colour' = [colour EXCEPT ![root] = "gray"]
  BY DEF EnterRoot, args, exploration, stored
<1>2. root \in 1..Len(states) /\ root \in 1..Len(colour) /\ stack = << >>
  BY <1>0, <1>1 DEF TypeOK, FrameInv, RootInv
<1>3. /\ Len(colour') = Len(colour) /\ colour'[root] = "gray"
      /\ \A i \in 1..Len(colour) : i # root => colour'[i] = colour[i]
  <2>1. colour \in Seq(Colour) /\ "gray" \in Colour
    BY <1>0 DEF TypeOK, Colour
  <2>. QED
    BY <1>1, <1>2, <2>1, ExceptFacts
<1>. QED
  BY <1>1, <1>2, <1>3

LEMMA BacktrackFacts ==
    ASSUME IInv, Backtrack
    PROVE  /\ UNCHANGED <<graph, atom, states, successors, treeParent, root>>
           /\ pc = "search" /\ pc' = "search" /\ stack # << >>
           /\ Top.pos > Len(successors[Top.node])
           /\ Len(stack) \in 1..Len(stack) /\ Len(stack') = Len(stack) - 1
           /\ \A k \in 1..Len(stack') : stack'[k] = stack[k] /\ k \in 1..Len(stack) /\ k < Len(stack)
           /\ \A k \in 1..Len(stack) : k = Len(stack) \/ k \in 1..Len(stack')
           /\ Top = stack[Len(stack)] /\ Top.node \in 1..Len(states)
           /\ Top.node \in 1..Len(colour) /\ Len(colour') = Len(colour)
           /\ colour'[Top.node] = "black" /\ colour[Top.node] = "gray"
           /\ \A i \in 1..Len(colour) : i # Top.node => colour'[i] = colour[i]
<1>0. TypeOK /\ FrameInv /\ PathInv
  BY DEF IInv
<1>1. /\ UNCHANGED <<graph, atom, states, successors, treeParent, root>>
      /\ pc = "search" /\ pc' = "search" /\ stack # << >>
      /\ Top.pos > Len(successors[Top.node])
      /\ stack' = Front(stack) /\ colour' = [colour EXCEPT ![Top.node] = "black"]
  BY DEF Backtrack, args, exploration, stored
<1>2. /\ Len(stack) \in 1..Len(stack) /\ Top = stack[Len(stack)]
      /\ Top.node \in 1..Len(states) /\ Top.node \in 1..Len(colour)
  BY <1>1, TopFacts
<1>3. /\ Len(stack') = Len(stack) - 1
      /\ \A k \in 1..Len(stack') : stack'[k] = stack[k] /\ k \in 1..Len(stack) /\ k < Len(stack)
      /\ \A k \in 1..Len(stack) : k = Len(stack) \/ k \in 1..Len(stack')
  BY SMTT(30), <1>1, <1>2, FrontFacts
<1>4. /\ Len(colour') = Len(colour) /\ colour'[Top.node] = "black"
      /\ \A i \in 1..Len(colour) : i # Top.node => colour'[i] = colour[i]
  <2>1. colour \in Seq(Colour) /\ "black" \in Colour
    BY <1>0 DEF TypeOK, Colour
  <2>. QED
    BY <1>1, <1>2, <2>1, ExceptFacts
<1>5. colour[Top.node] = "gray"
  BY <1>0, <1>2 DEF PathInv
<1>. QED
  BY <1>1, <1>2, <1>3, <1>4, <1>5

(* The successor at hand of the top frame is passed over: it leaves the    *)
(* atom, or it is black, or the search stops.                              *)
LEMMA PassChild ==
    ASSUME IInv, HasNext, stack' = Advanced,
           UNCHANGED <<graph, atom, states, successors, colour, treeParent>>,
           pc' # "explore",
           pc' = "search" => ~Allowed(NextChild) \/ colour[NextChild] = "black"
    PROVE  FrameInv'
<1>0. TypeOK /\ FrameInv /\ pc = "search"
  BY DEF IInv, HasNext
<1>1. /\ Len(stack') = Len(stack) /\ Len(stack) \in 1..Len(stack)
      /\ \A k \in 1..Len(stack) : stack'[k].node = stack[k].node
      /\ \A k \in 1..Len(stack) : k # Len(stack) => stack'[k].pos = stack[k].pos
      /\ stack'[Len(stack)].pos = Top.pos + 1
  BY PassFacts
<1>2. /\ Top = stack[Len(stack)] /\ Top.pos \in Nat
      /\ NextChild = successors[Top.node][Top.pos]
      /\ Top.pos \in 1..Len(successors[Top.node])
  BY TopFacts, ChildFacts DEF HasNext
<1>3. ASSUME NEW k \in 1..Len(stack)
      PROVE  stack'[k].node \in 1..Len(states) /\ stack'[k].pos >= 1 /\ states[stack'[k].node] \in atom
  <2>1. stack[k].pos >= 1 /\ stack[k].node \in 1..Len(states) /\ states[stack[k].node] \in atom
    BY <1>0 DEF FrameInv, Allowed
  <2>2. stack'[k].pos >= 1
    BY <1>1, <1>2, <2>1
  <2>. QED
    BY <1>1, <2>1, <2>2
<1>4. \A k, l \in 1..Len(stack) : stack'[k].node = stack'[l].node => k = l
  BY <1>0, <1>1 DEF FrameInv
<1>5. ASSUME pc' = "search", NEW k \in 1..Len(stack),
             NEW j \in 1..Len(successors[stack[k].node]), j < stack'[k].pos
      PROVE  \/ states[successors[stack[k].node][j]] \notin atom
             \/ colour[successors[stack[k].node][j]] = "black"
             \/ /\ k + 1 \in 1..Len(stack)
                /\ successors[stack[k].node][j] = stack[k + 1].node
  <2>1. CASE j < stack[k].pos
    BY <1>0, <2>1 DEF FrameInv, Allowed
  <2>2. CASE ~(j < stack[k].pos)
    <3>1. k = Len(stack) /\ j = Top.pos
      BY <1>1, <1>2, <1>5, <2>2
    <3>. QED
      BY <1>2, <1>5, <3>1 DEF Allowed
  <2>. QED
    BY <2>1, <2>2
<1>6. pc' = "search" =>
          \A k \in 1..Len(stack') :
             \A j \in 1..Len(successors'[stack'[k].node]) :
                j < stack'[k].pos =>
                   \/ states'[successors'[stack'[k].node][j]] \notin atom'
                   \/ colour'[successors'[stack'[k].node][j]] = "black"
                   \/ /\ k + 1 \in 1..Len(stack')
                      /\ successors'[stack'[k].node][j] = stack'[k + 1].node
  <2> SUFFICES ASSUME pc' = "search"
               PROVE  \A k \in 1..Len(stack') :
                         \A j \in 1..Len(successors'[stack'[k].node]) :
                            j < stack'[k].pos =>
                               \/ states'[successors'[stack'[k].node][j]] \notin atom'
                               \/ colour'[successors'[stack'[k].node][j]] = "black"
                               \/ /\ k + 1 \in 1..Len(stack')
                                  /\ successors'[stack'[k].node][j] = stack'[k + 1].node
    OBVIOUS
  <2> TAKE k \in 1..Len(stack')
  <2>1. k \in 1..Len(stack) /\ successors'[stack'[k].node] = successors[stack[k].node]
    BY <1>1
  <2> TAKE j \in 1..Len(successors'[stack'[k].node])
  <2> HAVE j < stack'[k].pos
  <2>2. k + 1 \in 1..Len(stack) => k + 1 \in 1..Len(stack') /\ stack'[k + 1].node = stack[k + 1].node
    BY <1>1
  <2>. QED
    BY <1>5, <2>1, <2>2
<1>7. Len(colour') = Len(states') /\ Len(treeParent') = Len(states')
  BY <1>0 DEF FrameInv
<1>. QED
  BY <1>1, <1>3, <1>4, <1>6, <1>7 DEF FrameInv, Allowed

LEMMA NextFrameInv == IInv /\ [Next]_vars => FrameInv'
<1> SUFFICES ASSUME IInv, [Next]_vars PROVE FrameInv'
  OBVIOUS
<1>0. TypeOK /\ TreeInv /\ LinkInv /\ FrameInv /\ PathInv /\ RootInv
  BY DEF IInv
<1>1. CASE StartFindCycle
  <2>1. /\ pc = "explore" /\ pc' = "roots" /\ UNCHANGED <<states, stack>>
        /\ colour' = [i \in 1..Len(states) |-> "white"]
        /\ treeParent' = [i \in 1..Len(states) |-> NoIndex]
    BY <1>1 DEF StartFindCycle, exploration, stored
  <2>2. Len(states) \in Nat /\ stack = << >>
    BY <1>0, <2>1 DEF TypeOK, RootInv
  <2>3. Len(colour') = Len(states) /\ Len(treeParent') = Len(states)
    BY <2>1, <2>2
  <2>. QED
    BY <2>1, <2>2, <2>3 DEF FrameInv
<1>2. CASE EnterRoot
  <2>1. /\ UNCHANGED <<atom, states, successors, treeParent>> /\ pc # "explore" /\ pc' = "search"
        /\ root \in 1..Len(states) /\ Len(stack') = 1 /\ stack'[1] = [node |-> root, pos |-> 1]
        /\ Len(colour') = Len(colour) /\ states[root] \in atom
    BY <1>2, EnterRootFacts DEF Allowed
  <2>2. \A k \in 1..Len(stack') : k = 1 /\ stack'[k].node = root /\ stack'[k].pos = 1
    BY <2>1
  <2>3. \A j \in 1..Len(successors[root]) : ~(j < 1)
    BY <1>0, <2>1, StoredFacts
  <2>4. Len(colour') = Len(states') /\ Len(treeParent') = Len(states')
    BY <1>0, <2>1 DEF FrameInv
  <2>. QED
    BY <2>1, <2>2, <2>3, <2>4 DEF FrameInv, Allowed
<1>3. CASE SkipChild
  BY <1>3, PassChild DEF SkipChild, HasNext, args, exploration, stored
<1>4. CASE CloseCycle
  BY <1>4, PassChild DEF CloseCycle, HasNext, args, exploration, stored
<1>5. CASE Descend
  <2>1. /\ UNCHANGED <<atom, states, successors>> /\ pc = "search" /\ pc' = "search"
        /\ Len(stack) \in 1..Len(stack) /\ Len(stack') = Len(stack) + 1
        /\ stack'[Len(stack) + 1] = [node |-> NextChild, pos |-> 1]
        /\ \A k \in 1..Len(stack') : k \in 1..Len(stack) \/ k = Len(stack) + 1
        /\ \A k \in 1..Len(stack) : stack'[k].node = stack[k].node
        /\ \A k \in 1..Len(stack) : k # Len(stack) => stack'[k].pos = stack[k].pos
        /\ stack'[Len(stack)].pos = Top.pos + 1
        /\ Len(colour') = Len(colour) /\ Len(treeParent') = Len(treeParent)
        /\ colour[NextChild] = "white"
        /\ \A i \in 1..Len(colour) : i # NextChild => colour'[i] = colour[i]
        /\ \A k \in 1..Len(stack) : stack[k].node # NextChild
    BY <1>5, DescendFacts
  <2>2. /\ Top = stack[Len(stack)] /\ Top.pos \in Nat /\ Top.pos \in 1..Len(successors[Top.node])
        /\ NextChild = successors[Top.node][Top.pos] /\ NextChild \in 1..Len(states)
        /\ states[NextChild] \in atom
        /\ Len(colour) = Len(states) /\ Len(treeParent) = Len(states)
    BY <1>5, TopFacts, ChildFacts DEF Descend, HasNext, Allowed
  <2>3. ASSUME NEW k \in 1..Len(stack')
        PROVE  stack'[k].node \in 1..Len(states) /\ stack'[k].pos >= 1 /\ states[stack'[k].node] \in atom
    <3>1. CASE k = Len(stack) + 1
      BY <2>1, <2>2, <3>1
    <3>2. CASE k \in 1..Len(stack)
      <4>1. stack[k].node \in 1..Len(states) /\ stack[k].pos >= 1 /\ states[stack[k].node] \in atom
        BY <1>0, <3>2 DEF FrameInv, Allowed
      <4>2. stack'[k].pos >= 1
        BY <2>1, <2>2, <3>2, <4>1
      <4>. QED
        BY <2>1, <3>2, <4>1, <4>2
    <3>. QED
      BY <2>1, <3>1, <3>2
  <2>4. \A k, l \in 1..Len(stack') : stack'[k].node = stack'[l].node => k = l
    <3> SUFFICES ASSUME NEW k \in 1..Len(stack'), NEW l \in 1..Len(stack'),
                        stack'[k].node = stack'[l].node
                 PROVE  k = l
      OBVIOUS
    <3>1. stack'[Len(stack) + 1].node = NextChild
      BY <2>1
    <3>. QED
      BY <1>0, <2>1, <2>4, <3>1 DEF FrameInv
  <2>5. ASSUME NEW k \in 1..Len(stack'),
               NEW j \in 1..Len(successors[stack'[k].node]), j < stack'[k].pos
        PROVE  \/ states[successors[stack'[k].node][j]] \notin atom
               \/ colour'[successors[stack'[k].node][j]] = "black"
               \/ /\ k + 1 \in 1..Len(stack')
                  /\ successors[stack'[k].node][j] = stack'[k + 1].node
    <3>1. CASE k = Len(stack) + 1
      <4>1. stack'[k].pos = 1 /\ stack'[k].node = NextChild
        BY <2>1, <3>1
      <4>2. Len(successors[NextChild]) \in Nat
        BY <1>0, <2>2, StoredFacts
      <4>. QED
        BY <2>5, <4>1, <4>2
    <3>2. CASE k \in 1..Len(stack) /\ j < stack[k].pos
      <4>1. stack'[k].node = stack[k].node
        BY <2>1, <3>2
      <4>2. \/ states[successors[stack[k].node][j]] \notin atom
            \/ colour[successors[stack[k].node][j]] = "black"
            \/ /\ k + 1 \in 1..Len(stack)
               /\ successors[stack[k].node][j] = stack[k + 1].node
        BY <1>0, <2>1, <3>2, <4>1 DEF FrameInv, Allowed
      <4>3. successors[stack[k].node][j] \in 1..Len(colour)
        <5>1. stack[k].node \in 1..Len(states)
          BY <1>0, <3>2 DEF FrameInv
        <5>. QED
          BY <1>0, <2>2, <4>1, <5>1, StoredFacts
      <4>4. k + 1 \in 1..Len(stack) => k + 1 \in 1..Len(stack')
        BY <2>1
      <4>. QED
        BY <2>1, <4>1, <4>2, <4>3, <4>4
    <3>3. CASE k \in 1..Len(stack) /\ ~(j < stack[k].pos)
      <4>1. k = Len(stack) /\ j = Top.pos
        BY <2>1, <2>2, <2>5, <3>3
      <4>2. k + 1 \in 1..Len(stack') /\ stack'[k + 1].node = NextChild
        BY <2>1, <4>1
      <4>. QED
        BY <2>1, <2>2, <4>1, <4>2
    <3>. QED
      BY <2>1, <3>1, <3>2, <3>3
  <2>. QED
    BY <2>1, <2>2, <2>3, <2>4, <2>5 DEF FrameInv, Allowed
<1>6. CASE Backtrack
  <2>1. /\ UNCHANGED <<atom, states, successors, treeParent>> /\ pc = "search" /\ pc' = "search"
        /\ Len(stack) \in 1..Len(stack) /\ Len(stack') = Len(stack) - 1
        /\ \A k \in 1..Len(stack') : stack'[k] = stack[k] /\ k \in 1..Len(stack) /\ k < Len(stack)
        /\ \A k \in 1..Len(stack) : k = Len(stack) \/ k \in 1..Len(stack')
        /\ Top = stack[Len(stack)] /\ Len(colour') = Len(colour)
        /\ colour'[Top.node] = "black"
        /\ \A i \in 1..Len(colour) : i # Top.node => colour'[i] = colour[i]
    BY <1>6, BacktrackFacts
  <2>2. Len(colour') = Len(states) /\ Len(treeParent') = Len(states)
    BY <1>0, <2>1 DEF FrameInv
  <2>3. ASSUME NEW k \in 1..Len(stack'),
               NEW j \in 1..Len(successors[stack[k].node]), j < stack[k].pos
        PROVE  \/ states[successors[stack[k].node][j]] \notin atom
               \/ colour'[successors[stack[k].node][j]] = "black"
               \/ /\ k + 1 \in 1..Len(stack')
                  /\ successors[stack[k].node][j] = stack'[k + 1].node
    <3>1. \/ states[successors[stack[k].node][j]] \notin atom
          \/ colour[successors[stack[k].node][j]] = "black"
          \/ /\ k + 1 \in 1..Len(stack)
             /\ successors[stack[k].node][j] = stack[k + 1].node
      BY <1>0, <2>1, <2>3 DEF FrameInv, Allowed
    <3>2. successors[stack[k].node][j] \in 1..Len(colour)
      <4>1. stack[k].node \in 1..Len(states) /\ Len(colour) = Len(states)
        BY <1>0, <2>1 DEF FrameInv
      <4>. QED
        BY <1>0, <4>1, StoredFacts
    <3>. QED
      BY <2>1, <3>1, <3>2
  <2>4. ASSUME NEW k \in 1..Len(stack')
        PROVE  stack'[k].node \in 1..Len(states) /\ stack'[k].pos >= 1 /\ states[stack'[k].node] \in atom
    BY <1>0, <2>1 DEF FrameInv, Allowed
  <2>5. \A k, l \in 1..Len(stack') : stack'[k].node = stack'[l].node => k = l
    BY <1>0, <2>1 DEF FrameInv
  <2>6. \A k \in 1..Len(stack') : stack'[k].node = stack[k].node /\ stack'[k].pos = stack[k].pos
    BY <2>1
  <2>7. \A k \in 1..Len(stack') :
           \A j \in 1..Len(successors'[stack'[k].node]) :
              j < stack'[k].pos =>
                 \/ states'[successors'[stack'[k].node][j]] \notin atom'
                 \/ colour'[successors'[stack'[k].node][j]] = "black"
                 \/ /\ k + 1 \in 1..Len(stack')
                    /\ successors'[stack'[k].node][j] = stack'[k + 1].node
    <3> TAKE k \in 1..Len(stack')
    <3>1. stack'[k].node = stack[k].node /\ stack'[k].pos = stack[k].pos
      BY <2>6
    <3> TAKE j \in 1..Len(successors'[stack'[k].node])
    <3> HAVE j < stack'[k].pos
    <3>2. /\ successors' = successors /\ states' = states /\ atom' = atom
          /\ j \in 1..Len(successors[stack[k].node]) /\ j < stack[k].pos
      BY <2>1, <3>1
    <3>3. \/ states[successors[stack[k].node][j]] \notin atom
          \/ colour'[successors[stack[k].node][j]] = "black"
          \/ /\ k + 1 \in 1..Len(stack')
             /\ successors[stack[k].node][j] = stack'[k + 1].node
      BY <2>3, <3>2
    <3>. QED
      BY <3>1, <3>2, <3>3
  <2>. QED
    BY <2>1, <2>2, <2>4, <2>5, <2>7 DEF FrameInv, Allowed
<1>7. CASE LinkKnown \/ LinkNew \/ Advance
  <2>1. pc = "explore" /\ pc' = "explore" /\ UNCHANGED <<colour, stack>>
    BY <1>7 DEF LinkKnown, LinkNew, Advance, Unexpanded, search
  <2>2. stack = << >> /\ colour = << >>
    BY <1>0, <2>1 DEF RootInv, FrameInv
  <2>. QED
    BY <2>1, <2>2 DEF FrameInv
<1>8. ASSUME UNCHANGED <<atom, states, successors, colour, treeParent, stack>>,
             pc' = "search" => pc = "search", pc' = "explore" <=> pc = "explore"
      PROVE  FrameInv'
  BY <1>0, <1>8 DEF FrameInv, Allowed
<1>9. CASE SkipRoot \/ LeaveRoot \/ Exhausted \/ ClimbCycle \/ FinishCycle \/ ClimbPrefix \/ MakeRun
  BY <1>8, <1>9 DEF SkipRoot, LeaveRoot, Exhausted, ClimbCycle, FinishCycle, ClimbPrefix, MakeRun,
                    args, exploration, stored, search
<1>10. CASE UNCHANGED vars
  BY <1>8, <1>10 DEF vars
<1>. QED
  BY <1>1, <1>2, <1>3, <1>4, <1>5, <1>6, <1>7, <1>9, <1>10 DEF Next

LEMMA NextPathInv == IInv /\ [Next]_vars => PathInv'
<1> SUFFICES ASSUME IInv, [Next]_vars PROVE PathInv'
  OBVIOUS
<1>0. TypeOK /\ TreeInv /\ LinkInv /\ FrameInv /\ PathInv /\ RootInv
  BY DEF IInv
<1>1. CASE StartFindCycle
  <2>1. /\ pc = "explore" /\ UNCHANGED stack
        /\ colour' = [i \in 1..Len(states) |-> "white"]
    BY <1>1 DEF StartFindCycle
  <2>2. Len(states) \in Nat /\ stack = << >>
    BY <1>0, <2>1 DEF TypeOK, RootInv
  <2>3. \A i \in 1..Len(colour') : colour'[i] = "white"
    BY <2>1, <2>2
  <2>. QED
    BY <2>1, <2>2, <2>3 DEF PathInv
<1>2. CASE EnterRoot
  <2>1. /\ root \in 1..Len(colour) /\ stack = << >> /\ Len(stack') = 1
        /\ stack'[1] = [node |-> root, pos |-> 1]
        /\ Len(colour') = Len(colour) /\ colour'[root] = "gray"
        /\ \A i \in 1..Len(colour) : i # root => colour'[i] = colour[i]
    BY <1>2, EnterRootFacts
  <2>2. \A i \in 1..Len(colour) : colour[i] # "gray"
    BY <1>0, <2>1 DEF PathInv
  <2>3. \A k \in 1..Len(stack') : k = 1 /\ stack'[k].node = root
    BY <2>1
  <2>4. 1 \in 1..Len(stack') /\ ~(\E k \in 1..(Len(stack') - 1) : TRUE)
    BY <2>1
  <2>. QED
    BY <2>1, <2>2, <2>3, <2>4 DEF PathInv
<1>3. CASE SkipChild \/ CloseCycle
  <2>1. HasNext /\ stack' = Advanced /\ UNCHANGED <<successors, treeParent, colour>>
    BY <1>3 DEF SkipChild, CloseCycle, exploration, stored
  <2>2. /\ Len(stack') = Len(stack) /\ Len(stack) \in 1..Len(stack)
        /\ \A k \in 1..Len(stack) : stack'[k].node = stack[k].node
    BY <2>1, PassFacts
  <2>3. \A k \in 1..(Len(stack) - 1) : k \in 1..Len(stack) /\ k + 1 \in 1..Len(stack)
    BY <2>2
  <2>. QED
    <3>1. \A k \in 1..(Len(stack) - 1) :
             /\ treeParent[stack'[k + 1].node] = stack'[k].node
             /\ Edge(successors, stack'[k].node, stack'[k + 1].node)
      BY <1>0, <2>2, <2>3 DEF PathInv
    <3>2. \A k \in 1..(Len(stack') - 1) :
             /\ treeParent'[stack'[k + 1].node] = stack'[k].node
             /\ Edge(successors', stack'[k].node, stack'[k + 1].node)
      BY <2>1, <2>2, <3>1
    <3>3. \A i \in 1..Len(colour') :
             colour'[i] = "gray" <=> \E k \in 1..Len(stack') : stack'[k].node = i
      <4> TAKE i \in 1..Len(colour')
      <4>1. i \in 1..Len(colour) /\ colour'[i] = colour[i]
        BY <2>1
      <4>2. colour[i] = "gray" <=> \E k \in 1..Len(stack) : stack[k].node = i
        BY <1>0, <4>1 DEF PathInv
      <4>. QED
        BY <2>2, <4>1, <4>2
    <3>. QED
      BY <3>2, <3>3 DEF PathInv
<1>4. CASE Descend
  <2>1. /\ UNCHANGED successors
        /\ Len(stack) \in 1..Len(stack) /\ Len(stack') = Len(stack) + 1
        /\ stack'[Len(stack) + 1] = [node |-> NextChild, pos |-> 1]
        /\ \A k \in 1..Len(stack') : k \in 1..Len(stack) \/ k = Len(stack) + 1
        /\ \A k \in 1..Len(stack) : stack'[k].node = stack[k].node
        /\ Len(colour') = Len(colour) /\ colour'[NextChild] = "gray"
        /\ treeParent'[NextChild] = Top.node
        /\ \A i \in 1..Len(colour) : i # NextChild => colour'[i] = colour[i]
                                                      /\ treeParent'[i] = treeParent[i]
        /\ \A k \in 1..Len(stack) : stack[k].node # NextChild
    BY <1>4, DescendFacts
  <2>2. /\ Top = stack[Len(stack)] /\ Edge(successors, Top.node, NextChild)
        /\ Len(colour) = Len(states)
    BY <1>4, TopFacts, ChildFacts DEF Descend, HasNext
  <2>3. stack'[Len(stack) + 1].node = NextChild
    BY <2>1
  <2>4. ASSUME NEW k \in 1..(Len(stack') - 1)
        PROVE  /\ treeParent'[stack'[k + 1].node] = stack'[k].node
               /\ Edge(successors, stack'[k].node, stack'[k + 1].node)
    <3>1. CASE k = Len(stack)
      BY <2>1, <2>2, <2>3, <3>1
    <3>2. CASE k # Len(stack)
      <4>1. k \in 1..(Len(stack) - 1) /\ k \in 1..Len(stack) /\ k + 1 \in 1..Len(stack)
        BY <2>1, <3>2
      <4>2. /\ stack'[k].node = stack[k].node /\ stack'[k + 1].node = stack[k + 1].node
            /\ stack[k + 1].node # NextChild /\ stack[k + 1].node \in 1..Len(colour)
        BY <1>0, <2>1, <2>2, <4>1 DEF FrameInv
      <4>. QED
        BY <1>0, <2>1, <4>1, <4>2 DEF PathInv
    <3>. QED
      BY <3>1, <3>2
  <2>5. ASSUME NEW i \in 1..Len(colour')
        PROVE  colour'[i] = "gray" <=> \E k \in 1..Len(stack') : stack'[k].node = i
    <3>1. \A k \in 1..Len(stack) : k \in 1..Len(stack')
      BY <2>1
    <3>2. CASE i = NextChild
      <4>1. Len(stack) + 1 \in 1..Len(stack')
        BY <2>1
      <4>. QED
        BY <2>1, <2>3, <3>2, <4>1
    <3>3. CASE i # NextChild
      <4>1. i \in 1..Len(colour) /\ colour'[i] = colour[i]
        BY <2>1, <3>3
      <4>2. colour[i] = "gray" <=> \E k \in 1..Len(stack) : stack[k].node = i
        BY <1>0, <4>1 DEF PathInv
      <4>3. \A k \in 1..Len(stack') : stack'[k].node = i => k \in 1..Len(stack)
        BY <2>1, <2>3, <3>3
      <4>. QED
        BY <2>1, <3>1, <4>1, <4>2, <4>3
    <3>. QED
      BY <3>2, <3>3
  <2>6. \A k \in 1..(Len(stack') - 1) : Edge(successors', stack'[k].node, stack'[k + 1].node)
    BY <2>1, <2>4
  <2>. QED
    BY <2>4, <2>5, <2>6 DEF PathInv
<1>5. CASE Backtrack
  <2>1. /\ UNCHANGED <<successors, treeParent>>
        /\ Len(stack) \in 1..Len(stack) /\ Len(stack') = Len(stack) - 1
        /\ \A k \in 1..Len(stack') : stack'[k] = stack[k] /\ k \in 1..Len(stack) /\ k < Len(stack)
        /\ \A k \in 1..Len(stack) : k = Len(stack) \/ k \in 1..Len(stack')
        /\ Top = stack[Len(stack)] /\ Len(colour') = Len(colour)
        /\ colour'[Top.node] = "black"
        /\ \A i \in 1..Len(colour) : i # Top.node => colour'[i] = colour[i]
    BY <1>5, BacktrackFacts
  <2>2. \A k \in 1..(Len(stack') - 1) :
           /\ treeParent[stack'[k + 1].node] = stack'[k].node
           /\ Edge(successors, stack'[k].node, stack'[k + 1].node)
    <3>1. \A k \in 1..(Len(stack') - 1) : /\ k \in 1..Len(stack') /\ k + 1 \in 1..Len(stack')
                                          /\ k \in 1..(Len(stack) - 1)
      BY <2>1
    <3>. QED
      BY <1>0, <2>1, <3>1 DEF PathInv
  <2>3. ASSUME NEW i \in 1..Len(colour')
        PROVE  colour'[i] = "gray" <=> \E k \in 1..Len(stack') : stack'[k].node = i
    <3>1. CASE i = Top.node
      <4>1. \A k \in 1..Len(stack') : stack'[k].node # i
        <5> SUFFICES ASSUME NEW k \in 1..Len(stack'), stack'[k].node = i PROVE FALSE
          OBVIOUS
        <5>1. k \in 1..Len(stack) /\ k < Len(stack) /\ stack[k].node = stack[Len(stack)].node
          BY <2>1, <3>1
        <5>2. k = Len(stack)
          BY <1>0, <2>1, <5>1 DEF FrameInv
        <5>. QED
          BY <2>1, <5>1, <5>2
      <4>. QED
        BY <2>1, <3>1, <4>1
    <3>2. CASE i # Top.node
      <4>1. i \in 1..Len(colour) /\ colour'[i] = colour[i]
        BY <2>1, <3>2
      <4>2. colour[i] = "gray" <=> \E k \in 1..Len(stack) : stack[k].node = i
        BY <1>0, <4>1 DEF PathInv
      <4>3. \A k \in 1..Len(stack) : stack[k].node = i => k \in 1..Len(stack')
        BY <2>1, <3>2
      <4>4. \A k \in 1..Len(stack') : k \in 1..Len(stack) /\ stack'[k] = stack[k]
        BY <2>1
      <4>. QED
        BY ONLY <4>1, <4>2, <4>3, <4>4
    <3>. QED
      BY <3>1, <3>2
  <2>4. \A k \in 1..(Len(stack') - 1) :
           /\ treeParent'[stack'[k + 1].node] = stack'[k].node
           /\ Edge(successors', stack'[k].node, stack'[k + 1].node)
    BY <2>1, <2>2
  <2>. QED
    BY <2>3, <2>4 DEF PathInv
<1>6. CASE LinkKnown \/ LinkNew \/ Advance
  <2>1. pc = "explore" /\ UNCHANGED <<colour, stack>>
    BY <1>6 DEF LinkKnown, LinkNew, Advance, Unexpanded, search
  <2>2. stack = << >> /\ colour = << >>
    BY <1>0, <2>1 DEF RootInv, FrameInv
  <2>. QED
    BY <2>1, <2>2 DEF PathInv
<1>7. ASSUME UNCHANGED <<successors, treeParent, colour, stack>> PROVE PathInv'
  BY <1>0, <1>7 DEF PathInv, Edge
<1>8. CASE SkipRoot \/ LeaveRoot \/ Exhausted \/ ClimbCycle \/ FinishCycle \/ ClimbPrefix \/ MakeRun
  BY <1>7, <1>8 DEF SkipRoot, LeaveRoot, Exhausted, ClimbCycle, FinishCycle, ClimbPrefix, MakeRun,
                    exploration, stored, search
<1>9. CASE UNCHANGED vars
  BY <1>7, <1>9 DEF vars
<1>. QED
  BY <1>1, <1>2, <1>3, <1>4, <1>5, <1>6, <1>8, <1>9 DEF Next

(* With an empty stack no state is gray.                                   *)
LEMMA NoGray ==
    ASSUME IInv, stack = << >>, NEW i \in 1..Len(colour), colour[i] # "white"
    PROVE  colour[i] = "black"
<1>1. colour[i] \in Colour /\ colour[i] # "gray"
  BY DEF IInv, TypeOK, PathInv
<1>. QED
  BY <1>1 DEF Colour

LEMMA NextRootInv == IInv /\ [Next]_vars => RootInv'
<1> SUFFICES ASSUME IInv, [Next]_vars PROVE RootInv'
  OBVIOUS
<1>0. TypeOK /\ TreeInv /\ LinkInv /\ FrameInv /\ PathInv /\ RootInv
  BY DEF IInv
<1>1. CASE LinkKnown \/ Advance
  BY <1>0, <1>1 DEF LinkKnown, Advance, Unexpanded, RootInv, stored, search
<1>2. CASE LinkNew
  <2>1. pc = "explore" /\ pc' = "explore" /\ root' = 1 /\ stack' = << >>
        /\ Len(states') = Len(states) + 1 /\ Len(states) \in Nat
    BY <1>0, <1>2, LinkNewFacts DEF LinkNew, RootInv, TypeOK, search
  <2>. QED
    BY <2>1 DEF RootInv
<1>3. CASE StartFindCycle
  <2>1. pc = "explore" /\ pc' = "roots" /\ UNCHANGED <<states, root, stack>> /\ root = 1
    BY <1>0, <1>3 DEF StartFindCycle, RootInv, exploration, stored
  <2>. QED
    BY <1>0, <2>1 DEF RootInv
<1>4. CASE SkipRoot \/ LeaveRoot
  <2>1. /\ pc # "explore" /\ pc' = "roots" /\ root' = root + 1 /\ root <= Len(states)
        /\ UNCHANGED <<atom, states, colour, stack>> /\ stack = << >>
        /\ states[root] \in atom => colour[root] # "white"
    BY <1>0, <1>4 DEF SkipRoot, LeaveRoot, RootInv, Allowed, args, exploration, stored
  <2>2. root \in 1..Len(states) /\ root \in 1..Len(colour)
    BY <1>0, <2>1 DEF RootInv, TypeOK, FrameInv
  <2>3. states[root] \in atom => colour[root] = "black"
    BY <2>1, <2>2, NoGray
  <2>4. root' \in 1..(Len(states) + 1) /\ \A i \in 1..(root' - 1) : i \in 1..(root - 1) \/ i = root
    BY <2>1, <2>2
  <2>5. \A i \in 1..(root' - 1) : states[i] \in atom => colour[i] = "black"
    BY <1>0, <2>1, <2>3, <2>4 DEF RootInv, Allowed
  <2>. QED
    BY <2>1, <2>4, <2>5 DEF RootInv, Allowed
<1>5. CASE EnterRoot
  <2>1. /\ UNCHANGED <<atom, states, root>> /\ pc = "roots" /\ pc' = "search"
        /\ root \in 1..Len(states) /\ root \in 1..Len(colour)
        /\ colour'[root] = "gray"
        /\ \A i \in 1..Len(colour) : i # root => colour'[i] = colour[i]
    BY <1>5, EnterRootFacts
  <2>2. \A i \in 1..(root - 1) : i \in 1..Len(colour) /\ i # root
    BY <2>1
  <2>3. \A i \in 1..(root - 1) : states[i] \in atom => colour'[i] = "black"
    BY <1>0, <2>1, <2>2 DEF RootInv, Allowed
  <2>. QED
    BY <1>0, <2>1, <2>3 DEF RootInv, Allowed
<1>6. CASE Descend
  <2>1. /\ UNCHANGED <<atom, states, root>> /\ pc = "search" /\ pc' = "search"
        /\ colour[NextChild] = "white" /\ colour'[NextChild] = "gray"
        /\ \A i \in 1..Len(colour) : i # NextChild => colour'[i] = colour[i]
    BY <1>6, DescendFacts
  <2>2. root \in 1..Len(colour) /\ \A i \in 1..(root - 1) : i \in 1..Len(colour)
    BY <1>0, <2>1 DEF RootInv, FrameInv, TypeOK
  <2>3. \A i \in 1..(root - 1) : states[i] \in atom => colour'[i] = "black"
    BY <1>0, <2>1, <2>2 DEF RootInv, Allowed
  <2>4. colour'[root] # "white"
    BY <2>1, <2>2, <1>0 DEF RootInv
  <2>. QED
    BY <1>0, <2>1, <2>3, <2>4 DEF RootInv, Allowed
<1>7. CASE Backtrack
  <2>1. /\ UNCHANGED <<atom, states, root>> /\ pc = "search" /\ pc' = "search"
        /\ colour'[Top.node] = "black"
        /\ \A i \in 1..Len(colour) : i # Top.node => colour'[i] = colour[i]
    BY <1>7, BacktrackFacts
  <2>2. root \in 1..Len(colour) /\ \A i \in 1..(root - 1) : i \in 1..Len(colour)
    BY <1>0, <2>1 DEF RootInv, FrameInv, TypeOK
  <2>3. \A i \in 1..(root - 1) : states[i] \in atom => colour'[i] = "black"
    BY <1>0, <2>1, <2>2 DEF RootInv, Allowed
  <2>4. colour'[root] # "white"
    BY <2>1, <2>2, <1>0 DEF RootInv
  <2>. QED
    BY <1>0, <2>1, <2>3, <2>4 DEF RootInv, Allowed
<1>8. CASE Exhausted
  <2>1. /\ pc = "roots" /\ pc' = "none" /\ root > Len(states)
        /\ UNCHANGED <<atom, states, colour, stack, root>>
    BY <1>8 DEF Exhausted, args, exploration, stored, search
  <2>. QED
    BY <1>0, <2>1 DEF RootInv, Allowed
<1>9. CASE SkipChild \/ CloseCycle
  <2>1. /\ pc = "search" /\ pc' \in {"search", "cycle"}
        /\ UNCHANGED <<atom, states, colour, root>>
    BY <1>9 DEF SkipChild, CloseCycle, HasNext, args, exploration, stored
  <2>. QED
    BY <1>0, <2>1 DEF RootInv, Allowed
<1>10. CASE ClimbCycle \/ FinishCycle \/ ClimbPrefix \/ MakeRun
  <2>1. /\ pc \in {"cycle", "prefix"} /\ pc' \in {"cycle", "prefix", "found"}
        /\ UNCHANGED <<atom, states, colour, root>>
    BY <1>10 DEF ClimbCycle, FinishCycle, ClimbPrefix, MakeRun, args, exploration, stored, search
  <2>. QED
    BY <1>0, <2>1 DEF RootInv, Allowed
<1>11. CASE UNCHANGED vars
  BY <1>0, <1>11 DEF RootInv, Allowed, vars
<1>. QED
  BY <1>1, <1>2, <1>3, <1>4, <1>5, <1>6, <1>7, <1>8, <1>9, <1>10, <1>11 DEF Next

LEMMA NextBlack == IInv /\ [Next]_vars => BlackClosed' /\ BlackOutside'
<1> SUFFICES ASSUME IInv, [Next]_vars PROVE BlackClosed' /\ BlackOutside'
  OBVIOUS
<1>0. TypeOK /\ TreeInv /\ LinkInv /\ FrameInv /\ PathInv /\ RootInv /\ BlackClosed /\ BlackOutside
  BY DEF IInv
<1>1. CASE Backtrack
  <2> DEFINE top == Top.node
  <2>1. /\ UNCHANGED <<graph, atom, states, successors>> /\ pc = "search" /\ stack # << >>
        /\ Top.pos > Len(successors[top])
        /\ Len(stack) \in 1..Len(stack) /\ Top = stack[Len(stack)] /\ top \in 1..Len(states)
        /\ top \in 1..Len(colour) /\ Len(colour') = Len(colour)
        /\ colour'[top] = "black"
        /\ \A i \in 1..Len(colour) : i # top => colour'[i] = colour[i]
    BY <1>1, BacktrackFacts
  <2>2. Len(colour) = Len(states) /\ Top.pos \in Nat /\ Len(successors[top]) \in Nat
    BY <2>1, TopFacts
  <2>. HIDE DEF top
  <2>3. \A i \in 1..Len(colour) : colour[i] = "black" => colour'[i] = "black"
    BY <2>1
  <2>4. ASSUME NEW j \in 1..Len(successors[top]), states[successors[top][j]] \in atom
        PROVE  colour[successors[top][j]] = "black"
    <3>1. j < Top.pos /\ Len(stack) + 1 \notin 1..Len(stack)
      BY <2>1, <2>2
    <3>. QED
      BY <1>0, <2>1, <2>4, <3>1 DEF FrameInv, Allowed, top
  <2>5. ASSUME NEW i \in 1..Len(colour), colour'[i] = "black",
               NEW j \in 1..Len(successors[i]), states[successors[i][j]] \in atom
        PROVE  colour'[successors[i][j]] = "black"
    <3>1. successors[i][j] \in 1..Len(colour)
      BY <1>0, <2>2, StoredFacts
    <3>2. colour[successors[i][j]] = "black"
      <4>1. CASE i = top
        BY <4>1, <2>4, <2>5
      <4>2. CASE i # top
        BY <1>0, <4>2, <2>1, <2>5 DEF BlackClosed, Allowed
      <4>. QED
        BY <4>1, <4>2
    <3>. QED
      BY <2>3, <3>1, <3>2
  <2>6. BlackClosed'
    BY <2>1, <2>5 DEF BlackClosed, Allowed
  <2>7. ASSUME NEW S \in SUBSET atom, Sustains(graph, S), NEW i \in 1..Len(colour),
               colour'[i] = "black"
        PROVE  states[i] \notin S
    <3>1. CASE i = top
      <4> SUFFICES ASSUME states[top] \in S PROVE FALSE
        BY <3>1
      <4>1. PICK n \in S : Edge(graph, states[top], n)
        BY <2>7 DEF Sustains
      <4>2. PICK j \in 1..Len(successors[top]) : states[successors[top][j]] = n
        BY <1>0, <2>1, <4>1, StateEdge
      <4>3. colour[successors[top][j]] = "black" /\ successors[top][j] \in 1..Len(colour)
        <5>1. states[successors[top][j]] \in atom
          BY <4>2
        <5>. QED
          BY <1>0, <2>1, <2>2, <2>4, <5>1, StoredFacts
      <4>. QED
        BY <1>0, <2>7, <4>2, <4>3 DEF BlackOutside
    <3>2. CASE i # top
      BY <1>0, <2>1, <2>7, <3>2 DEF BlackOutside
    <3>. QED
      BY <3>1, <3>2
  <2>8. BlackOutside'
    BY <2>1, <2>7 DEF BlackOutside
  <2>. QED
    BY <2>6, <2>8
<1>2. ASSUME UNCHANGED <<graph, atom, states, successors>>, Len(colour') = Len(colour),
             \A i \in 1..Len(colour) : colour'[i] = "black" <=> colour[i] = "black",
             Len(colour) = Len(states)
      PROVE  BlackClosed' /\ BlackOutside'
  <2>1. \A i \in 1..Len(colour) : \A j \in 1..Len(successors[i]) : successors[i][j] \in 1..Len(colour)
    BY <1>0, <1>2, StoredFacts
  <2>2. BlackClosed'
    BY <1>0, <1>2, <2>1 DEF BlackClosed, Allowed
  <2>3. BlackOutside'
    BY <1>0, <1>2 DEF BlackOutside
  <2>. QED
    BY <2>2, <2>3
<1>3. CASE EnterRoot
  <2>1. /\ UNCHANGED <<graph, atom, states, successors>> /\ Len(colour') = Len(colour)
        /\ pc = "roots" /\ colour[root] = "white" /\ colour'[root] = "gray"
        /\ \A i \in 1..Len(colour) : i # root => colour'[i] = colour[i]
    BY <1>3, EnterRootFacts
  <2>. QED
    BY <1>0, <1>2, <2>1 DEF FrameInv
<1>4. CASE Descend
  <2>1. /\ UNCHANGED <<graph, atom, states, successors>> /\ Len(colour') = Len(colour)
        /\ pc = "search" /\ colour[NextChild] = "white" /\ colour'[NextChild] = "gray"
        /\ \A i \in 1..Len(colour) : i # NextChild => colour'[i] = colour[i]
    BY <1>4, DescendFacts
  <2>. QED
    BY <1>0, <1>2, <2>1 DEF FrameInv
<1>5. CASE \/ SkipRoot \/ LeaveRoot \/ Exhausted \/ SkipChild \/ CloseCycle
           \/ ClimbCycle \/ FinishCycle \/ ClimbPrefix \/ MakeRun
  <2>1. UNCHANGED <<graph, atom, states, successors, colour>> /\ pc # "explore"
    BY <1>5 DEF SkipRoot, LeaveRoot, Exhausted, SkipChild, CloseCycle, HasNext,
                ClimbCycle, FinishCycle, ClimbPrefix, MakeRun, args, exploration, stored, search
  <2>. QED
    BY <1>0, <1>2, <2>1 DEF FrameInv
<1>6. CASE StartFindCycle
  <2>1. colour' = [i \in 1..Len(states) |-> "white"] /\ Len(states) \in Nat
    BY <1>0, <1>6 DEF StartFindCycle, TypeOK
  <2>2. \A i \in 1..Len(colour') : colour'[i] = "white"
    BY <2>1
  <2>. QED
    BY <2>2 DEF BlackClosed, BlackOutside
<1>7. CASE LinkKnown \/ LinkNew \/ Advance
  <2>1. colour' = << >>
    BY <1>0, <1>7 DEF LinkKnown, LinkNew, Advance, Unexpanded, FrameInv, search
  <2>. QED
    BY <2>1 DEF BlackClosed, BlackOutside
<1>8. CASE UNCHANGED vars
  <2>1. UNCHANGED <<graph, atom, states, successors, colour>>
    BY <1>8 DEF vars
  <2>2. BlackClosed'
    BY <1>0, <2>1 DEF BlackClosed, Allowed
  <2>3. BlackOutside'
    BY <1>0, <2>1 DEF BlackOutside
  <2>. QED
    BY <2>2, <2>3
<1>. QED
  BY <1>1, <1>3, <1>4, <1>5, <1>6, <1>7, <1>8 DEF Next

-----------------------------------------------------------------------------
(* The breadth-first parent of a stored state, seen from the state.        *)
LEMMA ParentFacts ==
    ASSUME TypeOK, TreeInv, NEW i \in 1..Len(states)
    PROVE  \/ i = 1 /\ parent[i] = NoIndex /\ states[i] = Start
           \/ /\ i \in 2..Len(states)
              /\ parent[i] \in 1..(i - 1)
              /\ parent[i] \in 1..Len(states)
              /\ parent[i] # NoIndex
              /\ Edge(successors, parent[i], i)
<1>1. CASE i = 1
  BY <1>1 DEF TreeInv
<1>2. CASE i # 1
  <2>1. i \in 2..Len(states)
    BY <1>2
  <2>2. parent[i] \in 1..(i - 1) /\ Edge(successors, parent[i], i)
    BY <2>1 DEF TreeInv
  <2>3. i - 1 \in 1..Len(states) /\ parent[i] \in 1..Len(states) /\ parent[i] # NoIndex
    <3>1. Len(states) \in Nat /\ i \in 2..Len(states) /\ parent[i] \in 1..(i - 1)
      BY <2>1, <2>2 DEF TypeOK
    <3>. QED
      BY <3>1 DEF NoIndex
  <2>. QED
    BY <2>1, <2>2, <2>3
<1>. QED
  BY <1>1, <1>2

(* make_run(): a path of indices becomes a path of states.                 *)
LEMMA MappedPath ==
    ASSUME TypeOK, TreeInv, LinkInv, NEW p \in Seq(Nat), IsPath(successors, p),
           \A i \in 1..Len(p) : p[i] \in 1..Len(states),
           NEW q, q = [i \in 1..Len(p) |-> states[p[i]]]
    PROVE  q \in Seq(Node) /\ Len(q) = Len(p) /\ IsPath(graph, q)
<1>1. Len(p) \in Nat /\ \A i \in 1..Len(p) : states[p[i]] \in Node
  BY StoredFacts
<1>2. q \in Seq(Node) /\ Len(q) = Len(p)
  BY <1>1
<1>3. ASSUME NEW i \in 1..(Len(q) - 1) PROVE Edge(graph, q[i], q[i + 1])
  <2>1. i \in 1..Len(p) /\ i + 1 \in 1..Len(p) /\ i \in 1..(Len(p) - 1)
    BY <1>1, <1>2
  <2>2. Edge(successors, p[i], p[i + 1])
    BY <2>1 DEF IsPath
  <2>3. Edge(graph, states[p[i]], states[p[i + 1]])
    BY <2>1, <2>2, IndexEdge
  <2>. QED
    BY <2>1, <2>3
<1>. QED
  BY <1>2, <1>3 DEF IsPath

LEMMA NextRunInv == IInv /\ [Next]_vars => RunInv'
<1> SUFFICES ASSUME IInv, [Next]_vars PROVE RunInv'
  OBVIOUS
<1>0. TypeOK /\ TreeInv /\ LinkInv /\ ReachInv /\ FrameInv /\ PathInv /\ RunInv
  BY DEF IInv
<1>1. CASE CloseCycle
  <2>1. /\ HasNext /\ stack' = Advanced /\ UNCHANGED <<graph, atom, states, successors, cycle, prefix>>
        /\ colour[NextChild] = "gray"
        /\ child' = NextChild /\ at' = Top.node /\ pc = "search" /\ pc' = "cycle"
    BY <1>1 DEF CloseCycle, HasNext, args, exploration, stored
  <2>2. /\ Len(stack') = Len(stack) /\ Len(stack) \in 1..Len(stack)
        /\ \A k \in 1..Len(stack) : stack'[k].node = stack[k].node
        /\ Top = stack[Len(stack)]
    BY <2>1, PassFacts, TopFacts DEF HasNext
  <2>3. NextChild \in 1..Len(colour) /\ Edge(successors, Top.node, NextChild)
    BY <2>1, ChildFacts
  <2>4. PICK m \in 1..Len(stack) : stack[m].node = NextChild
    BY <1>0, <2>1, <2>3 DEF PathInv
  <2>5. \E k, l \in 1..Len(stack') : l <= k /\ at' = stack'[k].node /\ child' = stack'[l].node
    <3>1. m <= Len(stack)
      OBVIOUS
    <3>. QED
      BY <2>1, <2>2, <2>4, <3>1
  <2>6. cycle = << >> /\ prefix = << >>
    BY <1>0, <2>1 DEF RunInv
  <2>. QED
    BY <2>1, <2>3, <2>5, <2>6 DEF RunInv, Collected, Joint
<1>2. CASE ClimbCycle
  <2>1. /\ pc = "cycle" /\ pc' = "cycle" /\ at # child
        /\ UNCHANGED <<graph, atom, states, successors, stack, child, prefix>>
        /\ cycle' = Append(cycle, at) /\ at' = treeParent[at]
    BY <1>2 DEF ClimbCycle, args, exploration, stored, search
  <2>2. PICK k, m \in 1..Len(stack) : m <= k /\ at = stack[k].node /\ child = stack[m].node
    BY <1>0, <2>1 DEF RunInv
  <2>3. k - 1 \in 1..(Len(stack) - 1) /\ k - 1 \in 1..Len(stack) /\ m <= k - 1 /\ k - 1 + 1 = k
    <3>1. k # m
      BY <2>1, <2>2
    <3>2. Len(stack) \in Nat
      BY <1>0 DEF TypeOK
    <3>. QED
      BY <2>2, <3>1, <3>2
  <2>4. treeParent[at] = stack[k - 1].node /\ Edge(successors, treeParent[at], at)
    BY <1>0, <2>2, <2>3 DEF PathInv
  <2>5. at \in AtomIndices /\ at \in Nat /\ cycle \in Seq(Nat)
    BY <1>0, <2>1, <2>2 DEF FrameInv, AtomIndices, TypeOK
  <2>6. /\ cycle' # << >> /\ cycle'[Len(cycle')] = at
        /\ \A i \in 1..Len(cycle') : cycle'[i] \in AtomIndices
    BY <1>0, <2>1, <2>5, AppendFacts DEF RunInv
  <2>7. Collected(successors, cycle', child)
    BY <1>0, <2>1, <2>5, CollectOneMore DEF RunInv
  <2>8. Edge(successors, at', Joint(cycle', child))
    BY <2>1, <2>4, <2>6 DEF Joint
  <2>9. \E i, j \in 1..Len(stack) : j <= i /\ at' = stack[i].node /\ child = stack[j].node
    BY <2>1, <2>2, <2>3, <2>4
  <2>10. AtomIndices' = AtomIndices
    BY <2>1 DEF AtomIndices, Allowed
  <2>. QED
    BY <1>0, <2>1, <2>6, <2>7, <2>8, <2>9, <2>10 DEF RunInv
<1>3. CASE FinishCycle
  <2> DEFINE trail == Append(cycle, child)
  <2>1. /\ pc = "cycle" /\ pc' = "prefix" /\ at = child
        /\ UNCHANGED <<graph, atom, states, successors, stack, child, prefix>>
        /\ cycle' = Reverse(trail) /\ at' = parent[child]
    BY <1>3 DEF FinishCycle, args, exploration, stored, search
  <2>2. child \in 1..Len(states) /\ child \in AtomIndices /\ child \in Nat /\ cycle \in Seq(Nat)
    BY <1>0, <2>1 DEF RunInv, FrameInv, AtomIndices, TypeOK
  <2>3. /\ trail \in Seq(Nat) /\ trail # << >> /\ trail[Len(trail)] = child
        /\ \A i \in 1..Len(trail) : trail[i] \in AtomIndices
    BY SMTT(60), <1>0, <2>1, <2>2, AppendFacts DEF RunInv
  <2>4. Collected(successors, trail, child)
    BY <1>0, <2>1, <2>2, CollectOneMore DEF RunInv
  <2>5. IsCycle(successors, AtomIndices, cycle') /\ cycle'[1] = child
    <3> DEFINE Indices == Nat
    <3>1. trail \in Seq(Indices)
      BY <2>3
    <3>. HIDE DEF trail, Indices
    <3>2. IsCycle(successors, AtomIndices, Reverse(trail)) /\ Reverse(trail)[1] = child
      BY <2>3, <2>4, <3>1, CollectedCycle
    <3>. QED
      BY <2>1, <3>2
  <2>6. prefix = << >>
    BY <1>0, <2>1 DEF RunInv
  <2>7. /\ at' \in 0..Len(states)
        /\ at' = NoIndex => child = 1
        /\ at' # NoIndex => Edge(successors, at', child)
    BY <1>0, <2>1, <2>2, ParentFacts DEF NoIndex
  <2>8. AtomIndices' = AtomIndices
    BY <2>1 DEF AtomIndices, Allowed
  <2>. QED
    BY <2>1, <2>2, <2>5, <2>6, <2>7, <2>8 DEF RunInv, Collected, Joint
<1>4. CASE ClimbPrefix
  <2>1. /\ pc = "prefix" /\ pc' = "prefix" /\ at # NoIndex
        /\ UNCHANGED <<graph, atom, states, successors, child, cycle>>
        /\ prefix' = Append(prefix, at) /\ at' = parent[at]
    BY <1>4 DEF ClimbPrefix, args, exploration, stored, search
  <2>2. at \in 1..Len(states) /\ at \in Nat /\ prefix \in Seq(Nat)
    BY <1>0, <2>1 DEF RunInv, TypeOK, NoIndex
  <2>3. /\ prefix' # << >> /\ prefix'[Len(prefix')] = at
        /\ \A i \in 1..Len(prefix') : prefix'[i] \in 1..Len(states)
    BY <1>0, <2>1, <2>2, AppendFacts DEF RunInv
  <2>4. Collected(successors, prefix', child)
    BY <1>0, <2>1, <2>2, CollectOneMore DEF RunInv
  <2>5. /\ at' \in 0..Len(states)
        /\ at' = NoIndex => at = 1
        /\ at' # NoIndex => Edge(successors, at', at)
    BY <1>0, <2>1, <2>2, ParentFacts DEF NoIndex
  <2>6. AtomIndices' = AtomIndices
    BY <2>1 DEF AtomIndices, Allowed
  <2>. QED
    BY <1>0, <2>1, <2>3, <2>4, <2>5, <2>6 DEF RunInv, Joint
<1>5. CASE MakeRun
  <2> DEFINE trail == Reverse(prefix)
  <2>1. /\ pc = "prefix" /\ pc' = "found" /\ at = NoIndex /\ UNCHANGED <<graph, atom>>
        /\ prefix' = [i \in 1..Len(prefix) |-> states[trail[i]]]
        /\ cycle' = [i \in 1..Len(cycle) |-> states[cycle[i]]]
    BY <1>5 DEF MakeRun, args
  <2>2. /\ prefix \in Seq(Nat) /\ cycle \in Seq(Nat) /\ child \in 1..Len(states)
        /\ IsCycle(successors, AtomIndices, cycle) /\ cycle[1] = child
        /\ Collected(successors, prefix, child) /\ Joint(prefix, child) = 1
        /\ \A i \in 1..Len(prefix) : prefix[i] \in 1..Len(states)
    BY <1>0, <2>1 DEF RunInv, TypeOK
  <2>3. /\ Len(cycle) \in Nat \ {0} /\ Len(cycle) \in 1..Len(cycle) /\ 1 \in 1..Len(cycle)
        /\ \A i \in 1..Len(cycle) : cycle[i] \in 1..Len(states) /\ states[cycle[i]] \in atom
    BY <2>2 DEF IsCycle, AtomIndices, Allowed
  <2>4. cycle' \in Seq(Node) /\ Len(cycle') = Len(cycle) /\ IsPath(graph, cycle')
    BY <1>0, <2>1, <2>2, <2>3, MappedPath DEF IsCycle
  <2>5. /\ cycle'[1] = states[child] /\ cycle'[Len(cycle)] = states[cycle[Len(cycle)]]
        /\ \A i \in 1..Len(cycle) : cycle'[i] \in atom /\ cycle'[i] \in Reachable(graph)
    BY <1>0, <2>1, <2>2, <2>3 DEF ReachInv
  <2>6. Edge(graph, cycle'[Len(cycle')], cycle'[1])
    <3>1. Edge(successors, cycle[Len(cycle)], child)
      BY <2>2 DEF IsCycle
    <3>. QED
      BY <1>0, <2>3, <2>4, <2>5, <3>1, IndexEdge
  <2>7. IsCycle(graph, atom, cycle')
    <3>1. cycle' # << >>
      BY <2>3, <2>4
    <3>. QED
      BY <2>4, <2>5, <2>6, <3>1 DEF IsCycle
  <2>8. /\ trail \in Seq(Nat) /\ Len(trail) = Len(prefix)
        /\ \A i \in 1..Len(prefix) : trail[i] = prefix[Len(prefix) - i + 1]
        /\ prefix # << >> => trail[1] = prefix[Len(prefix)] /\ trail[Len(prefix)] = prefix[1]
    BY <2>2, ReverseFacts
  <2>9. IsPath(successors, trail)
    BY <2>2, ReversedChain DEF Collected
  <2>. HIDE DEF trail
  <2>10. \A i \in 1..Len(trail) : trail[i] \in 1..Len(states)
    <3>1. \A i \in 1..Len(prefix) : Len(prefix) - i + 1 \in 1..Len(prefix)
      BY <2>2
    <3>. QED
      BY <2>2, <2>8, <3>1
  <2>11. prefix' \in Seq(Node) /\ Len(prefix') = Len(prefix) /\ IsPath(graph, prefix')
    BY <1>0, <2>1, <2>8, <2>9, <2>10, MappedPath
  <2>12. LeadsTo(graph, prefix', cycle'[1])
    <3>1. CASE prefix = << >>
      <4>1. prefix' = << >> /\ child = 1
        BY <2>1, <2>2, <2>11, <3>1 DEF Joint
      <4>. QED
        BY <1>0, <2>5, <4>1 DEF LeadsTo, TreeInv
    <3>2. CASE prefix # << >>
      <4>1. Len(prefix) \in 1..Len(prefix) /\ 1 \in 1..Len(prefix) /\ prefix' # << >>
        BY <2>2, <2>11, <3>2
      <4>2. prefix[Len(prefix)] = 1 /\ Edge(successors, prefix[1], child)
        BY <2>2, <3>2 DEF Joint, Collected
      <4>3. prefix'[1] = states[1] /\ prefix'[Len(prefix')] = states[prefix[1]]
        BY <2>1, <2>8, <2>11, <3>2, <4>1, <4>2
      <4>4. Edge(graph, states[prefix[1]], states[child])
        BY <1>0, <2>2, <4>1, <4>2, IndexEdge
      <4>. QED
        BY <1>0, <2>5, <2>11, <4>1, <4>3, <4>4 DEF LeadsTo, TreeInv
    <3>. QED
      BY <3>1, <3>2
  <2>. QED
    BY <2>1, <2>4, <2>5, <2>7, <2>12 DEF RunInv
<1>6. CASE \/ LinkKnown \/ LinkNew \/ Advance \/ StartFindCycle \/ SkipRoot \/ EnterRoot
           \/ LeaveRoot \/ Exhausted \/ SkipChild \/ Descend \/ Backtrack
  <2>1. /\ pc \in {"explore", "roots", "search"} /\ pc' \in {"explore", "roots", "search", "none"}
        /\ UNCHANGED <<cycle, prefix>>
    BY <1>6 DEF LinkKnown, LinkNew, Advance, StartFindCycle, SkipRoot, EnterRoot, LeaveRoot,
                Exhausted, SkipChild, Descend, Backtrack, Unexpanded, HasNext, run
  <2>. QED
    BY <1>0, <2>1 DEF RunInv
<1>7. CASE UNCHANGED vars
  BY <1>0, <1>7 DEF RunInv, AtomIndices, Allowed, vars
<1>. QED
  BY <1>1, <1>2, <1>3, <1>4, <1>5, <1>6, <1>7 DEF Next

(* The invariant of the two searches holds in every state of every         *)
(* execution, from the first stored state to the run that is returned.     *)
THEOREM Invariance == Spec => []IInv
<1>1. IInv /\ [Next]_vars => IInv'
  BY NextTypeOK, NextTreeInv, NextLinkInv, NextReachInv, NextFrameInv, NextPathInv,
     NextRootInv, NextBlack, NextRunInv DEF IInv
<1>. QED
  BY InitIInv, <1>1, PTL DEF Spec

(* The local variables of explore() and find_cycle() keep their types, on  *)
(* every state graph.                                                      *)
THEOREM TypeCorrect == Spec => []TypeOK
<1>1. IInv => TypeOK
  BY DEF IInv
<1>. QED
  BY Invariance, <1>1, PTL

-----------------------------------------------------------------------------
(* explore() has stored every reachable state once it returns.             *)
LEMMA AllStored ==
    ASSUME IInv, pc # "explore"
    PROVE  {states[i] : i \in 1..Len(states)} = Reachable(graph)
<1>0. TypeOK /\ TreeInv /\ LinkInv /\ ReachInv
  BY DEF IInv
<1> DEFINE S == {states[i] : i \in 1..Len(states)}
<1>1. S \subseteq Reachable(graph)
  BY <1>0 DEF ReachInv
<1>2. S \in SUBSET Node
  BY <1>0 DEF TypeOK
<1>3. Start \in S
  <2>1. 1 \in 1..Len(states) /\ states[1] = Start
    BY <1>0 DEF TreeInv, TypeOK
  <2>. QED
    BY <2>1
<1>4. Closed(graph, S)
  <2> SUFFICES ASSUME NEW i \in 1..Len(states), NEW j \in 1..Len(graph[states[i]])
               PROVE  graph[states[i]][j] \in S
    BY DEF Closed
  <2>1. i < current
    BY <1>0 DEF LinkInv, TypeOK
  <2>2. j \in 1..Len(successors[i])
    BY <1>0, <2>1 DEF LinkInv
  <2>3. successors[i][j] \in 1..Len(states) /\ states[successors[i][j]] = graph[states[i]][j]
    BY <1>0, <2>2 DEF LinkInv
  <2>. QED
    BY <2>3
<1>5. Reachable(graph) \subseteq S
  <2>. HIDE DEF S
  <2>. QED
    BY <1>2, <1>3, <1>4, ReachableInClosed
<1>. QED
  BY <1>1, <1>5

LEMMA IInvExplored == IInv => ExploredGraph
<1> SUFFICES ASSUME IInv, pc # "explore" PROVE ExploredGraph
  BY DEF ExploredGraph
<1>0. TypeOK /\ TreeInv /\ LinkInv
  BY DEF IInv
<1>1. ASSUME NEW i \in 1..Len(states)
      PROVE  [j \in 1..Len(successors[i]) |-> states[successors[i][j]]] = graph[states[i]]
  <2>1. graph[states[i]] \in Seq(Node)
    BY <1>0, StoredFacts
  <2>2. Len(successors[i]) = Len(graph[states[i]])
    BY <1>0 DEF LinkInv, TypeOK
  <2>3. \A j \in 1..Len(successors[i]) : states[successors[i][j]] = graph[states[i]][j]
    BY <1>0 DEF LinkInv
  <2>. QED
    BY <2>1, <2>2, <2>3
<1>2. Len(successors) = Len(states)
  BY <1>0 DEF TreeInv
<1>. QED
  BY <1>1, <1>2, AllStored DEF ExploredGraph

(* When explore() returns, the stored states are the reachable ones, and   *)
(* their index lists name their successors in iterator order.              *)
THEOREM Explores == Spec => []ExploredGraph
BY Invariance, IInvExplored, PTL

LEMMA IInvBlack == IInv => BlackInv
<1> SUFFICES ASSUME IInv, pc \in {"roots", "search"} PROVE BlackInv
  BY DEF BlackInv
<1>0. PathInv /\ RootInv /\ BlackClosed
  BY DEF IInv
<1>1. pc = "roots" => \A i \in 1..Len(colour) : colour[i] # "gray"
  <2>1. pc = "roots" => Len(stack) = 0
    BY <1>0 DEF RootInv
  <2>. QED
    BY <1>0, <2>1 DEF PathInv
<1>2. pc = "roots" => \A i \in 1..(root - 1) : Allowed(i) => colour[i] = "black"
  BY <1>0 DEF RootInv
<1>. QED
  BY <1>0, <1>1, <1>2 DEF BlackInv, BlackClosed

(* "Black: fully explored, so it cannot close a cycle": a later root may   *)
(* skip what earlier roots have explored.                                  *)
THEOREM BlackCorrect == Spec => []BlackInv
BY Invariance, IInvBlack, PTL

(* When the roots are exhausted, every reachable atom state is black, and  *)
(* no run that stays in the atom visits a black state.                     *)
LEMMA IInvDecides == IInv => DecidesEFG
<1> SUFFICES ASSUME IInv PROVE DecidesEFG
  OBVIOUS
<1>0. TypeOK /\ TreeInv /\ FrameInv /\ RootInv /\ BlackOutside /\ RunInv
  BY DEF IInv
<1>1. ASSUME pc = "none", NEW S \in SUBSET atom, NEW n \in S, n \in Reachable(graph),
             Sustains(graph, S)
      PROVE  FALSE
  <2>1. PICK i \in 1..Len(states) : states[i] = n
    BY <1>1, AllStored
  <2>2. i \in 1..(root - 1) /\ i \in 1..Len(colour)
    <3>1. root > Len(states) /\ root \in Nat /\ Len(states) \in Nat /\ Len(colour) = Len(states)
      BY <1>0, <1>1 DEF RootInv, TypeOK, FrameInv
    <3>. QED
      BY <3>1
  <2>3. colour[i] = "black"
    BY <1>0, <1>1, <2>1, <2>2 DEF RootInv, Allowed
  <2>. QED
    BY <1>0, <1>1, <2>1, <2>2, <2>3 DEF BlackOutside
<1>2. ASSUME pc = "found" PROVE EFG(graph, atom)
  <2> DEFINE S == {cycle[i] : i \in 1..Len(cycle)}
  <2>1. /\ IsCycle(graph, atom, cycle) /\ cycle \in Seq(Node)
        /\ \A i \in 1..Len(cycle) : cycle[i] \in Reachable(graph)
    BY <1>0, <1>2 DEF RunInv, TypeOK
  <2>2. Len(cycle) \in Nat \ {0} /\ 1 \in 1..Len(cycle)
    BY <2>1 DEF IsCycle
  <2>3. S \in SUBSET atom /\ cycle[1] \in S /\ cycle[1] \in Reachable(graph)
    BY <2>1, <2>2 DEF IsCycle
  <2>4. ASSUME NEW i \in 1..Len(cycle) PROVE \E n \in S : Edge(graph, cycle[i], n)
    <3>1. CASE i = Len(cycle)
      BY <2>1, <2>3, <3>1 DEF IsCycle
    <3>2. CASE i # Len(cycle)
      <4>1. i \in 1..(Len(cycle) - 1) /\ i + 1 \in 1..Len(cycle)
        BY <2>2, <3>2
      <4>. QED
        BY <2>1, <4>1 DEF IsCycle, IsPath
    <3>. QED
      BY <3>1, <3>2
  <2>5. Sustains(graph, S)
    BY <2>4 DEF Sustains
  <2>. QED
    BY <2>3, <2>5 DEF EFG
<1>3. pc = "found" => IsCycle(graph, atom, cycle) /\ LeadsTo(graph, prefix, cycle[1])
  BY <1>0 DEF RunInv
<1>. QED
  BY <1>1, <1>2, <1>3 DEF DecidesEFG, EFG

(* search_eventually_always() decides E F(G(atom)): it returns no run only *)
(* if every run leaves the atom infinitely often, and otherwise a lasso    *)
(* whose cycle stays in the atom.                                          *)
THEOREM Correct == Spec => []DecidesEFG
BY Invariance, IInvDecides, PTL

-----------------------------------------------------------------------------
(* The layers of explore(), and how far the prefix has been traced back.   *)
DepthInv ==
    \E d : /\ Layers(graph, states, parent, current, d)
           /\ pc = "prefix" => Len(prefix) + (IF at = NoIndex THEN 0 ELSE d[at]) + 1 = d[child]
           /\ pc = "found" => /\ child \in 1..Len(states)
                              /\ cycle[1] = states[child]
                              /\ Len(prefix) + 1 = d[child]

LEMMA InitDepthInv == Init => DepthInv
<1> SUFFICES ASSUME Init PROVE DepthInv
  OBVIOUS
<1>1. Layers(graph, states, parent, current, [i \in 1..1 |-> 1])
  BY LayersInit DEF Init
<1>. QED
  BY <1>1 DEF Init, DepthInv

(* Expanded states have all their successors stored.                       *)
LEMMA LinkExpands == IInv => Expanded(graph, states, current)
<1> SUFFICES ASSUME IInv, NEW i \in 1..Len(states), i < current,
                    NEW j \in 1..Len(graph[states[i]])
             PROVE  \E m \in 1..Len(states) : states[m] = graph[states[i]][j]
  BY DEF Expanded
<1>1. LinkInv
  BY DEF IInv
<1>2. j \in 1..Len(successors[i])
  BY <1>1 DEF LinkInv
<1>. QED
  BY <1>1, <1>2 DEF LinkInv

(* The layer of a stored state and that of its breadth-first parent.       *)
LEMMA ParentLayer ==
    ASSUME IInv, NEW d, Layers(graph, states, parent, current, d), NEW i \in 1..Len(states)
    PROVE  /\ d[i] \in Nat
           /\ (IF parent[i] = NoIndex THEN 0 ELSE d[parent[i]]) \in Nat
           /\ d[i] = (IF parent[i] = NoIndex THEN 0 ELSE d[parent[i]]) + 1
<1>0. TypeOK /\ TreeInv
  BY DEF IInv
<1>1. d \in [1..Len(states) -> Nat] /\ d[i] \in Nat
  BY DEF Layers
<1>2. CASE i = 1 /\ parent[i] = NoIndex
  BY <1>1, <1>2 DEF Layers
<1>3. CASE i \in 2..Len(states) /\ parent[i] \in 1..Len(states) /\ parent[i] # NoIndex
  BY <1>1, <1>3 DEF Layers
<1>. QED
  BY <1>0, <1>2, <1>3, ParentFacts

LEMMA NextDepthInv == IInv /\ DepthInv /\ [Next]_vars => DepthInv'
<1> SUFFICES ASSUME IInv, DepthInv, [Next]_vars PROVE DepthInv'
  OBVIOUS
<1>0. TypeOK /\ TreeInv /\ LinkInv /\ FrameInv /\ RunInv
  BY DEF IInv
<1>1. PICK d :
         /\ Layers(graph, states, parent, current, d)
         /\ pc = "prefix" => Len(prefix) + (IF at = NoIndex THEN 0 ELSE d[at]) + 1 = d[child]
         /\ pc = "found" => child \in 1..Len(states) /\ cycle[1] = states[child]
                            /\ Len(prefix) + 1 = d[child]
  BY DEF DepthInv
<1>2. CASE LinkNew
  <2> DEFINE e == [i \in 1..(Len(states) + 1) |->
                      IF i = Len(states) + 1 THEN d[current] + 1 ELSE d[i]]
  <2>1. /\ states' = Append(states, Candidate) /\ parent' = Append(parent, current)
        /\ graph' = graph /\ current' = current /\ pc' = "explore"
        /\ Candidate \notin DOMAIN index
    BY <1>2, LinkNewFacts
  <2>2. current \in 1..Len(states) /\ Candidate \in Node
    BY <1>0, <1>2, CandidateFacts DEF LinkNew
  <2>3. /\ \A i \in 1..Len(states) : states[i] # Candidate
        /\ \A i \in 2..Len(states) : parent[i] \in 1..(i - 1)
    BY <1>0, <2>1 DEF TreeInv
  <2>4. Layers(graph, Append(states, Candidate), Append(parent, current), current, e)
    <3>1. states \in Seq(Node) /\ parent \in Seq(Nat) /\ Len(parent) = Len(states)
      BY <1>0 DEF TypeOK, TreeInv
    <3>2. Expanded(graph, states, current)
      BY LinkExpands
    <3>. QED
      BY <1>1, <2>2, <2>3, <3>1, <3>2, LayersAppend
  <2>. HIDE DEF e
  <2>5. Layers(graph', states', parent', current', e)
    BY <2>1, <2>4
  <2>. QED
    BY <2>1, <2>5 DEF DepthInv
<1>3. CASE Advance
  <2>1. /\ UNCHANGED <<graph, states, parent>> /\ current' = current + 1
        /\ pc' = "explore" /\ current <= Len(states)
    BY <1>3 DEF Advance, args, stored
  <2>2. current \in 1..Len(states) /\ states \in Seq(Node)
    BY <1>0, <2>1 DEF LinkInv, TypeOK
  <2>3. Layers(graph, states, parent, current + 1, d)
    BY <1>1, <2>2, LayersAdvance
  <2>4. Layers(graph', states', parent', current', d)
    BY <2>1, <2>3
  <2>. QED
    BY <2>1, <2>4 DEF DepthInv
<1>4. ASSUME UNCHANGED <<graph, states, parent, current>>,
             pc' = "prefix" =>
                Len(prefix') + (IF at' = NoIndex THEN 0 ELSE d[at']) + 1 = d[child'],
             pc' = "found" => child' \in 1..Len(states) /\ cycle'[1] = states[child']
                              /\ Len(prefix') + 1 = d[child']
      PROVE  DepthInv'
  <2>1. Layers(graph', states', parent', current', d)
    BY <1>1, <1>4
  <2>. QED
    BY <1>4, <2>1 DEF DepthInv
<1>5. CASE FinishCycle
  <2>1. /\ UNCHANGED <<graph, states, parent, current, prefix, child>> /\ pc' = "prefix"
        /\ pc = "cycle" /\ at' = parent[child]
    BY <1>5 DEF FinishCycle, args, exploration, stored
  <2>2. child \in 1..Len(states) /\ prefix = << >>
    BY <1>0, <2>1 DEF RunInv, FrameInv
  <2>3. Len(prefix') + (IF at' = NoIndex THEN 0 ELSE d[at']) + 1 = d[child']
    BY <1>1, <2>1, <2>2, ParentLayer
  <2>. QED
    BY <1>4, <2>1, <2>3
<1>6. CASE ClimbPrefix
  <2>1. /\ UNCHANGED <<graph, states, parent, current, child>> /\ pc' = "prefix" /\ pc = "prefix"
        /\ at # NoIndex /\ at' = parent[at] /\ prefix' = Append(prefix, at)
    BY <1>6 DEF ClimbPrefix, args, exploration, stored
  <2>2. at \in 1..Len(states) /\ prefix \in Seq(Nat) /\ at \in Nat
    BY <1>0, <2>1 DEF RunInv, TypeOK, NoIndex
  <2>3. Len(prefix') = Len(prefix) + 1 /\ Len(prefix) \in Nat
    BY <2>1, <2>2
  <2>4. /\ d[at] \in Nat
        /\ (IF at' = NoIndex THEN 0 ELSE d[at']) \in Nat
        /\ d[at] = (IF at' = NoIndex THEN 0 ELSE d[at']) + 1
    BY <1>1, <2>1, <2>2, ParentLayer
  <2>5. Len(prefix) + d[at] + 1 = d[child]
    BY <1>1, <2>1
  <2>6. Len(prefix') + (IF at' = NoIndex THEN 0 ELSE d[at']) + 1 = d[child']
    BY SMTT(30), <2>1, <2>3, <2>4, <2>5
  <2>. QED
    BY <1>4, <2>1, <2>6
<1>7. CASE MakeRun
  <2>1. /\ UNCHANGED <<graph, states, parent, current, child>> /\ pc' = "found" /\ pc = "prefix"
        /\ at = NoIndex
        /\ prefix' = [i \in 1..Len(prefix) |-> states[Reverse(prefix)[i]]]
        /\ cycle' = [i \in 1..Len(cycle) |-> states[cycle[i]]]
    BY <1>7 DEF MakeRun, args, exploration, stored
  <2>2. /\ prefix \in Seq(Nat) /\ cycle \in Seq(Nat) /\ cycle # << >>
        /\ cycle[1] = child /\ child \in 1..Len(states)
    BY <1>0, <2>1 DEF RunInv, TypeOK, IsCycle
  <2>3. Len(prefix) \in Nat /\ Len(prefix') = Len(prefix) /\ 1 \in 1..Len(cycle)
    BY <2>1, <2>2
  <2>4. cycle'[1] = states[child]
    BY <2>1, <2>2, <2>3
  <2>5. Len(prefix) + 0 + 1 = d[child]
    BY <1>1, <2>1
  <2>. QED
    BY <1>4, <2>1, <2>2, <2>3, <2>4, <2>5
<1>8. CASE \/ LinkKnown \/ StartFindCycle \/ SkipRoot \/ EnterRoot \/ LeaveRoot \/ Exhausted
           \/ SkipChild \/ Descend \/ CloseCycle \/ Backtrack \/ ClimbCycle
  BY <1>4, <1>8
  DEF LinkKnown, StartFindCycle, SkipRoot, EnterRoot, LeaveRoot, Exhausted, SkipChild, Descend,
      CloseCycle, Backtrack, ClimbCycle, Unexpanded, HasNext, args, exploration, stored
<1>9. CASE UNCHANGED vars
  BY <1>1, <1>4, <1>9 DEF vars
<1>. QED
  BY <1>2, <1>3, <1>5, <1>6, <1>7, <1>8, <1>9 DEF Next

(* A path no longer than the prefix ends in a layer above the entry's.     *)
LEMMA DepthIsShortest == IInv /\ DepthInv => ShortestPrefix
<1> SUFFICES ASSUME IInv, DepthInv, pc = "found",
                    NEW k \in 1..Len(prefix), NEW p \in PathsOfLength(graph, k),
                    p[k] = cycle[1]
             PROVE  FALSE
  BY DEF ShortestPrefix
<1>0. TypeOK /\ TreeInv /\ LinkInv
  BY DEF IInv
<1>1. PICK d : /\ Layers(graph, states, parent, current, d)
               /\ child \in 1..Len(states) /\ cycle[1] = states[child]
               /\ Len(prefix) + 1 = d[child]
  BY DEF DepthInv
<1>2. k \in Nat \ {0} /\ Len(prefix) \in Nat /\ k <= Len(prefix)
  BY <1>0 DEF TypeOK
<1>3. PICK m \in 1..Len(states) : states[m] = p[k] /\ d[m] <= k
  <2>1. /\ states \in Seq(Node) /\ states # << >> /\ states[1] = Start /\ current \in Nat
        /\ ~(current <= Len(states))
    BY <1>0 DEF TypeOK, TreeInv, LinkInv
  <2>2. Expanded(graph, states, current)
    BY LinkExpands
  <2>. QED
    BY <1>1, <1>2, <2>1, <2>2, LayersBound
<1>4. m = child
  BY <1>0, <1>1, <1>3 DEF TreeInv
<1>. QED
  BY <1>1, <1>2, <1>3, <1>4

(* "The prefix is a shortest path to the cycle entry": no path with as few *)
(* states as the prefix leads from the initial state to the entry.         *)
THEOREM Shortest == Spec => []ShortestPrefix
<1>1. Init => DepthInv
  BY InitDepthInv
<1>2. IInv /\ DepthInv /\ [Next]_vars => DepthInv'
  BY NextDepthInv
<1>3. IInv /\ DepthInv => ShortestPrefix
  BY DepthIsShortest
<1>. QED
  BY Invariance, <1>1, <1>2, <1>3, PTL DEF Spec
=============================================================================

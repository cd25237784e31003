----------------------- MODULE SearchEventuallyAlways -----------------------
(***************************************************************************)
(* search_eventually_always() of src/brainfuck/search.cpp, with its two    *)
(* helpers explore() and find_cycle(): decides E F(G(atom)).               *)
(*                                                                         *)
(* explore() stores the whole reachable graph, breadth first; its argument *)
(* `allowed` is the constant true predicate at its only call.  find_cycle()*)
(* then looks for a cycle of atom states, depth first over the stored      *)
(* indices, from every root that is still white.                           *)
(*                                                                         *)
(* One action per loop iteration.  Indices start at 1 and NoIndex is 0.    *)
(***************************************************************************)
EXTENDS RunFormulas, SequencesExt

VARIABLES
    graph,      \* the Kripke argument: successors of every state, in iterator order
    atom,       \* the StatePredicate argument, as the set of states where it holds
    index,      \* explore(): hash table from stored states to their index
    states,     \* Graph::states
    parent,     \* Graph::parent
    successors, \* Graph::successors: indices, for every stored state
    current,    \* explore(): index of the state being expanded
    pos,        \* explore(): position of its successor iterator
    colour,     \* find_cycle(): colour of every stored state
    treeParent, \* find_cycle(): depth-first parent of every stored state
    root,       \* find_cycle(): the root loop's counter
    stack,      \* find_cycle(): nodes and the position of the next successor to try
    child,      \* the gray node that a back edge has reached
    at,         \* node the run has been traced back to
    cycle,      \* the cycle, as indices and then as states
    prefix,     \* the prefix, as indices and then as states
    pc          \* control point

vars == <<graph, atom, index, states, parent, successors, current, pos,
          colour, treeParent, root, stack, child, at, cycle, prefix, pc>>
args == <<graph, atom>>
stored == <<index, states, parent, successors>>
exploration == <<stored, current, pos>>
search == <<colour, treeParent, root, stack>>
run == <<child, at, cycle, prefix>>

(* Faulty variant: the sentinel is a signed number.                        *)
SignedNoIndex == -1

NoIndex == 0
Colour == {"white", "gray", "black"}
Frame == [node : Nat, pos : Nat]

Init ==
    /\ graph \in Graphs
    /\ atom \in SUBSET Node
    /\ index = [n \in {Start} |-> 1]
    /\ states = <<Start>>
    /\ parent = <<NoIndex>>
    /\ successors = << << >> >>
    /\ current = 1
    /\ pos = 1
    /\ colour = << >>
    /\ treeParent = << >>
    /\ root = 1
    /\ stack = << >>
    /\ child = NoIndex
    /\ at = NoIndex
    /\ cycle = << >>
    /\ prefix = << >>
    /\ pc = "explore"

-----------------------------------------------------------------------------
(* explore()                                                               *)
Unexpanded ==
    /\ pc = "explore"
    /\ current <= Len(states)
    /\ pos <= Len(graph[states[current]])

Candidate == graph[states[current]][pos]

(* Faulty variant: an edge to a known state is lost.                       *)
LinkKnownLost ==
    /\ Unexpanded
    /\ Candidate \in DOMAIN index
    /\ pos' = pos + 1
    /\ UNCHANGED <<args, stored, current, search, run, pc>>

(* The successor is stored already: its index joins the successor list.    *)
LinkKnown ==
    /\ Unexpanded
    /\ Candidate \in DOMAIN index
    /\ successors' = [successors EXCEPT ![current] = Append(@, index[Candidate])]
    /\ pos' = pos + 1
    /\ UNCHANGED <<args, index, states, parent, current, search, run, pc>>

(* The successor is new: it is stored as a child of current and linked.    *)
LinkNew ==
    /\ Unexpanded
    /\ Candidate \notin DOMAIN index
    /\ index' = [n \in DOMAIN index \cup {Candidate} |->
                    IF n = Candidate THEN Len(states) + 1 ELSE index[n]]
    /\ states' = Append(states, Candidate)
    /\ parent' = Append(parent, current)
    /\ successors' = Append([successors EXCEPT ![current] = Append(@, Len(states) + 1)],
                            << >>)
    /\ pos' = pos + 1
    /\ UNCHANGED <<args, current, search, run, pc>>

Advance ==
    /\ pc = "explore"
    /\ current <= Len(states)
    /\ pos > Len(graph[states[current]])
    /\ current' = current + 1
    /\ pos' = 1
    /\ UNCHANGED <<args, stored, search, run, pc>>

(* explore() returns, and find_cycle() initialises its arrays.             *)
StartFindCycle ==
    /\ pc = "explore"
    /\ current > Len(states)
    /\ colour' = [i \in 1..Len(states) |-> "white"]
    /\ treeParent' = [i \in 1..Len(states) |-> NoIndex]
    /\ pc' = "roots"
    /\ UNCHANGED <<args, exploration, root, stack, run>>

-----------------------------------------------------------------------------
(* find_cycle()                                                            *)
Allowed(i) == states[i] \in atom

SkipRoot ==
    /\ pc = "roots"
    /\ root <= Len(states)
    /\ ~Allowed(root) \/ colour[root] # "white"
    /\ root' = root + 1
    /\ UNCHANGED <<args, exploration, colour, treeParent, stack, run, pc>>

EnterRoot ==
    /\ pc = "roots"
    /\ root <= Len(states)
    /\ Allowed(root)
    /\ colour[root] = "white"
    /\ colour' = [colour EXCEPT ![root] = "gray"]
    /\ stack' = <<[node |-> root, pos |-> 1]>>
    /\ pc' = "search"
    /\ UNCHANGED <<args, exploration, treeParent, root, run>>

Top == stack[Len(stack)]

HasNext ==
    /\ pc = "search"
    /\ stack # << >>
    /\ Top.pos <= Len(successors[Top.node])

(* graph.successors[node][stack.back().second], the local `child`.         *)
NextChild == successors[Top.node][Top.pos]

(* The stack after stack.back().second++.                                  *)
Advanced == [stack EXCEPT ![Len(stack)].pos = @ + 1]

(* Faulty variant: the iterator is not advanced.                           *)
SkipChildForever ==
    /\ HasNext
    /\ ~Allowed(NextChild) \/ colour[NextChild] = "black"
    /\ UNCHANGED vars

(* The child leaves the atom, or it is black.                              *)
SkipChild ==
    /\ HasNext
    /\ ~Allowed(NextChild) \/ colour[NextChild] = "black"
    /\ stack' = Advanced
    /\ UNCHANGED <<args, exploration, colour, treeParent, root, run, pc>>

Descend ==
    /\ HasNext
    /\ Allowed(NextChild)
    /\ colour[NextChild] = "white"
    /\ colour' = [colour EXCEPT ![NextChild] = "gray"]
    /\ treeParent' = [treeParent EXCEPT ![NextChild] = Top.node]
    /\ stack' = Append(Advanced, [node |-> NextChild, pos |-> 1])
    /\ UNCHANGED <<args, exploration, root, run, pc>>

(* A back edge: the child is an ancestor of the top node.                  *)
CloseCycle ==
    /\ HasNext
    /\ Allowed(NextChild)
    /\ colour[NextChild] = "gray"
    /\ stack' = Advanced
    /\ child' = NextChild
    /\ at' = Top.node
    /\ pc' = "cycle"
    /\ UNCHANGED <<args, exploration, colour, treeParent, root, cycle, prefix>>

(* Faulty variant: the last successor is not tried.                        *)
BacktrackEarly ==
    /\ pc = "search"
    /\ stack # << >>
    /\ Top.pos >= Len(successors[Top.node])
    /\ colour' = [colour EXCEPT ![Top.node] = "black"]
    /\ stack' = Front(stack)
    /\ UNCHANGED <<args, exploration, treeParent, root, run, pc>>

Backtrack ==
    /\ pc = "search"
    /\ stack # << >>
    /\ Top.pos > Len(successors[Top.node])
    /\ colour' = [colour EXCEPT ![Top.node] = "black"]
    /\ stack' = Front(stack)
    /\ UNCHANGED <<args, exploration, treeParent, root, run, pc>>

(* Faulty variant: only the first root is tried.                           *)
LeaveFirstRoot ==
    /\ pc = "search"
    /\ stack = << >>
    /\ root' = Len(states) + 1
    /\ pc' = "roots"
    /\ UNCHANGED <<args, exploration, colour, treeParent, stack, run>>

(* The stack is empty: the next root.                                      *)
LeaveRoot ==
    /\ pc = "search"
    /\ stack = << >>
    /\ root' = root + 1
    /\ pc' = "roots"
    /\ UNCHANGED <<args, exploration, colour, treeParent, stack, run>>

(* Every root was tried: return std::nullopt.                              *)
Exhausted ==
    /\ pc = "roots"
    /\ root > Len(states)
    /\ pc' = "none"
    /\ UNCHANGED <<args, exploration, search, run>>

ClimbCycle ==
    /\ pc = "cycle"
    /\ at # child
    /\ cycle' = Append(cycle, at)
    /\ at' = treeParent[at]
    /\ UNCHANGED <<args, exploration, search, child, prefix, pc>>

(* Faulty variant: the prefix follows the depth-first parent.              *)
FinishCycleInTree ==
    /\ pc = "cycle"
    /\ at = child
    /\ cycle' = Reverse(Append(cycle, child))
    /\ at' = treeParent[child]
    /\ pc' = "prefix"
    /\ UNCHANGED <<args, exploration, search, child, prefix>>

(* child is pushed, the cycle is reversed, and the prefix starts at the    *)
(* breadth-first parent of child.                                          *)
FinishCycle ==
    /\ pc = "cycle"
    /\ at = child
    /\ cycle' = Reverse(Append(cycle, child))
    /\ at' = parent[child]
    /\ pc' = "prefix"
    /\ UNCHANGED <<args, exploration, search, child, prefix>>

ClimbPrefix ==
    /\ pc = "prefix"
    /\ at # NoIndex
    /\ prefix' = Append(prefix, at)
    /\ at' = parent[at]
    /\ UNCHANGED <<args, exploration, search, child, cycle, pc>>

(* The prefix is reversed, and make_run() replaces indices by states.      *)
MakeRun ==
    /\ pc = "prefix"
    /\ at = NoIndex
    /\ prefix' = [i \in 1..Len(prefix) |-> states[Reverse(prefix)[i]]]
    /\ cycle' = [i \in 1..Len(cycle) |-> states[cycle[i]]]
    /\ pc' = "found"
    /\ UNCHANGED <<args, exploration, search, child, at>>

Next ==
    \/ LinkKnown \/ LinkNew \/ Advance \/ StartFindCycle
    \/ SkipRoot \/ EnterRoot \/ LeaveRoot \/ Exhausted
    \/ SkipChild \/ Descend \/ CloseCycle \/ Backtrack
    \/ ClimbCycle \/ FinishCycle \/ ClimbPrefix \/ MakeRun

Spec == Init /\ [][Next]_vars

(* The loops are ordinary sequential code: they never stop half way.       *)
FairSpec == Spec /\ WF_vars(Next)

-----------------------------------------------------------------------------
(* Type invariant of the local variables of the three functions.           *)
TypeOK ==
    /\ graph \in Graphs
    /\ atom \in SUBSET Node
    /\ DOMAIN index \in SUBSET Node
    /\ index \in [DOMAIN index -> Nat]
    /\ states \in Seq(Node)
    /\ parent \in Seq(Nat)
    /\ successors \in Seq(Seq(Nat))
    /\ current \in Nat
    /\ pos \in Nat
    /\ colour \in Seq(Colour)
    /\ treeParent \in Seq(Nat)
    /\ root \in Nat
    /\ stack \in Seq(Frame)
    /\ child \in Nat
    /\ at \in Nat
    /\ pc \in {"explore", "roots", "search", "cycle", "prefix", "found", "none"}
    /\ cycle \in Seq(IF pc = "found" THEN Node ELSE Nat)
    /\ prefix \in Seq(IF pc = "found" THEN Node ELSE Nat)

(* The graph that explore() returns is the reachable part of the argument: *)
(* its states are the reachable ones, and the stored indices name the      *)
(* successors of every state in iterator order.                            *)
ExploredGraph ==
    pc # "explore" =>
        /\ {states[i] : i \in 1..Len(states)} = Reachable(graph)
        /\ Len(successors) = Len(states)
        /\ \A i \in 1..Len(states) :
              [j \in 1..Len(successors[i]) |-> states[successors[i][j]]] = graph[states[i]]

(* Between two roots every node is white or black, and the atom successors *)
(* of a black node are black: a later root can skip what an earlier one    *)
(* explored ("Black: fully explored, so it cannot close a cycle").         *)
BlackInv ==
    pc \in {"roots", "search"} =>
        /\ \A i \in 1..Len(colour) :
              colour[i] = "black" =>
                  \A j \in 1..Len(successors[i]) :
                      Allowed(successors[i][j]) => colour[successors[i][j]] = "black"
        /\ pc = "roots" =>
              /\ \A i \in 1..Len(colour) : colour[i] # "gray"
              /\ \A i \in 1..(root - 1) : Allowed(i) => colour[i] = "black"

(* The contract of search_eventually_always(): no value exactly when every *)
(* run leaves the atom infinitely often, and otherwise a lasso whose cycle *)
(* stays in the atom, while its prefix need not.                           *)
DecidesEFG ==
    /\ pc = "none" => ~EFG(graph, atom)
    /\ pc = "found" =>
          /\ EFG(graph, atom)
          /\ IsCycle(graph, atom, cycle)
          /\ LeadsTo(graph, prefix, cycle[1])

(* "The prefix is a shortest path to the cycle entry."                     *)
ShortestPrefix ==
    pc = "found" =>
        \A k \in 1..Len(prefix) :
            \A p \in PathsOfLength(graph, k) : p[k] # cycle[1]

(* On a finite graph the search returns.                                   *)
Termination == <>(pc \in {"found", "none"})

=============================================================================

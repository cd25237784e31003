---------------------------- MODULE SearchAlways ----------------------------
(***************************************************************************)
(* search_always() of src/brainfuck/search.cpp: a depth-first search of    *)
(* the states that satisfy the atom.  It decides E G(atom), and returns    *)
(* the lasso that its first back edge closes.                              *)
(*                                                                         *)
(* One action per loop iteration.  Indices start at 1 and NoIndex is 0.    *)
(***************************************************************************)
EXTENDS RunFormulas, SequencesExt

VARIABLES
    graph,      \* the Kripke argument: successors of every state, in iterator order
    atom,       \* the StatePredicate argument, as the set of states where it holds
    index,      \* hash table from stored states to their index
    states,     \* stored states in discovery order
    treeParent, \* depth-first parent of every stored state
    colour,     \* colour of every stored state
    stack,      \* frames: a state and the position of its successor iterator
    child,      \* the gray state that a back edge has reached
    at,         \* state the run has been traced back to
    cycle,      \* run.cycle
    prefix,     \* run.prefix
    pc          \* control point

vars == <<graph, atom, index, states, treeParent, colour, stack, child, at, cycle, prefix, pc>>
args == <<graph, atom>>
tables == <<index, states, treeParent, colour>>
run == <<child, at, cycle, prefix>>

(* Faulty variant: the sentinel is a signed number.                        *)
SignedNoIndex == -1

NoIndex == 0
Colour == {"gray", "black"} \* a white state is not stored
Frame == [node : Nat, pos : Nat]

Init ==
    /\ graph \in Graphs
    /\ atom \in SUBSET Node
    /\ index = << >>
    /\ states = << >>
    /\ treeParent = << >>
    /\ colour = << >>
    /\ stack = << >>
    /\ child = NoIndex
    /\ at = NoIndex
    /\ cycle = << >>
    /\ prefix = << >>
    /\ pc = "start"

Top == stack[Len(stack)]
Neighbours == graph[states[Top.node]]

(* The successor iterator of the top frame is not done().                  *)
HasCandidate ==
    /\ pc = "search"
    /\ stack # << >>
    /\ Top.pos <= Len(Neighbours)

(* stack.back().successors.state(), the local `next` of the code.          *)
Candidate == Neighbours[Top.pos]

(* The stack after stack.back().successors.next().                         *)
Advanced == [stack EXCEPT ![Len(stack)].pos = @ + 1]

(* Stores state n as a gray state and pushes a frame for it on frames.     *)
Enter(n, parent, frames) ==
    /\ index' = [m \in DOMAIN index \cup {n} |->
                    IF m = n THEN Len(states) + 1 ELSE index[m]]
    /\ states' = Append(states, n)
    /\ treeParent' = Append(treeParent, parent)
    /\ colour' = Append(colour, "gray")
    /\ stack' = Append(frames, [node |-> Len(states) + 1, pos |-> 1])

(* !holds(start): no run stays in the atom.                                *)
RejectStart ==
    /\ pc = "start"
    /\ Start \notin atom
    /\ pc' = "none"
    /\ UNCHANGED <<args, tables, stack, run>>

(* Faulty variant: the atom is not asked of the initial state.             *)
EnterAnyStart ==
    /\ pc = "start"
    /\ Enter(Start, NoIndex, stack)
    /\ pc' = "search"
    /\ UNCHANGED <<args, run>>

EnterStart ==
    /\ pc = "start"
    /\ Start \in atom
    /\ Enter(Start, NoIndex, stack)
    /\ pc' = "search"
    /\ UNCHANGED <<args, run>>

(* A successor that leaves the atom ends the run: it is not explored.      *)
SkipOutside ==
    /\ HasCandidate
    /\ Candidate \notin atom
    /\ stack' = Advanced
    /\ UNCHANGED <<args, tables, run, pc>>

Descend ==
    /\ HasCandidate
    /\ Candidate \in atom
    /\ Candidate \notin DOMAIN index
    /\ Enter(Candidate, Top.node, Advanced)
    /\ UNCHANGED <<args, run, pc>>

(* A back edge: the successor is on the current depth-first path.          *)
CloseCycle ==
    /\ HasCandidate
    /\ Candidate \in atom
    /\ Candidate \in DOMAIN index
    /\ colour[index[Candidate]] = "gray"
    /\ stack' = Advanced
    /\ child' = index[Candidate]
    /\ at' = Top.node
    /\ pc' = "cycle"
    /\ UNCHANGED <<args, tables, cycle, prefix>>

(* Faulty variant: the iterator is not advanced.                           *)
SkipBlackForever ==
    /\ HasCandidate
    /\ Candidate \in atom
    /\ Candidate \in DOMAIN index
    /\ colour[index[Candidate]] = "black"
    /\ UNCHANGED vars

(* A fully explored successor cannot close a cycle.                        *)
SkipBlack ==
    /\ HasCandidate
    /\ Candidate \in atom
    /\ Candidate \in DOMAIN index
    /\ colour[index[Candidate]] = "black"
    /\ stack' = Advanced
    /\ UNCHANGED <<args, tables, run, pc>>

(* Faulty variant: the explored state stays gray.                          *)
BacktrackGray ==
    /\ pc = "search"
    /\ stack # << >>
    /\ Top.pos > Len(Neighbours)
    /\ stack' = Front(stack)
    /\ UNCHANGED <<args, tables, run, pc>>

(* Faulty variant: the last successor is not tried.                        *)
BacktrackEarly ==
    /\ pc = "search"
    /\ stack # << >>
    /\ Top.pos >= Len(Neighbours)
    /\ colour' = [colour EXCEPT ![Top.node] = "black"]
    /\ stack' = Front(stack)
    /\ UNCHANGED <<args, index, states, treeParent, run, pc>>

(* done() without descending: the top state is fully explored.             *)
Backtrack ==
    /\ pc = "search"
    /\ stack # << >>
    /\ Top.pos > Len(Neighbours)
    /\ colour' = [colour EXCEPT ![Top.node] = "black"]
    /\ stack' = Front(stack)
    /\ UNCHANGED <<args, index, states, treeParent, run, pc>>

(* The stack is empty: return std::nullopt.                                *)
Exhausted ==
    /\ pc = "search"
    /\ stack = << >>
    /\ pc' = "none"
    /\ UNCHANGED <<args, tables, stack, run>>

(* One push_back of the loop from the top state up to child.               *)
ClimbCycle ==
    /\ pc = "cycle"
    /\ at # child
    /\ cycle' = Append(cycle, states[at])
    /\ at' = treeParent[at]
    /\ UNCHANGED <<args, tables, stack, child, prefix, pc>>

(* Faulty variant: the prefix starts at the entry of the cycle.            *)
FinishCycleAtEntry ==
    /\ pc = "cycle"
    /\ at = child
    /\ cycle' = Reverse(Append(cycle, states[child]))
    /\ at' = child
    /\ pc' = "prefix"
    /\ UNCHANGED <<args, tables, stack, child, prefix>>

(* child is pushed, the cycle is reversed, and the prefix starts above it. *)
FinishCycle ==
    /\ pc = "cycle"
    /\ at = child
    /\ cycle' = Reverse(Append(cycle, states[child]))
    /\ at' = treeParent[child]
    /\ pc' = "prefix"
    /\ UNCHANGED <<args, tables, stack, child, prefix>>

(* One push_back of the loop from child's parent up to the initial state.  *)
ClimbPrefix ==
    /\ pc = "prefix"
    /\ at # NoIndex
    /\ prefix' = Append(prefix, states[at])
    /\ at' = treeParent[at]
    /\ UNCHANGED <<args, tables, stack, child, cycle, pc>>

ReturnRun ==
    /\ pc = "prefix"
    /\ at = NoIndex
    /\ prefix' = Reverse(prefix)
    /\ pc' = "found"
    /\ UNCHANGED <<args, tables, stack, child, at, cycle>>

Next ==
    \/ RejectStart \/ EnterStart
    \/ SkipOutside \/ Descend \/ CloseCycle \/ SkipBlack \/ Backtrack \/ Exhausted
    \/ ClimbCycle \/ FinishCycle \/ ClimbPrefix \/ ReturnRun

Spec == Init /\ [][Next]_vars

(* The loop is ordinary sequential code: it never stops between two steps. *)
FairSpec == Spec /\ WF_vars(Next)

-----------------------------------------------------------------------------
(* Type invariant of the search's local variables.                         *)
TypeOK ==
    /\ graph \in Graphs
    /\ atom \in SUBSET Node
    /\ DOMAIN index \in SUBSET Node
    /\ index \in [DOMAIN index -> Nat]
    /\ states \in Seq(Node)
    /\ treeParent \in Seq(Nat)
    /\ colour \in Seq(Colour)
    /\ stack \in Seq(Frame)
    /\ child \in Nat
    /\ at \in Nat
    /\ cycle \in Seq(Node)
    /\ prefix \in Seq(Node)
    /\ pc \in {"start", "search", "cycle", "prefix", "found", "none"}

(* The stack is the depth-first path: it starts at the initial state, each *)
(* frame's state is the tree parent of the next frame's, and the states on *)
(* it are exactly the gray ones.  "child is an ancestor of node" in the    *)
(* comment on the back edge, and with it the cycle, rests on this.         *)
PathInv ==
    /\ stack # << >> => stack[1].node = 1
    /\ \A k \in 1..(Len(stack) - 1) : treeParent[stack[k + 1].node] = stack[k].node
    /\ \A i \in 1..Len(states) :
          colour[i] = "gray" <=> \E k \in 1..Len(stack) : stack[k].node = i

(* The fully explored states.                                              *)
Black == {n \in DOMAIN index : colour[index[n]] = "black"}

(* "Black: fully explored, so no cycle can close into it": the successors  *)
(* of a black state leave the atom or are black themselves.                *)
BlackInv ==
    \A n \in Black :
        \A j \in 1..Len(graph[n]) : graph[n][j] \in atom => graph[n][j] \in Black

(* The contract of search_always(): no value exactly when every run leaves *)
(* the atom, and otherwise a lasso of which every state satisfies it, the  *)
(* prefix included.                                                        *)
DecidesEG ==
    /\ pc = "none" => ~EG(graph, atom)
    /\ pc = "found" =>
          /\ EG(graph, atom)
          /\ IsCycle(graph, atom, cycle)
          /\ LeadsTo(graph, prefix, cycle[1])
          /\ \A i \in 1..Len(prefix) : prefix[i] \in atom

(* The lasso is simple: the prefix stops before the cycle's entry, and no  *)
(* state is printed twice.                                                 *)
SimpleLasso == pc = "found" => IsInjective(prefix \o cycle)

(* On a finite graph the search returns.                                   *)
Termination == <>(pc \in {"found", "none"})

=============================================================================

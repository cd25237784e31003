-------------------------- MODULE SearchEventually --------------------------
(***************************************************************************)
(* search_eventually() of src/brainfuck/search.cpp: a breadth-first search *)
(* that decides E F(atom) and returns a shortest witness.                  *)
(*                                                                         *)
(* One action per loop iteration.  Indices start at 1 and NoIndex is 0     *)
(* (the code: 0 and size_t(-1)).                                           *)
(***************************************************************************)
EXTENDS RunFormulas, SequencesExt

VARIABLES
    graph,    \* the Kripke argument: successors of every state, in iterator order
    atom,     \* the StatePredicate argument, as the set of states where it holds
    index,    \* hash table from stored states to their index
    states,   \* stored states in discovery order
    parent,   \* breadth-first parent of every stored state
    current,  \* state being processed
    pos,      \* position of the successor iterator of current
    at,       \* state the witness has been traced back to
    trail,    \* run.prefix while it is still in reverse order
    prefix,   \* run.prefix of the result
    pc        \* control point

vars == <<graph, atom, index, states, parent, current, pos, at, trail, prefix, pc>>
args == <<graph, atom>>
tables == <<index, states, parent>>

(* Faulty variant: the sentinel is a signed number.                        *)
SignedNoIndex == -1

NoIndex == 0

Init ==
    /\ graph \in Graphs
    /\ atom \in SUBSET Node
    /\ index = [n \in {Start} |-> 1]
    /\ states = <<Start>>
    /\ parent = <<NoIndex>>
    /\ current = 1
    /\ pos = 1
    /\ at = NoIndex
    /\ trail = << >>
    /\ prefix = << >>
    /\ pc = "visit"

Neighbours == graph[states[current]]

(* successors.state(), the local `next` of the code.                       *)
Candidate == Neighbours[pos]

(* holds(states[current]): the search stops, and the run is built.         *)
Hit ==
    /\ pc = "visit"
    /\ current <= Len(states)
    /\ states[current] \in atom
    /\ at' = current
    /\ pc' = "trace"
    /\ UNCHANGED <<args, tables, current, pos, trail, prefix>>

(* successors.first()                                                      *)
Expand ==
    /\ pc = "visit"
    /\ current <= Len(states)
    /\ states[current] \notin atom
    /\ pos' = 1
    /\ pc' = "expand"
    /\ UNCHANGED <<args, tables, current, at, trail, prefix>>

(* Faulty variant: the iterator is not advanced past a known state.        *)
SkipKnownForever ==
    /\ pc = "expand"
    /\ pos <= Len(Neighbours)
    /\ Candidate \in DOMAIN index
    /\ UNCHANGED vars

(* Faulty variant: a known state gets its latest parent.                   *)
SkipKnownReparenting ==
    /\ pc = "expand"
    /\ pos <= Len(Neighbours)
    /\ Candidate \in DOMAIN index \ {Start}
    /\ index[Candidate] > current
    /\ parent' = [parent EXCEPT ![index[Candidate]] = current]
    /\ pos' = pos + 1
    /\ UNCHANGED <<args, index, states, current, at, trail, prefix, pc>>

(* The successor is stored already.                                        *)
SkipKnown ==
    /\ pc = "expand"
    /\ pos <= Len(Neighbours)
    /\ Candidate \in DOMAIN index
    /\ pos' = pos + 1
    /\ UNCHANGED <<args, tables, current, at, trail, prefix, pc>>

(* Faulty variant: the parent is taken from the iterator.                  *)
DiscoverMislinked ==
    /\ pc = "expand"
    /\ pos <= Len(Neighbours)
    /\ Candidate \notin DOMAIN index
    /\ index' = [n \in DOMAIN index \cup {Candidate} |->
                    IF n = Candidate THEN Len(states) + 1 ELSE index[n]]
    /\ states' = Append(states, Candidate)
    /\ parent' = Append(parent, pos)
    /\ pos' = pos + 1
    /\ UNCHANGED <<args, current, at, trail, prefix, pc>>

(* The successor is new: it is stored with current as its parent.          *)
Discover ==
    /\ pc = "expand"
    /\ pos <= Len(Neighbours)
    /\ Candidate \notin DOMAIN index
    /\ index' = [n \in DOMAIN index \cup {Candidate} |->
                    IF n = Candidate THEN Len(states) + 1 ELSE index[n]]
    /\ states' = Append(states, Candidate)
    /\ parent' = Append(parent, current)
    /\ pos' = pos + 1
    /\ UNCHANGED <<args, current, at, trail, prefix, pc>>

(* Faulty variant: a state is skipped.                                     *)
AdvanceByTwo ==
    /\ pc = "expand"
    /\ pos > Len(Neighbours)
    /\ current' = current + 2
    /\ pc' = "visit"
    /\ UNCHANGED <<args, tables, pos, at, trail, prefix>>

(* successors.done(): the next state in discovery order.                   *)
Advance ==
    /\ pc = "expand"
    /\ pos > Len(Neighbours)
    /\ current' = current + 1
    /\ pc' = "visit"
    /\ UNCHANGED <<args, tables, pos, at, trail, prefix>>

(* Every stored state was processed: return std::nullopt.                  *)
Exhausted ==
    /\ pc = "visit"
    /\ current > Len(states)
    /\ pc' = "none"
    /\ UNCHANGED <<args, tables, current, pos, at, trail, prefix>>

(* One push_back of the loop that follows the parents.                     *)
Climb ==
    /\ pc = "trace"
    /\ at # NoIndex
    /\ trail' = Append(trail, states[at])
    /\ at' = parent[at]
    /\ UNCHANGED <<args, tables, current, pos, prefix, pc>>

(* std::reverse, and the run is returned.                                  *)
ReturnRun ==
    /\ pc = "trace"
    /\ at = NoIndex
    /\ prefix' = Reverse(trail)
    /\ pc' = "found"
    /\ UNCHANGED <<args, tables, current, pos, at, trail>>

Next ==
    \/ Hit \/ Expand \/ SkipKnown \/ Discover \/ Advance \/ Exhausted
    \/ Climb \/ ReturnRun

Spec == Init /\ [][Next]_vars

(* The loop is ordinary sequential code: it never stops between two steps. *)
FairSpec == Spec /\ WF_vars(Next)

-----------------------------------------------------------------------------
(* Type invariant of the search's local variables.                         *)
TypeOK ==
    /\ graph \in Graphs
    /\ atom \in SUBSET Node
    /\ DOMAIN index \in SUBSET Node
    /\ index \in [DOMAIN index -> Nat]
    /\ states \in Seq(Node)
    /\ parent \in Seq(Nat)
    /\ current \in Nat
    /\ pos \in Nat
    /\ at \in Nat
    /\ trail \in Seq(Node)
    /\ prefix \in Seq(Node)
    /\ pc \in {"visit", "expand", "trace", "found", "none"}

(* The hash table and the vectors describe the same tree: every stored     *)
(* state is found under its own index, and its parent was stored before it *)
(* and has an edge to it.                                                  *)
TreeInv ==
    /\ DOMAIN index = {states[i] : i \in 1..Len(states)}
    /\ \A i \in 1..Len(states) : index[states[i]] = i
    /\ Len(parent) = Len(states)
    /\ Len(states) > 0
    /\ states[1] = Start
    /\ parent[1] = NoIndex
    /\ \A i \in 2..Len(states) :
          parent[i] \in 1..(i - 1) /\ Edge(graph, states[parent[i]], states[i])

(* The contract of search_eventually(): "no value when no reachable state  *)
(* satisfies holds", and otherwise a run whose last state is the first one *)
(* that satisfies it.                                                      *)
DecidesEF ==
    /\ pc = "none" => ~EF(graph, atom)
    /\ pc = "found" => EF(graph, atom) /\ IsWitness(graph, atom, prefix)

(* "The shortest witness run": no path with fewer states reaches the atom. *)
ShortestWitness ==
    pc = "found" =>
        \A k \in 1..(Len(prefix) - 1) :
            \A p \in PathsOfLength(graph, k) : p[k] \notin atom

(* On a finite graph the search returns.                                   *)
Termination == <>(pc \in {"found", "none"})

=============================================================================

---------------------------- MODULE RunFormulas ----------------------------
(***************************************************************************)
(* The meaning of the formulas that the searches of src/brainfuck/search   *)
(* decide, on a state graph given by the successor sequence of every node. *)
(*                                                                         *)
(* A run is an infinite path from Start.  The definitions avoid infinite   *)
(* paths and recursion, so that they can be evaluated on small graphs and  *)
(* proved about on all graphs:                                             *)
(*   - a node is reachable iff it is in every set that contains Start and  *)
(*     is closed under successors;                                         *)
(*   - an infinite path inside P starts at n iff n is in a subset of P     *)
(*     each of whose members has a successor in that subset.               *)
(***************************************************************************)
EXTENDS Naturals, Sequences

CONSTANTS
    Node,   \* the states (KState) of the state graph
    Start,  \* kripke.initial_state()
    Graphs  \* the state graphs considered: functions from nodes to successors

ASSUME GraphAssumption ==
    /\ Start \in Node
    /\ Graphs \subseteq [Node -> Seq(Node)]

Edge(g, m, n) == \E i \in 1..Len(g[m]) : g[m][i] = n

Closed(g, S) == \A m \in S : \A i \in 1..Len(g[m]) : g[m][i] \in S

Reachable(g) ==
    {n \in Node : \A S \in SUBSET Node : (Start \in S /\ Closed(g, S)) => n \in S}

(* Every member of S can stay in S for one more step.                      *)
Sustains(g, S) == \A m \in S : \E n \in S : Edge(g, m, n)

(* E F(P): some run reaches a node of P.                                   *)
EF(g, P) == \E n \in P : n \in Reachable(g)

(* E G(P): some run never leaves P.                                        *)
EG(g, P) == \E S \in SUBSET P : Start \in S /\ Sustains(g, S)

(* E F(G(P)): some run stays in P from some point on.                      *)
EFG(g, P) ==
    \E S \in SUBSET P : (\E n \in S : n \in Reachable(g)) /\ Sustains(g, S)

-----------------------------------------------------------------------------
(* Consecutive elements of p are joined by edges.                          *)
IsPath(g, p) == \A i \in 1..(Len(p) - 1) : Edge(g, p[i], p[i + 1])

(* A path from Start whose last node, and no earlier one, is in P.         *)
IsWitness(g, P, p) ==
    /\ p # << >>
    /\ p[1] = Start
    /\ IsPath(g, p)
    /\ \A i \in 1..Len(p) : p[i] \in P <=> i = Len(p)

(* cycle can be repeated for ever inside P.                                *)
IsCycle(g, P, cycle) ==
    /\ cycle # << >>
    /\ IsPath(g, cycle)
    /\ Edge(g, cycle[Len(cycle)], cycle[1])
    /\ \A i \in 1..Len(cycle) : cycle[i] \in P

(* prefix leads from Start to entry, which it does not contain; it is      *)
(* empty when entry is Start itself.                                       *)
LeadsTo(g, prefix, entry) ==
    IF prefix = << >>
    THEN entry = Start
    ELSE /\ prefix[1] = Start
         /\ IsPath(g, prefix)
         /\ Edge(g, prefix[Len(prefix)], entry)

(* The paths of k nodes from Start.                                        *)
PathsOfLength(g, k) ==
    {p \in [1..k -> Node] : p[1] = Start /\ \A i \in 1..(k - 1) : Edge(g, p[i], p[i + 1])}
=============================================================================

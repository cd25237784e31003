--------------------------- MODULE MCSearchAlways ---------------------------
(* Graphs of three nodes with one or two successors each and a fourth node  *)
(* that only loops, like the end point of a program.  Reaching a black      *)
(* state twice takes four nodes: two paths to it, and a way out of the atom.*)
EXTENDS SearchAlways

MCNode == 1..4
MCStart == 1
MCEnd == 4
MCSuccessors == {s \in SeqOf(MCNode, 2) : s # << >> /\ IsInjective(s)}
MCGraphs == {g \in [MCNode -> MCSuccessors] : g[MCEnd] = <<MCEnd>>}
=============================================================================

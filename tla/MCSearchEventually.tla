------------------------- MODULE MCSearchEventually -------------------------
(* All state graphs over three nodes whose nodes have at least one          *)
(* successor and list each successor once, as KIterator does.               *)
EXTENDS SearchEventually

MCNode == 1..3
MCStart == 1
MCSuccessors == {s \in SeqOf(MCNode, 3) : s # << >> /\ IsInjective(s)}
MCGraphs == [MCNode -> MCSuccessors]
=============================================================================

----------------------------- MODULE MCMemoryMap -----------------------------
(* Every order of the priorities of five cells, for one memory at a time,   *)
(* and four orders of three cells, that have each of them on top, for three *)
(* memories.  The hashes of three cells are without collisions, with        *)
(* collisions of the values of a cell, of sets of cells, and of everything. *)
(* Of two heads that are next to each other, each field decides once.       *)
EXTENDS MemoryMap

PrioritiesOf(C) == {p \in [C -> C] : IsInjective(p)}

MCPriorities ==
    PrioritiesOf(0..4) \cup {p \in PrioritiesOf(0..2) : p[0] # 1 => p[1] > p[2]}

MCHeads ==
    {[pc |-> 1, mem_ptr |-> 0, remaining |-> Null],
     [pc |-> 1, mem_ptr |-> 0, remaining |-> 0],
     [pc |-> 1, mem_ptr |-> 0, remaining |-> 1],
     [pc |-> 1, mem_ptr |-> 1, remaining |-> Null],
     [pc |-> 2, mem_ptr |-> 0, remaining |-> 0]}

MCEntryHashes ==
    {[c \in 0..4 |-> [v \in 1..2 |-> (3 * c + v) % 8]],
     [c \in 0..2 |-> [v \in 1..2 |-> 4^c * v]],
     [c \in 0..2 |-> [v \in 1..2 |-> c + 1]],
     [c \in 0..2 |-> [v \in 1..2 |-> (c + v) % 3]],
     [c \in 0..2 |-> [v \in 1..2 |-> 0]]}
=============================================================================

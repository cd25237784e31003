------------------------------ MODULE Analysis ------------------------------
(***************************************************************************)
(* The checks of src/brainfuck/analysis.cpp: the state graph each one      *)
(* builds, the atom it observes, and the search it asks.                   *)
(*                                                                         *)
(* A search is what SearchEventually, SearchAlways and                     *)
(* SearchEventuallyAlways show of search.cpp: it returns one of a set of   *)
(* runs, and nothing when the set is empty.  A Run is a record of its      *)
(* prefix and its cycle.  holds is the set of the reachable states that    *)
(* satisfy the predicate.                                                  *)
(***************************************************************************)
EXTENDS Kripke

After(prog, folding, s) == ToSet(Successors(prog, folding, s))

(* The states of all runs: those seen, and what can be reached from them.   *)
States(prog, folding) ==
    LET closure[seen \in SUBSET KState(prog)] ==
            LET next == (UNION {After(prog, folding, s) : s \in seen}) \ seen
            IN  IF next = {} THEN seen ELSE closure[seen \cup next]
    IN  closure[{initial_state(prog)}]

(* The shortest paths to goal.  Of the states that are no farther from the *)
(* initial state than some distance, paths has all shortest paths.         *)
PathsTo(prog, folding, goal) ==
    LET shortest[paths \in SUBSET (Seq(KState(prog)) \ {<< >>})] ==
            LET found == {path \in paths : Last(path) \in goal}
                seen == {Last(path) : path \in paths}
                longer == UNION {{Append(path, s) :
                                     s \in After(prog, folding, Last(path)) \ seen} : path \in paths}
            IN  IF found # {} \/ longer = {} THEN found ELSE shortest[paths \cup longer]
    IN  shortest[{<<initial_state(prog)>>}]

(* The ways to go on from entry inside holds up to the first state that    *)
(* comes back; path has none twice.                                        *)
Lassos(prog, folding, holds, entry) ==
    LET lassos[path \in Seq(KState(prog))] ==
            LET next == After(prog, folding, Last(path)) \cap holds
                Entry(s) == CHOOSE k \in DOMAIN path : path[k] = s
            IN  {[prefix |-> SubSeq(path, 1, Entry(s) - 1),
                  cycle |-> SubSeq(path, Entry(s), Len(path))] : s \in next \cap ToSet(path)}
                \cup
                UNION {lassos[Append(path, s)] : s \in next \ ToSet(path)}
    IN  lassos[<<entry>>]

-----------------------------------------------------------------------------
search_eventually(prog, folding, holds) ==
    {[prefix |-> path, cycle |-> << >>] : path \in PathsTo(prog, folding, holds)}

search_always(prog, folding, holds) ==
    IF initial_state(prog) \in holds
    THEN Lassos(prog, folding, holds, initial_state(prog)) ELSE {}

search_eventually_always(prog, folding, holds) ==
    UNION {{[prefix |-> Front(path), cycle |-> lasso.cycle] :
                path \in PathsTo(prog, folding, {entry}),
                lasso \in {l \in Lassos(prog, folding, holds, entry) : l.prefix = << >>}} :
            entry \in holds}

-----------------------------------------------------------------------------
check_reach(prog, label, compress) ==
    LET folding == IF compress THEN "straight_line" ELSE "none"
    IN  search_always(prog, folding,
                      {s \in States(prog, folding) : ~has_label_at(prog, s.pc, label)})

Visiting(cell) == [kind |-> "visited_cell", cell |-> cell]

(* Faulty variant: the end point counts as a visit.                        *)
LeavesCellHalted(prog, cell, s) == ~observes(prog, Visiting(cell), s)

(* halt | !cell                                                            *)
LeavesCell(prog, cell, s) == is_end(prog, s.pc) \/ ~observes(prog, Visiting(cell), s)

check_visit(prog, cell, kind, fold_values) ==
    LET folding == IF fold_values THEN "values" ELSE "none"
        all == States(prog, folding)
    IN  IF kind = "at_least_once"
        THEN search_always(prog, folding, {s \in all : ~observes(prog, Visiting(cell), s)})
        ELSE search_eventually_always(prog, folding, {s \in all : LeavesCell(prog, cell, s)})

(* Faulty variant: values are folded although they are observed.           *)
ValueFoldingAll(test) == "straight_line"

ValueFolding(test) == IF test.on_halt THEN "straight_line" ELSE "pointers"

check_value(prog, test, kind) ==
    LET folding == ValueFolding(test)
        hits == {s \in States(prog, folding) : observes(prog, test, s)}
    IN  IF kind = "every_run"
        THEN search_always(prog, folding, States(prog, folding) \ hits)
        ELSE search_eventually(prog, folding, hits)

(* Faulty variant: value runs are folded.                                  *)
check_overflow_folded(prog, test) ==
    search_eventually(prog, "straight_line",
                      {s \in States(prog, "straight_line") : observes(prog, test, s)})

check_overflow(prog, test) ==
    search_eventually(prog, "pointers",
                      {s \in States(prog, "pointers") : observes(prog, test, s)})
=============================================================================

----------------------------- MODULE KripkeWalk -----------------------------
(***************************************************************************)
(* The runs of the state graph: a walk from the initial state that takes   *)
(* one successor after the other.  This is what every analysis quantifies  *)
(* over, and what the interpreter has to stay inside of.                   *)
(***************************************************************************)
EXTENDS Kripke

CONSTANTS
    Programs,  \* the parsed programs considered
    Foldings   \* the folding modes considered

ASSUME WalkAssumption ==
    /\ Foldings \subseteq Folding
    /\ \A prog \in Programs : IsProgram(prog)

VARIABLES
    prog,     \* Kripke::prog
    folding,  \* Kripke::folding
    state     \* the state the walk is in

vars == <<prog, folding, state>>

Begin == state = initial_state(prog)

Init ==
    /\ prog \in Programs
    /\ folding \in Foldings
    /\ Begin

Step ==
    /\ ~is_end(prog, state.pc)
    /\ \E i \in DOMAIN Successors(prog, folding, state) :
          state' = Successors(prog, folding, state)[i]
    /\ UNCHANGED <<prog, folding>>

(* The end point stutters.                                                 *)
Halt ==
    /\ is_end(prog, state.pc)
    /\ UNCHANGED vars

Next == Step \/ Halt

(* The next run starts with the budget that the one before has left.       *)
Restart ==
    /\ is_end(prog, state.pc)
    /\ prog' = [prog EXCEPT !.io_model.chars_until_eof = state.remaining]
    /\ Begin'
    /\ UNCHANGED folding

(* Runs, one after the other, of whatever program and folding mode.        *)
Runs == Begin /\ [][Next \/ Restart]_vars

Spec == Init /\ [][Next]_vars

-----------------------------------------------------------------------------
(* The states that the instructions of one folded block pass through, one  *)
(* unfolded transition at a time; path[k + 1] is the state after k of them.*)
UnfoldedPath ==
    LET path[k \in 1..(ChosenBlock(prog, folding, state.pc).end - state.pc + 1)] ==
            IF k = 1 THEN state ELSE Successors(prog, "none", path[k - 1])[1]
    IN  path

InBlock == ~is_end(prog, state.pc) /\ ChosenBlock(prog, folding, state.pc).kind # "single"

(* A transition that folds a block ends where the instructions of the      *)
(* block end one at a time, none of which may branch.                      *)
FoldingExact ==
    InBlock =>
        LET path == UnfoldedPath
        IN  /\ Successors(prog, folding, state) = <<path[Len(path)]>>
            /\ \A k \in 1..(Len(path) - 1) : Len(Successors(prog, "none", path[k])) = 1

(* "Never fold a property that can be observed": the states a transition   *)
(* hides carry no label, values folding hides no pointer position, and     *)
(* pointers folding hides no content and no wrap.                          *)
HiddenUnobserved ==
    InBlock =>
        \A k \in 2..(Len(UnfoldedPath) - 1) :
            LET hidden == UnfoldedPath[k]
            IN  /\ \A label \in prog.labels : label[1] # hidden.pc
                /\ folding = "values" => hidden.mem_ptr = state.mem_ptr
                /\ folding = "pointers" =>
                      /\ hidden.memory = state.memory
                      /\ \A cell \in Cells(prog.memory_model) :
                            ~wrap_test_holds(prog, hidden, [cell |-> cell, direction |-> "both"])

(* Jumps only lead to the start of a block: the walk is never inside a     *)
(* block that its folding mode would apply as a whole.                     *)
StartsAtBlock ==
    InBlock => StartsBlock(prog.ops, {label[1] : label \in prog.labels}, state.pc)

(* "There are no dead ends", only a read may have several successors, and  *)
(* no state is delivered twice by an iterator.                             *)
Branching ==
    LET successors == Successors(prog, folding, state)
    IN  /\ successors # << >>
        /\ Len(successors) > 1 => prog.ops[state.pc] = "get"
        /\ IsInjective(successors)
=============================================================================

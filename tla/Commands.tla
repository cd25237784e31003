------------------------------ MODULE Commands ------------------------------
(***************************************************************************)
(* The commands of src/main.cpp that ask about a program: what each one    *)
(* rejects, which check it calls, and what it prints of the run.  Wording, *)
(* colours and layout are left out.                                        *)
(*                                                                         *)
(* A command is a record of its name and its arguments as they were typed. *)
(* The properties compare the output with the runs that execute one        *)
(* instruction at a time.                                                  *)
(***************************************************************************)
EXTENDS Analysis

CONSTANTS
    Programs,    \* the parsed programs considered
    Asked(_)     \* the commands given for a program

Comparison == {"eq", "gt", "ge", "lt", "le"}

(* CLI11 has checked the types of the arguments.                           *)
ASSUME CommandsAssumption ==
    \A prog \in Programs :
        /\ IsProgram(prog)
        /\ \A label \in prog.labels :
              label = <<label[1], label[2]>> /\ label[1] \in 1..(instr_count(prog) + 1)
        /\ \A command \in Asked(prog) :
              /\ command.name \in {"visit", "value", "overflow"} => command.cell \in Nat
              /\ command.name = "visit" => command.infinitely_often \in BOOLEAN
              /\ command.name = "value" =>
                    /\ command.op \in Comparison
                    /\ command.value \in Nat
                    /\ command.every_run \in BOOLEAN
                    /\ command.on_halt \in BOOLEAN
              /\ command.name = "overflow" =>
                    command.direction \in {"overflow", "underflow", "both"}
              /\ command.name = "dot" => command.no_compress \in BOOLEAN

VARIABLES
    prog,     \* the parsed program
    command,  \* the command and its arguments
    output    \* what has been printed; NoValue before

vars == <<prog, command, output>>

Init ==
    /\ prog \in Programs
    /\ command \in Asked(prog)
    /\ output = NoValue

-----------------------------------------------------------------------------
(* print_step(): the text of the transition from pc.                       *)
print_step(pc, folding) ==
    IF is_end(prog, pc) THEN <<"halt">>
    ELSE SubSeq(prog.ops, pc, step_end(prog, pc, folding) - 1)

StepsText(states, folding) ==
    FlattenSeq([k \in DOMAIN states |-> print_step(states[k].pc, folding)])

(* The program text from pc on, with all labels; the one that was asked    *)
(* for is highlighted.                                                     *)
TextFrom(pc, highlight) ==
    [i \in 1..(instr_count(prog) + 2 - pc) |->
        LET at == pc + i - 1
            names == {label[2] : label \in {l \in prog.labels : l[1] = at}}
        IN  <<names, names \cap {highlight}, IF is_end(prog, at) THEN "end" ELSE prog.ops[at]>>]

Nothing == [verdict |-> "green", prefix |-> << >>, cycle |-> << >>, rest |-> << >>, mark |-> ""]

print_run(run, folding, highlight) ==
    [verdict |-> "red",
     prefix |-> StepsText(run.prefix, folding),
     cycle |-> StepsText(run.cycle, folding),
     rest |-> TextFrom(step_end(prog, Last(run.cycle).pc, folding), highlight),
     mark |-> ""]

(* Faulty variant: the run ends before the marked state's step.            *)
print_truncated_run_early(verdict, run, folding, marker) ==
    LET states == run.prefix \o run.cycle
        marked == {k \in DOMAIN states : marker[states[k]] # ""}
    IN  [verdict |-> verdict,
         prefix |-> StepsText(SubSeq(states, 1, Min(marked) - 1), folding),
         cycle |-> << >>,
         rest |-> << >>,
         mark |-> marker[states[Min(marked)]]]

(* marker maps the states of the run to the texts that mark them.          *)
print_truncated_run(verdict, run, folding, marker) ==
    LET states == run.prefix \o run.cycle
        marked == {k \in DOMAIN states : marker[states[k]] # ""}
        shown == IF marked = {} THEN Len(states) ELSE Min(marked)
    IN  [verdict |-> verdict,
         prefix |-> StepsText(SubSeq(states, 1, shown), folding),
         cycle |-> << >>,
         rest |-> << >>,
         mark |-> marker[states[shown]]]

value_hit(test, s) ==
    /\ test.on_halt => is_end(prog, s.pc)
    /\ cell_test_holds(test, Content(s, test.cell))

wrap_marker(test, s) ==
    IF ~wrap_test_holds(prog, s, test) THEN ""
    ELSE IF prog.ops[s.pc] = "inc" THEN "overflows" ELSE "underflows"

-----------------------------------------------------------------------------
Given(name) == output = NoValue /\ command.name = name

Show(text) ==
    /\ output' = text
    /\ UNCHANGED <<prog, command>>

(* Red with a lasso that refutes the statement, or green.                  *)
ShowLasso(runs, folding, highlight) ==
    \/ runs = {} /\ Show(Nothing)
    \/ \E run \in runs : Show(print_run(run, folding, highlight))

RejectLabel ==
    /\ Given("reach")
    /\ ~has_label(prog, command.label)
    /\ Show([Nothing EXCEPT !.verdict = "rejected"])

OffTape == command.cell >= prog.memory_model.memory_size

RejectCell ==
    /\ Given("visit") \/ Given("value") \/ Given("overflow")
    /\ OffTape
    /\ Show([Nothing EXCEPT !.verdict = "rejected"])

reachfun ==
    /\ Given("reach")
    /\ has_label(prog, command.label)
    /\ ShowLasso(check_reach(prog, command.label, TRUE), "straight_line", command.label)

visitfun ==
    /\ Given("visit")
    /\ ~OffTape
    /\ LET kind == IF command.infinitely_often THEN "infinitely_often" ELSE "at_least_once"
       IN  ShowLasso(check_visit(prog, command.cell, kind, TRUE), "values", NoValue)

CellTest == [kind |-> "cell_test", cell |-> command.cell, op |-> command.op,
             value |-> command.value, on_halt |-> command.on_halt]

ValueRunFolding == IF command.on_halt THEN "straight_line" ELSE "pointers"

valuefun_every_run ==
    /\ Given("value")
    /\ command.every_run
    /\ ~OffTape
    /\ ShowLasso(check_value(prog, CellTest, "every_run"), ValueRunFolding, NoValue)

valuefun_any_run ==
    /\ Given("value")
    /\ ~command.every_run
    /\ ~OffTape
    /\ LET runs == check_value(prog, CellTest, "any_run")
       IN  \/ runs = {} /\ Show([Nothing EXCEPT !.verdict = "red"])
           \/ \E run \in runs :
                 Show(print_truncated_run("green", run, ValueRunFolding,
                           [s \in ToSet(run.prefix) |->
                               IF value_hit(CellTest, s) THEN "holds" ELSE ""]))

overflowfun ==
    /\ Given("overflow")
    /\ ~OffTape
    /\ LET test == [kind |-> "wrap_test", cell |-> command.cell,
                    direction |-> command.direction]
           runs == check_overflow(prog, test)
       IN  \/ runs = {} /\ Show(Nothing)
           \/ \E run \in runs :
                 Show(print_truncated_run("red", run, "pointers",
                           [s \in ToSet(run.prefix) |-> wrap_marker(test, s)]))

-----------------------------------------------------------------------------
(* dot has no input options.                                               *)
DotProgram == [prog EXCEPT !.io_model = DefaultIOModel]

DotFolding == IF command.no_compress THEN "none" ELSE "straight_line"

(* Faulty variant: a known successor is taken for the one found last.      *)
Targets_newest(known, next) == [i \in DOMAIN next |-> Len(known)]

Targets(known, next) == [i \in DOMAIN next |-> CHOOSE k \in DOMAIN known : known[k] = next[i]]

(* The known states, and those of next that are new behind them.           *)
Known(states, next) ==
    LET known[i \in 0..Len(next)] ==
            LET found == known[i - 1]
            IN  IF i = 0 THEN states
                ELSE IF next[i] \in ToSet(found) THEN found
                ELSE Append(found, next[i])
    IN  known[Len(next)]

(* The worklist: edges has an entry for every state that was expanded.     *)
DotGraph ==
    LET expand[graph \in [states : Seq(KState(DotProgram)), edges : Seq(Seq(Nat))]] ==
            LET next == Successors(DotProgram, DotFolding, graph.states[Len(graph.edges) + 1])
                known == Known(graph.states, next)
            IN  IF Len(graph.edges) >= Len(graph.states) THEN graph
                ELSE expand[[states |-> known,
                             edges |-> Append(graph.edges, Targets(known, next))]]
    IN  expand[[states |-> <<initial_state(DotProgram)>>, edges |-> << >>]]

print_dot ==
    [states |-> DotGraph.states,
     edges |-> DotGraph.edges,
     labels |-> [n \in DOMAIN DotGraph.states |->
                    {l[2] : l \in {l \in prog.labels : l[1] = DotGraph.states[n].pc}}]]

dotfun ==
    /\ Given("dot")
    /\ Show(print_dot)

Next ==
    \/ RejectLabel \/ RejectCell
    \/ reachfun \/ visitfun \/ valuefun_every_run \/ valuefun_any_run \/ overflowfun
    \/ dotfun

Spec == Init /\ [][Next]_vars

-----------------------------------------------------------------------------
(* The meaning of a command, on the runs of single instructions: what must *)
(* happen, or may not, in a state.                                         *)
Single == States(prog, "none")

NextOf(s) == After(prog, "none", s)

Wraps(s) ==
    \E t \in NextOf(s) :
        \/ /\ command.direction # "underflow"
           /\ prog.ops[s.pc] = "inc"
           /\ t.memory[command.cell] < s.memory[command.cell]
        \/ /\ command.direction # "overflow"
           /\ prog.ops[s.pc] = "dec"
           /\ t.memory[command.cell] > s.memory[command.cell]

Event(s) ==
    CASE command.name = "reach" -> <<s.pc, command.label>> \in prog.labels
      [] command.name = "visit" ->
            /\ s.mem_ptr = command.cell
            /\ command.infinitely_often => s.pc <= Len(prog.ops)
      [] command.name = "value" ->
            /\ command.on_halt => s.pc > Len(prog.ops)
            /\ cell_test_holds(CellTest, s.memory[command.cell])
      [] command.name = "overflow" -> s.pc <= Len(prog.ops) /\ Wraps(s)

(* The states from which every run gets to an event: the smallest set that *)
(* contains those with an event and those that only lead into it.          *)
FromWhichEventually ==
    LET all == Single
        inevitable[P \in SUBSET all] ==
            LET more == {s \in all \ P : NextOf(s) \subseteq P}
            IN  IF more = {} THEN P ELSE inevitable[P \cup more]
    IN  inevitable[{s \in all : Event(s)}]

Answers(name) == output # NoValue /\ command.name = name

(* check reach: green iff the label is reached on every run, wherever its  *)
(* occurrences are; refused iff it has none.                               *)
ReachCorrect ==
    Answers("reach") =>
        output.verdict =
            IF \A pc \in 1..(Len(prog.ops) + 1) : <<pc, command.label>> \notin prog.labels
            THEN "rejected"
            ELSE IF initial_state(prog) \in FromWhichEventually THEN "green" ELSE "red"

(* check visit: green iff every run points at the cell, once, or again and *)
(* again while it has not halted; refused iff the tape has no such cell.   *)
VisitCorrect ==
    Answers("visit") =>
        output.verdict =
            IF command.cell \notin Cells(prog.memory_model) THEN "rejected"
            ELSE IF IF command.infinitely_often THEN Single \subseteq FromWhichEventually
                    ELSE initial_state(prog) \in FromWhichEventually
            THEN "green" ELSE "red"

(* check value: green iff every run, or some run, passes through a state   *)
(* in which the content satisfies the test, at the end point if on_halt.   *)
ValueCorrect ==
    Answers("value") =>
        output.verdict =
            IF command.cell \notin Cells(prog.memory_model) THEN "rejected"
            ELSE IF IF command.every_run THEN initial_state(prog) \in FromWhichEventually
                    ELSE \E s \in Single : Event(s)
            THEN "green" ELSE "red"

(* check overflow: green iff no step of any run takes the cell past its    *)
(* largest value by a +, or past zero by a -.                              *)
OverflowCorrect ==
    Answers("overflow") =>
        output.verdict =
            IF command.cell \notin Cells(prog.memory_model) THEN "rejected"
            ELSE IF \E s \in Single : Event(s) THEN "red" ELSE "green"

(* The executions whose instructions are those of a printed text.          *)
Executions(text) ==
    LET TextOf(s) == IF s.pc > Len(prog.ops) THEN "halt" ELSE prog.ops[s.pc]
        follow[k \in 0..Len(text)] ==
            IF k = 0 THEN {<<initial_state(prog)>>}
            ELSE UNION {{Append(path, s) : s \in NextOf(Last(path))} :
                            path \in {p \in follow[k - 1] : TextOf(Last(p)) = text[k]}}
    IN  follow[Len(text)]

(* The answers that come with a lasso, and those that come with a witness. *)
Refuted ==
    /\ output # NoValue
    /\ command.name \in {"reach", "visit"} \/ (command.name = "value" /\ command.every_run)
    /\ output.verdict = "red"

Witnessed ==
    \/ Answers("value") /\ ~command.every_run /\ output.verdict = "green"
    \/ Answers("overflow") /\ output.verdict = "red"

(* A printed lasso can be executed: its instructions, one at a time, are   *)
(* an execution of the program that comes back to where the red part       *)
(* began, on which what was asked for never happens (again).  The text     *)
(* behind it is what follows the last instruction in the program.          *)
LassoExecutes ==
    Refuted =>
        \E path \in Executions(output.prefix \o output.cycle) :
            LET entry == Len(output.prefix) + 1
                often == command.name = "visit" /\ command.infinitely_often
                last == path[Len(path) - 1].pc
            IN  /\ output.cycle # << >>
                /\ path[entry] = Last(path)
                /\ \A k \in (IF often THEN entry ELSE 1)..Len(path) : ~Event(path[k])
                /\ output.rest =
                      TextFrom(IF last > Len(prog.ops) THEN last ELSE last + 1,
                               IF command.name = "reach" THEN command.label ELSE NoValue)

(* A printed witness can be executed as well, and what was asked for       *)
(* happens on it, not before the state that its last step leaves.  A step  *)
(* is one instruction, or moves of the pointer.                            *)
WitnessExecutes ==
    Witnessed =>
        \E path \in Executions(output.prefix) :
            \E k \in 1..Len(output.prefix) :
                /\ Event(path[k])
                /\ \A j \in 1..(k - 1) : ~Event(path[j])
                /\ k < Len(output.prefix) =>
                      \A j \in k..Len(output.prefix) : output.prefix[j] \in {"left", "right"}

(* What a check prints of a run is an execution of the program that shows  *)
(* why the answer is as it is.                                             *)
PrintsExecution == LassoExecutes /\ WitnessExecutes

(* check overflow: the counterexample is "truncated on the wrapping        *)
(* instruction", the first one that wraps the cell, and the mark says      *)
(* which way it does.                                                      *)
MarksWrap ==
    Answers("overflow") /\ output.verdict = "red" =>
        LET last == Len(output.prefix)
        IN  /\ output.prefix # << >>
            /\ \E path \in Executions(output.prefix) :
                  /\ Event(path[last])
                  /\ \A j \in 1..(last - 1) : ~Event(path[j])
            /\ output.mark = IF output.prefix[last] = "inc" THEN "overflows" ELSE "underflows"

(* check value: the documentation says of a witness that it "stops at the  *)
(* first state where the comparison holds".  What is printed goes one step *)
(* further: the marked step is the one that leaves that state.  (A halted  *)
(* run is shown by its <halt>, with and without --on-halt.)                *)
StopsAtValue ==
    (/\ Answers("value") /\ ~command.every_run /\ output.verdict = "green"
     /\ Last(output.prefix) # "halt") =>
        \E path \in Executions(output.prefix) :
            /\ Event(Last(path))
            /\ \A j \in 1..(Len(path) - 1) : ~Event(path[j])

(* The dot output is the state graph that the folding mode promises: every *)
(* reachable state is one node, its edges are its transitions, and a node  *)
(* "shows the labels that a check reach would see there": every label that *)
(* a run of single instructions passes is shown on some node.              *)
DotShowsGraph ==
    Answers("dot") =>
        LET single == States(DotProgram, "none")
        IN  /\ IsInjective(output.states)
            /\ output.states[1] = initial_state(DotProgram)
            /\ ToSet(output.states) = States(DotProgram, DotFolding)
            /\ \A n \in DOMAIN output.states :
                  [i \in DOMAIN output.edges[n] |-> output.states[output.edges[n][i]]]
                      = Successors(DotProgram, DotFolding, output.states[n])
            /\ \A label \in prog.labels :
                  (\E s \in single : s.pc = label[1]) =>
                      \E n \in DOMAIN output.states :
                          output.states[n].pc = label[1] /\ label[2] \in output.labels[n]
=============================================================================

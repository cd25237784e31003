------------------------------ MODULE Process ------------------------------
(***************************************************************************)
(* One call of the program: the command line builds the two models; then   *)
(* execute reads its input from them, or a check parses the file with them *)
(* and walks along the runs of the state graph.                            *)
(***************************************************************************)
EXTENDS CommandLine, KripkeWalk

CONSTANT Analysed   \* bound: the options with which files are parsed

ASSUME ProcessAssumption == Analysed \subseteq Arguments

VARIABLE parsed     \* whether the command has parsed a file for its graph

walk == <<prog, folding, state>>

(* Before a file is parsed there are no instructions.                      *)
NoProgram == ParsedProgram(<< >>, {}, DefaultMemoryModel, DefaultIOModel)

ProcessInit ==
    /\ TypedInit \/ LibraryInit
    /\ prog = NoProgram
    /\ folding = "none"
    /\ Begin
    /\ parsed = FALSE

Command ==
    /\ ~parsed
    /\ CommandNext
    /\ UNCHANGED <<walk, parsed>>

(* parse_bf_program() in a command that goes on with the state graph, in   *)
(* the folding mode that it chooses.                                       *)
Parse ==
    /\ ~parsed
    /\ status = "built"
    /\ reads = << >>
    /\ options \in Analysed
    /\ prog' \in {program \in Programs : /\ program.memory_model = memory_model
                                         /\ program.io_model = io}
    /\ folding' \in Foldings
    /\ state' = initial_state(prog')
    /\ parsed' = TRUE
    /\ UNCHANGED <<stream, command>>

Walk ==
    /\ parsed
    /\ Next
    /\ UNCHANGED <<stream, command, parsed>>

ProcessNext == Command \/ Parse \/ Walk

ProcessSpec == ProcessInit /\ [][ProcessNext]_<<stream, command, walk, parsed>>
=============================================================================

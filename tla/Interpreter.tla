---------------------------- MODULE Interpreter ----------------------------
(***************************************************************************)
(* Program::run() of src/brainfuck/program.cpp, with the memory and the    *)
(* input of the MemoryModel and IOModel it owns.                           *)
(*                                                                         *)
(* One action per iteration of the loop.  Standard input is the            *)
(* environment: a read of it delivers any character, or its end.  The      *)
(* caller may run the program again when it has returned.                  *)
(***************************************************************************)
EXTENDS Kripke

CONSTANTS
    Programs,  \* the parsed programs considered
    EndsEarly  \* whether standard input may end before the budget does

ASSUME InterpreterAssumption ==
    /\ EndsEarly \in BOOLEAN
    /\ \A prog \in Programs : IsProgram(prog)

VARIABLES
    prog,    \* this: the parsed program, its io_model as of the last call
    ip,      \* the instruction pointer
    ptr,     \* memory_model.ptr
    memory,  \* memory_model.memory: the cells that were written
    io,      \* io_model, whose budget shrinks
    eof      \* environment: std::cin has ended

vars == <<prog, ip, ptr, memory, io, eof>>

Init ==
    /\ prog \in Programs
    /\ ip = 1
    /\ ptr = 0
    /\ memory = << >>
    /\ io = prog.io_model
    /\ eof = FALSE

(* Another call: memory_model.reset(), and the input goes on.              *)
RunAgain ==
    /\ is_end(prog, ip)
    /\ ip' = 1
    /\ ptr' = 0
    /\ memory' = << >>
    /\ prog' = [prog EXCEPT !.io_model = io]
    /\ UNCHANGED <<io, eof>>

m == prog.memory_model

get_current_value == IF ptr \in DOMAIN memory THEN memory[ptr] ELSE 0

(* Faulty variant: a write forgets the other cells.                        *)
StoredAlone(value) == [cell \in {ptr} |-> value]

(* A write creates the cell on demand.                                     *)
Stored(value) ==
    [cell \in DOMAIN memory \cup {ptr} |-> IF cell = ptr THEN value ELSE memory[cell]]

At(instr) == ~is_end(prog, ip) /\ prog.ops[ip] = instr

Left ==
    /\ At("left")
    /\ ptr' = pointer_left(m, ptr)
    /\ ip' = ip + 1
    /\ UNCHANGED <<prog, memory, io, eof>>

Right ==
    /\ At("right")
    /\ ptr' = pointer_right(m, ptr)
    /\ ip' = ip + 1
    /\ UNCHANGED <<prog, memory, io, eof>>

Increment ==
    /\ At("inc")
    /\ memory' = Stored(next_value(m, get_current_value))
    /\ ip' = ip + 1
    /\ UNCHANGED <<prog, ptr, io, eof>>

Decrement ==
    /\ At("dec")
    /\ memory' = Stored(prev_value(m, get_current_value))
    /\ ip' = ip + 1
    /\ UNCHANGED <<prog, ptr, io, eof>>

(* What std::cin.get() can return; an ended stream stays at its end.       *)
Stdin == IF eof THEN {NoValue} ELSE Char \cup (IF EndsEarly THEN {NoValue} ELSE {})

(* Without a character the cell is left alone or gets the EOF character.   *)
Get ==
    /\ At("get")
    /\ \E read \in read_next_char(io, Stdin) :
          /\ io' = read.io
          /\ memory' = IF read.result # NoValue
                       THEN Stored(normalize_value(m, read.result))
                       ELSE IF ~io.no_change_on_eof
                       THEN Stored(normalize_value(m, io.eof_char))
                       ELSE memory
          /\ eof' = (eof \/ (read.result = NoValue /\ ~has_input(io) /\ io.chars_until_eof # 0))
    /\ ip' = ip + 1
    /\ UNCHANGED <<prog, ptr>>

Put ==
    /\ At("put")
    /\ ip' = ip + 1
    /\ UNCHANGED <<prog, ptr, memory, io, eof>>

Forward ==
    /\ At("fwd")
    /\ ip' = IF get_current_value = 0 THEN jump_target(prog, ip) ELSE ip + 1
    /\ UNCHANGED <<prog, ptr, memory, io, eof>>

Backward ==
    /\ At("bwd")
    /\ ip' = IF get_current_value # 0 THEN jump_target(prog, ip) ELSE ip + 1
    /\ UNCHANGED <<prog, ptr, memory, io, eof>>

Next ==
    \/ Left \/ Right \/ Increment \/ Decrement \/ Get \/ Put \/ Forward \/ Backward
    \/ RunAgain

Spec == Init /\ [][Next]_vars

-----------------------------------------------------------------------------
(* The state of the state graph that the interpreter is in.                *)
GraphState ==
    [pc |-> ip, mem_ptr |-> ptr,
     memory |-> [cell \in Cells(m) |-> IF cell \in DOMAIN memory THEN memory[cell] ELSE 0],
     remaining |-> io.chars_until_eof]

Walk == INSTANCE KripkeWalk WITH
            Foldings <- {"none"}, folding <- "none", state <- GraphState

(* Every execution is a run of the unfolded state graph: what an analysis  *)
(* proves of all runs holds for the executed program.  A second one is a   *)
(* run as well, "from a clean tape", with what is left of the input.       *)
RefinesWalk == Walk!Runs
=============================================================================

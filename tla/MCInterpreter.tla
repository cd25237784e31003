--------------------------- MODULE MCInterpreter ---------------------------
(* Programs of up to four instructions and some longer ones with loops, on  *)
(* tapes of two and three cells of two bits; a character is one bit, as a   *)
(* byte is narrower than the wide cells.                                    *)
EXTENDS Interpreter

MaxLength == 4
MCShortOps == {ops \in SeqOf(Instruction, MaxLength) : Balanced(ops)}
(* ,[.,]  ,[->+<]  +[>,[-]<-]  -[[-]>-]                                      *)
MCLongOps ==
    {<<"get", "fwd", "put", "get", "bwd">>,
     <<"get", "fwd", "dec", "right", "inc", "left", "bwd">>,
     <<"inc", "fwd", "right", "get", "fwd", "dec", "bwd", "left", "dec", "bwd">>,
     <<"dec", "fwd", "fwd", "dec", "bwd", "right", "dec", "bwd">>}
MCOps == MCShortOps \cup MCLongOps
MCMemoryModels ==
    {[memory_size |-> 2, max_value |-> 3, wrapping |-> FALSE],
     [memory_size |-> 3, max_value |-> 3, wrapping |-> TRUE]}
MCIOModels ==
    {[DefaultIOModel EXCEPT !.eof_char = 1],
     [DefaultIOModel EXCEPT !.no_change_on_eof = TRUE, !.chars_until_eof = 1],
     set_input(DefaultIOModel, <<1, 0>>)}
MCPrograms ==
    {ParsedProgram(ops, {}, model, io_model) :
        ops \in MCOps, model \in MCMemoryModels, io_model \in MCIOModels}

(* Programs that read over a cell content that no character has.            *)
MCReaders ==
    {ParsedProgram(ops, {}, [memory_size |-> 1, max_value |-> 3, wrapping |-> TRUE],
                   [DefaultIOModel EXCEPT !.no_change_on_eof = TRUE]) :
        ops \in {<<"dec", "get">>, <<"get", "inc">>}}
=============================================================================

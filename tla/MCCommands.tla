----------------------------- MODULE MCCommands -----------------------------
(* Programs of up to three instructions and some longer ones, with labels   *)
(* at every pair of places, on a tape of two cells of two bits.  Every      *)
(* command is given with every cell, one off the tape included, and with    *)
(* every comparison, direction and flag; one label does not exist.          *)
EXTENDS Commands

MaxLength == 3
MCShortOps == {ops \in SeqOf(Instruction \ {"put"}, MaxLength) : Balanced(ops)}
(* +[>]  +[,]  ,[[-]>]  +[>+<]  -[-]>>-  ++++[>-<]                           *)
MCLongOps ==
    {<<"inc", "fwd", "right", "bwd">>,
     <<"inc", "fwd", "get", "bwd">>,
     <<"get", "fwd", "fwd", "dec", "bwd", "right", "bwd">>,
     <<"inc", "fwd", "right", "inc", "left", "bwd">>,
     <<"dec", "fwd", "dec", "bwd", "right", "right", "dec">>,
     <<"inc", "inc", "inc", "inc", "fwd", "right", "dec", "left", "bwd">>}
MCMemoryModels ==
    [memory_size : {2}, max_value : {3}, wrapping : BOOLEAN]
MCIOModel ==
    [DefaultIOModel EXCEPT !.no_change_on_eof = TRUE, !.chars_until_eof = 2]
MCLabels(ops) ==
    {{<<p, "a">>, <<p, "b">>, <<q, "a">>} : p, q \in 1..(Len(ops) + 1)}
MCPrograms ==
    UNION {{ParsedProgram(ops, labels, m, MCIOModel) :
                labels \in MCLabels(ops), m \in MCMemoryModels} :
            ops \in MCShortOps \cup MCLongOps}

Comparisons == {<<"eq", 2>>, <<"gt", 1>>, <<"ge", 3>>, <<"lt", 1>>, <<"le", 4>>}

MCAsked(program) ==
    [name : {"reach"}, label : {"a", "c"}]
    \cup
    [name : {"dot"}, no_compress : BOOLEAN]
    \cup
    IF \E label \in program.labels : label[1] # 1 THEN {}
    ELSE [name : {"visit"}, cell : 0..2, infinitely_often : BOOLEAN]
         \cup
         {[name |-> "value", cell |-> cell, op |-> test[1], value |-> test[2],
           every_run |-> every_run, on_halt |-> on_halt] :
             cell \in 0..2, test \in Comparisons,
             every_run \in BOOLEAN, on_halt \in BOOLEAN}
         \cup
         [name : {"overflow"}, cell : 0..2, direction : {"overflow", "underflow", "both"}]
=============================================================================

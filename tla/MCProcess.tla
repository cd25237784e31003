----------------------------- MODULE MCProcess -----------------------------
(* Every argument of --input of up to five characters over a backslash, the *)
(* letters of two escapes, two digits and another letter; and every mix of  *)
(* the other options with some of those.  A byte has two bits, so a digit   *)
(* has one, and a character and its escape are different bytes.  Tests set  *)
(* inputs of up to two bytes and budgets up to two.                         *)
(*                                                                          *)
(* Three of the models that the options make are walked with, on tapes of   *)
(* one to three cells of one or two bytes: programs of up to four           *)
(* instructions with every placing of one label.                            *)
EXTENDS Process

MCCode == [c \in {"\\", "n", "x", "0", "1", "a", "newline", "tab", "return"} |->
              CASE c = "\\" -> 3 [] c = "n" -> 1 [] c = "x" -> 2 [] c = "0" -> 3
                [] c = "1" -> 2 [] c = "a" -> 0 [] c = "newline" -> 2 [] OTHER -> 1]
MCHexDigits == [c \in {"0", "1"} |-> IF c = "0" THEN 0 ELSE 1]
MCDefaultMemoryModel == [memory_size |-> 3, max_value |-> MaxChar, wrapping |-> TRUE]

MCTexts == SeqOf({"\\", "n", "x", "0", "1", "a"}, 5)
NotGiven ==
    [memory_size |-> NoValue, cell_size |-> NoValue, no_wrapping |-> FALSE,
     max_stdin_length |-> NoValue, input |-> NoValue, eof_char |-> NoValue,
     no_change_on_eof |-> FALSE]
MCArguments ==
    {[NotGiven EXCEPT !.input = text] : text \in MCTexts}
    \cup
    [memory_size : {NoValue, 0, 1, 2}, cell_size : {NoValue, "8", "16", "32", "64"},
     no_wrapping : BOOLEAN, max_stdin_length : {NoValue, 0, 2},
     input : {NoValue, << >>, <<"a", "\\">>, <<"a", "\\", "n">>},
     eof_char : {NoValue, 1}, no_change_on_eof : BOOLEAN]

MCInputs == SeqOf(Char, 2)
MCBudgets == 0..2

MaxLength == 4
MCOps == {ops \in SeqOf(Instruction \ {"put"}, MaxLength) : Balanced(ops)}
MCAnalysed ==
    {[NotGiven EXCEPT !.memory_size = 2, !.no_wrapping = TRUE,
                      !.max_stdin_length = 2, !.no_change_on_eof = TRUE],
     [NotGiven EXCEPT !.eof_char = 1],
     [NotGiven EXCEPT !.memory_size = 1, !.cell_size = "16", !.input = <<"a", "\\", "n">>]}
MCModels ==
    {<<[memory_size |-> 2, max_value |-> MaxChar, wrapping |-> FALSE],
       [DefaultIOModel EXCEPT !.no_change_on_eof = TRUE, !.chars_until_eof = 2]>>,
     <<[memory_size |-> 3, max_value |-> MaxChar, wrapping |-> TRUE],
       [DefaultIOModel EXCEPT !.eof_char = 1]>>,
     <<[memory_size |-> 1, max_value |-> 15, wrapping |-> TRUE],
       set_input(DefaultIOModel, <<0, 2>>)>>}
MCLabels(ops) == {{}} \cup {{<<pc, "a">>} : pc \in 1..(Len(ops) + 1)}
MCPrograms ==
    UNION {{ParsedProgram(ops, labels, models[1], models[2]) :
                labels \in MCLabels(ops), models \in MCModels} :
            ops \in MCOps}
MCFoldings == Folding
=============================================================================

------------------------------ MODULE MCParser ------------------------------
(* All texts of up to six characters: an ordinary instruction, the two      *)
(* brackets, the separator and a comment character.                         *)
EXTENDS Parser

MCSources == SeqOf({"inc", "fwd", "bwd", Separator, "x"}, 6)
=============================================================================

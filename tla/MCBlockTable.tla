---------------------------- MODULE MCBlockTable ----------------------------
(* Programs of up to four instructions, one of each foldable kind and one   *)
(* that is not folded, on tapes of one to three cells of one or two bits.   *)
EXTENDS BlockTable

MaxLength == 4
MCPrograms == SeqOf({"left", "right", "inc", "dec", "put"}, MaxLength)
MCModels == {m \in [memory_size : {1, 3}, max_value : {1, 3}, wrapping : BOOLEAN] :
                m.max_value = 1 <=> m.memory_size = 3}

(* A tape of more than HalfWord - 1 cells, which --memory-size accepts.     *)
MCHugeModels == [memory_size : {Word - 1}, max_value : {1}, wrapping : BOOLEAN]
=============================================================================

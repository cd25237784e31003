------------------------------- MODULE Parser -------------------------------
(***************************************************************************)
(* The tokenizer of Program::parse_from_istream(): one pass over the       *)
(* source that collects the instructions, the labels and, with a stack of  *)
(* open brackets, the jump targets.  Program::print() writes a source back *)
(* from these tables, which is then parsed in turn.                        *)
(*                                                                         *)
(* A source character is an instruction, the label separator or any other  *)
(* character.  One action per case of the switch.                          *)
(***************************************************************************)
EXTENDS Program

CONSTANT Sources   \* the source texts considered

ASSUME ParserAssumption == Sources \subseteq Seq(STRING)

Separator == "separator"

VARIABLES
    source,         \* the text
    i,              \* the loop counter
    ops,            \* the instructions so far
    labels,         \* the label multimap: pairs <<pc, name>> in its order
    jumps,          \* jump targets of the closed brackets
    open_brackets,  \* stack of the open brackets, the top one last
    status,         \* "parsing", "parsed" or "unbalanced" (ParseException)
    printed         \* history: the tables that print() wrote the text from, if any

scan == <<source, i, ops, labels, jumps, open_brackets, status, printed>>

ParseInit ==
    /\ source \in Sources
    /\ i = 1
    /\ ops = << >>
    /\ labels = << >>
    /\ jumps = << >>
    /\ open_brackets = << >>
    /\ status = "parsing"
    /\ printed = << >>

(* The pointer of the next instruction, or of the label that follows.      *)
pc == Len(ops) + 1

Reads(S) == status = "parsing" /\ i <= Len(source) /\ source[i] \in S

PushPlain ==
    /\ Reads(Instruction \ {"fwd", "bwd"})
    /\ ops' = Append(ops, source[i])
    /\ i' = i + 1
    /\ UNCHANGED <<source, labels, jumps, open_brackets, status, printed>>

PushOpen ==
    /\ Reads({"fwd"})
    /\ open_brackets' = Append(open_brackets, pc)
    /\ ops' = Append(ops, "fwd")
    /\ i' = i + 1
    /\ UNCHANGED <<source, labels, jumps, status, printed>>

(* Faulty variant: the closed bracket stays on the stack.                  *)
PushCloseUnpopped ==
    /\ Reads({"bwd"})
    /\ open_brackets # << >>
    /\ LET open == Last(open_brackets)
       IN  jumps' = [p \in DOMAIN jumps \cup {open, pc} |->
                        IF p = open THEN pc + 1
                        ELSE IF p = pc THEN open + 1
                        ELSE jumps[p]]
    /\ ops' = Append(ops, "bwd")
    /\ i' = i + 1
    /\ UNCHANGED <<source, labels, open_brackets, status, printed>>

PushClose ==
    /\ Reads({"bwd"})
    /\ open_brackets # << >>
    /\ LET open == Last(open_brackets)
       IN  jumps' = [p \in DOMAIN jumps \cup {open, pc} |->
                        IF p = open THEN pc + 1
                        ELSE IF p = pc THEN open + 1
                        ELSE jumps[p]]
    /\ open_brackets' = Front(open_brackets)
    /\ ops' = Append(ops, "bwd")
    /\ i' = i + 1
    /\ UNCHANGED <<source, labels, status, printed>>

(* throw ParseException: nothing is open.                                  *)
RejectClose ==
    /\ Reads({"bwd"})
    /\ open_brackets = << >>
    /\ status' = "unbalanced"
    /\ UNCHANGED <<source, i, ops, labels, jumps, open_brackets, printed>>

(* A label lasts up to the next separator, or to the end of the text.      *)
LabelEnd ==
    Min({k \in (i + 1)..Len(source) : source[k] = Separator} \cup {Len(source) + 1})

ReadLabel ==
    /\ Reads({Separator})
    /\ labels' = Append(labels, <<pc, SubSeq(source, i + 1, LabelEnd - 1)>>)
    /\ i' = LabelEnd + 1
    /\ UNCHANGED <<source, ops, jumps, open_brackets, status, printed>>

(* Every other character is a comment.                                     *)
SkipComment ==
    /\ status = "parsing"
    /\ i <= Len(source)
    /\ source[i] \notin Instruction \cup {Separator}
    /\ i' = i + 1
    /\ UNCHANGED <<source, ops, labels, jumps, open_brackets, status, printed>>

(* Faulty variant: open brackets are not looked at.                        *)
FinishUnchecked ==
    /\ status = "parsing"
    /\ i > Len(source)
    /\ status' = "parsed"
    /\ UNCHANGED <<source, i, ops, labels, jumps, open_brackets, printed>>

(* The end of the text, where every bracket has to be closed.              *)
Finish ==
    /\ status = "parsing"
    /\ i > Len(source)
    /\ status' = IF open_brackets = << >> THEN "parsed" ELSE "unbalanced"
    /\ UNCHANGED <<source, i, ops, labels, jumps, open_brackets, printed>>

(* equal_range(): from the first label that is not before p on.            *)
LabelsBefore(p) == Cardinality({k \in DOMAIN labels : labels[k][1] < p})

LabelsAt(p) == SubSeq(labels, LabelsBefore(p) + 1, LabelsBefore(p + 1))

LabelText(p) ==
    FlattenSeq([k \in DOMAIN LabelsAt(p) |->
                   <<Separator>> \o LabelsAt(p)[k][2] \o <<Separator>>])

(* Faulty variant: the end point is not printed.                           *)
print_instructions(without_label) ==
    FlattenSeq([p \in DOMAIN ops |->
                   (IF without_label THEN << >> ELSE LabelText(p)) \o <<ops[p]>>])
        \o <<"newline">>

(* Every pointer from the first to the end point, where only labels are.   *)
print(without_label) ==
    FlattenSeq([p \in 1..(Len(ops) + 1) |->
                   (IF without_label THEN << >> ELSE LabelText(p))
                       \o (IF p \in DOMAIN ops THEN <<ops[p]>> ELSE << >>)])
        \o <<"newline">>

(* The printed text is a source file again.                                *)
ParsePrinted ==
    /\ status = "parsed"
    /\ printed = << >>
    /\ \E without_label \in BOOLEAN :
          /\ source' = print(without_label)
          /\ printed' = <<ops, IF without_label THEN << >> ELSE labels, jumps>>
    /\ i' = 1
    /\ ops' = << >>
    /\ labels' = << >>
    /\ jumps' = << >>
    /\ open_brackets' = << >>
    /\ status' = "parsing"

ParseNext ==
    \/ PushPlain \/ PushOpen \/ PushClose \/ RejectClose
    \/ ReadLabel \/ SkipComment \/ Finish
    \/ ParsePrinted

ParseSpec == ParseInit /\ [][ParseNext]_scan

-----------------------------------------------------------------------------
(* Between two iterations the stack holds exactly the brackets that are    *)
(* still open, innermost last, and every other bracket has its target.     *)
StackInv ==
    /\ \A k \in 1..Len(open_brackets) :
          /\ ops[open_brackets[k]] = "fwd"
          /\ Depth(ops, open_brackets[k] - 1) = k - 1
          /\ \A n \in open_brackets[k]..Len(ops) : Depth(ops, n) >= k
    /\ Len(open_brackets) = Depth(ops, Len(ops))
    /\ DOMAIN jumps = Brackets(ops) \ ToSet(open_brackets)
    /\ \A p \in DOMAIN jumps : jumps[p] = Partner(ops, p) + 1

(* The characters outside labels have an even number of separators before  *)
(* them; they alone can be instructions.                                   *)
SeparatorsUpTo(n) == Cardinality({k \in 1..n : source[k] = Separator})

Code == {k \in 1..Len(source) : source[k] \in Instruction /\ SeparatorsUpTo(k) % 2 = 0}

CodeBefore(k) == Cardinality({j \in Code : j < k})

CodeOps == [n \in 1..Cardinality(Code) |->
               source[CHOOSE k \in Code : CodeBefore(k) = n - 1]]

LabelStarts == {k \in 1..Len(source) : source[k] = Separator /\ SeparatorsUpTo(k) % 2 = 1}

StartsBefore(k) == Cardinality({j \in LabelStarts : j < k})

LabelOf(k) ==
    <<CodeBefore(k) + 1,
      SubSeq(source, k + 1,
             Min({j \in (k + 1)..Len(source) : source[j] = Separator}
                    \cup {Len(source) + 1}) - 1)>>

(* The parser's verdict: it throws exactly when the brackets outside       *)
(* labels are not balanced, and otherwise it has the instructions in order,*)
(* every label at the instruction that follows it, unterminated ones       *)
(* included, and the jump targets of all brackets.                         *)
ParsesText ==
    /\ status = "unbalanced" => ~Balanced(CodeOps)
    /\ status = "parsed" =>
          /\ Balanced(ops)
          /\ ops = CodeOps
          /\ labels = [n \in 1..Cardinality(LabelStarts) |->
                          LabelOf(CHOOSE k \in LabelStarts : StartsBefore(k) = n - 1)]
          /\ jumps = JumpTable(ops)

(* "print round-trips a source": its output parses, to the instructions,   *)
(* the jump targets and, unless they were left out, the labels that it was *)
(* printed from, those of the end point and empty ones included.           *)
PrintRoundTrip ==
    printed # << >> =>
        /\ status # "unbalanced"
        /\ status = "parsed" => printed = <<ops, labels, jumps>>
=============================================================================

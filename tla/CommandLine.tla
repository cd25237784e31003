----------------------------- MODULE CommandLine -----------------------------
(***************************************************************************)
(* The options of src/argparse/argparse.cpp and the two models that        *)
(* run_with_args() builds from them, with decode_input_escapes() of        *)
(* model.cpp.  The IOModel is then read as in InputStream, whose clients   *)
(* may also be tests that call its setters themselves.                     *)
(*                                                                         *)
(* The argument of --input is a sequence of characters, which are strings. *)
(***************************************************************************)
EXTENDS InputStream, MemoryModel, SequencesExt

CONSTANTS
    Code,              \* the bytes of the characters, "newline", "tab", "return" included
    HexDigits,         \* the values of the hexadecimal digits
    DefaultMemoryModel,\* MemoryModel()
    Arguments          \* the options considered; NoValue is one that was not given

HexBase == Cardinality(DOMAIN HexDigits)
CellSize == {"8", "16", "32"}

(* Two digits make a byte, in lower case here.  CLI11 has checked the types *)
(* of the arguments, and a string of bytes is not a missing option.        *)
ASSUME CommandLineAssumption ==
    /\ NoValue \notin Seq(Char)
    /\ HexBase \in Nat
    /\ HexBase * HexBase = MaxChar + 1
    /\ \A c \in DOMAIN HexDigits : HexDigits[c] \in 0..(HexBase - 1)
    /\ {"\\", "newline", "tab", "return"} \subseteq DOMAIN Code
    /\ \A typed \in Arguments :
          /\ typed.input # NoValue => typed.input \in Seq(DOMAIN Code)
          /\ typed.memory_size \in Nat \cup {NoValue}
          /\ typed.max_stdin_length \in Nat \cup {NoValue}
          /\ typed.eof_char \in Char \cup {NoValue}
          /\ typed.no_change_on_eof \in BOOLEAN
    /\ \A c \in DOMAIN Code : Code[c] \in Char
    /\ IsModel(DefaultMemoryModel)
    /\ DefaultMemoryModel \in [memory_size : Nat, max_value : {MaxChar}, wrapping : {TRUE}]

VARIABLES
    options,       \* the arguments of the process
    memory_model,  \* the MemoryModel that is handed to the command
    status         \* "typed", "rejected" by CLI11, "built", or "library" for a test

command == <<options, memory_model, status>>

-----------------------------------------------------------------------------
Escapes ==
    [c \in {"\\", "n", "t", "r", "0"} |->
        CASE c = "\\" -> Code["\\"]
          [] c = "n" -> Code["newline"]
          [] c = "t" -> Code["tab"]
          [] c = "r" -> Code["return"]
          [] c = "0" -> 0]

HexByte(high, low) == HexDigits[high] * HexBase + HexDigits[low]

Prepend(byte, bytes) == IF bytes = NoValue THEN NoValue ELSE <<byte>> \o bytes

(* Faulty variant: only one of the two digits is passed over.              *)
AfterOneDigit(i) == i + 3

(* The character behind the escape \xNN at i.                              *)
AfterHex(i) == i + 4

(* The decoded bytes, or NoValue when the scan throws: Rest[i] are those   *)
(* from the i-th character on.                                             *)
decode_input_escapes(text) ==
    LET Rest[i \in 1..(Len(text) + 1)] ==
            IF i > Len(text) THEN << >>
            ELSE IF text[i] # "\\" THEN Prepend(Code[text[i]], Rest[i + 1])
            ELSE IF i = Len(text) THEN NoValue
            ELSE IF text[i + 1] \in DOMAIN Escapes
            THEN Prepend(Escapes[text[i + 1]], Rest[i + 2])
            ELSE IF /\ text[i + 1] = "x" /\ i + 3 <= Len(text)
                    /\ {text[i + 2], text[i + 3]} \subseteq DOMAIN HexDigits
            THEN Prepend(HexByte(text[i + 2], text[i + 3]), Rest[AfterHex(i)])
            ELSE NoValue
    IN  Rest[1]

-----------------------------------------------------------------------------
Given(option) == options[option] # NoValue

(* CLI::PositiveNumber and CLI::IsMember.                                  *)
MemoryOptionsValid ==
    /\ Given("memory_size") => options.memory_size > 0
    /\ Given("cell_size") => options.cell_size \in CellSize

(* validate_input() and excludes().                                        *)
IOOptionsValid ==
    Given("input") =>
        /\ decode_input_escapes(options.input) # NoValue
        /\ ~Given("max_stdin_length")

(* MemoryModel::get_max_value() of a cell of one, two or four bytes.       *)
get_max_value(cell_size) ==
    LET byte == MaxChar + 1
    IN  CASE cell_size = "8" -> byte - 1
          [] cell_size = "16" -> byte * byte - 1
          [] cell_size = "32" -> byte * byte * byte * byte - 1

make_memory_model ==
    LET Or(option, default) == IF Given(option) THEN options[option] ELSE default
        Sized == set_memory_size(DefaultMemoryModel,
                                 Or("memory_size", DefaultMemoryModel.memory_size))
        Celled == set_cell_size(Sized, get_max_value(Or("cell_size", "8")))
    IN  set_wrapping(Celled, ~options.no_wrapping)

(* Only what was given overrides a default of the IOModel.                 *)
make_io_model ==
    LET Limited == IF Given("max_stdin_length")
                   THEN set_chars_until_eof(DefaultIOModel, options.max_stdin_length)
                   ELSE DefaultIOModel
        Pinned == IF Given("input")
                  THEN set_input(Limited, decode_input_escapes(options.input)) ELSE Limited
        Ended == IF Given("eof_char") THEN set_eof_char(Pinned, options.eof_char) ELSE Pinned
    IN  IF options.no_change_on_eof THEN set_no_change_on_eof(Ended, TRUE) ELSE Ended

TypedInit ==
    /\ options \in Arguments
    /\ memory_model = DefaultMemoryModel
    /\ status = "typed"
    /\ io = DefaultIOModel
    /\ limit = NoValue
    /\ reads = << >>

LibraryInit ==
    /\ options = NoValue
    /\ memory_model = DefaultMemoryModel
    /\ status = "library"
    /\ StreamInit

(* CLI11_PARSE returns the exit code of the error.                         *)
Reject ==
    /\ status = "typed"
    /\ ~(MemoryOptionsValid /\ IOOptionsValid)
    /\ status' = "rejected"
    /\ UNCHANGED <<options, memory_model, stream>>

Build ==
    /\ status = "typed"
    /\ MemoryOptionsValid /\ IOOptionsValid
    /\ memory_model' = make_memory_model
    /\ Configure(make_io_model)
    /\ status' = "built"
    /\ UNCHANGED options

CallSetter ==
    /\ status = "library"
    /\ SetCharsUntilEof \/ SetInput
    /\ UNCHANGED command

Read ==
    /\ status \in {"library", "built"}
    /\ ReadNextChar \/ ReadPossibleChars
    /\ UNCHANGED command

CommandNext == Reject \/ Build \/ CallSetter \/ Read

CommandSpec == (TypedInit \/ LibraryInit) /\ [][CommandNext]_<<stream, command>>

-----------------------------------------------------------------------------
(* The bytes that a piece of the argument may stand for.                   *)
Tokens(piece) ==
    {Code[c] : c \in {c \in DOMAIN Code \ {"\\"} : piece = <<c>>}}
    \cup {Escapes[c] : c \in {c \in DOMAIN Escapes : piece = <<"\\", c>>}}
    \cup {HexByte(d[1], d[2]) : d \in {d \in (DOMAIN HexDigits) \X (DOMAIN HexDigits) :
                                           piece = <<"\\", "x", d[1], d[2]>>}}

(* The ways to cut a text, from its first-th character on, into such       *)
(* pieces: the places where the pieces begin.                              *)
Piece(text, starts, s) ==
    SubSeq(text, s, Min({t \in starts : t > s} \cup {Len(text) + 1}) - 1)

Cuts(text, first) ==
    {starts \in SUBSET (first..Len(text)) :
        /\ first <= Len(text) => first \in starts
        /\ \A s \in starts : Tokens(Piece(text, starts, s)) # {}}

(* The byte string of a way to cut: the k-th byte is that of the piece     *)
(* whose start is the k-th from the left.                                  *)
Place(starts, s) == Cardinality({t \in starts : t <= s})
KthTokens(text, starts, k) ==
    UNION {Tokens(Piece(text, starts, s)) : s \in {s \in starts : Place(starts, s) = k}}
Spelled(text, starts) ==
    [k \in 1..Cardinality(starts) |-> CHOOSE byte \in KthTokens(text, starts, k) : TRUE]

(* The byte strings that the argument means.                               *)
Denotes(text) == {Spelled(text, starts) : starts \in Cuts(text, 1)}

(* The contents of a cell of one, two or four bytes.                       *)
CellContents(cell_size) ==
    LET Two == Char \X Char
    IN  CASE cell_size = "8" -> Char [] cell_size = "16" -> Two [] cell_size = "32" -> Two \X Two

(* From the command line to the reads: an argument of --input is refused   *)
(* iff it cannot be cut into characters and escapes, which can be done in  *)
(* one way only; otherwise a program reads its bytes one by one and then,  *)
(* as after the last character of --max-stdin-length, what the end of the  *)
(* input was asked to be.  The tape has the cells, the cell width and the  *)
(* edges that were asked for, and the default of what was not given.       *)
InputAsTyped ==
    LET Or(option, default) == IF Given(option) THEN options[option] ELSE default
        Meant == Denotes(options.input)
        AtEnd == IF options.no_change_on_eof THEN << >> ELSE <<Or("eof_char", 0)>>
    IN  /\ status \in {"rejected", "built"} =>
              (status = "rejected") =
                  \/ options.memory_size = 0
                  \/ Given("cell_size") /\ options.cell_size \notin CellSize
                  \/ Given("input") /\ (Given("max_stdin_length") \/ Meant = {})
        /\ status = "built" =>
              /\ memory_model.memory_size = Or("memory_size", DefaultMemoryModel.memory_size)
              /\ IF Given("cell_size")
                 THEN memory_model.max_value + 1 = Cardinality(CellContents(options.cell_size))
                 ELSE memory_model.max_value = DefaultMemoryModel.max_value
              /\ memory_model.wrapping = ~options.no_wrapping
              /\ Given("input") => Cardinality(Meant) = 1
              /\ \A k \in DOMAIN reads :
                    IF Given("input") THEN
                        \A bytes \in Meant :
                            reads[k] = IF k <= Len(bytes) THEN <<bytes[k]>> ELSE AtEnd
                    ELSE IF Given("max_stdin_length") /\ k > options.max_stdin_length
                    THEN reads[k] = AtEnd
                    ELSE reads[k] = AllPossibleChars \/ Len(reads[k]) = 1
=============================================================================

# braincheck in TLA+

braincheck analyses Brainfuck programs. It builds a *state graph* from a program
and answers questions about all of its runs: is a label reached on every run, is
a cell visited (infinitely often), does a cell ever hold a value, can a cell
overflow. It can also execute the program. This directory models the part of it
that has to be right for those answers to be right, checks the models with TLC
on small instances, and proves with TLAPS, for every graph, text, program and
tape, that the parser reads what is written, that the searches decide their
formulas, that folding is exact and hides nothing that is observed, that the
commands answer what they were asked, and that an execution is a run of the
state graph.

Paths below are relative to the repository (`src/brainfuck/...`, `spec/...`).

## 1. Inventory

The program is sequential: no threads, no persistence, no messages. What makes
it hard is not interleaving but *agreement*: several representations of the same
thing (the interpreter and the state graph, the folded and the unfolded graph,
the budget and the cursor into the input, the hash table and the vectors, a
check and its negation) have to say the same on every program.

| component | state | operations | correct when |
| --- | --- | --- | --- |
| **Searches** `search.cpp` | hash table, state vector, parents, colours, frames | `search_eventually`, `search_always`, `search_eventually_always` (`explore`, `find_cycle`, `make_run`) | each decides its formula, its run is a run, it returns on finite graphs |
| **State graph** `kripke.cpp` | immutable states: pc, pointer, memory, budget | `KIterator`, `initial_state`, `observes`, `KState::compare` | a folded transition does what its instructions do, hides nothing that is observed, no state is a dead end, and states are told apart by every field |
| **Block table** `program.cpp`, `build_blocks` | run start and end, net move, bounds, table | one pass over the program | blocks are the maximal unlabelled runs and are exact on both tape modes |
| **Parser** `program.cpp`, `parse_from_istream` | loop counter, bracket stack, labels, jump table | one pass over the text, `print` | rejects exactly the unbalanced texts; labels and jump targets as written; printing and parsing again changes nothing |
| **Tape arithmetic** `model.cpp`, `MemoryModel` | pointer and sparse cells (interpreter only) | setters, pure helpers, `left`, `right`, `increment`, `decrement`, `set_current_value` | stays on the tape and in the cell width |
| **Input model** `model.cpp`, `IOModel` | budget, end-of-input policy, pinned input | setters, `read_next_char`, `read_possible_chars`, `get_possible_chars`, `decode_input_escapes` | both readers and the pure alphabet deliver the same input, in order, once |
| **Interpreter** `program.cpp`, `Program::run` | ip, its memory and input model | one instruction per iteration; another call | every execution is a run of the state graph |
| **Checks** `analysis.cpp` | none | `check_reach`, `check_visit`, `check_value`, `check_overflow` | the answer is what the statement means on single instructions |
| **Persistent memory** `memory_map.cpp` | immutable treap, shared between states | `get`, `set`, `hash`, `compare` | a function of its contents: canonical shape, earlier versions unchanged |
| **Commands, printing, dot** `src/main.cpp` | none | `reachfun`, `visitfun`, `valuefun`, `overflowfun`, `dotfun`, `print_run`, `print_truncated_run`, `print_dot` | the answer is the check's, a printed run can be executed and shows why, the dot graph is the state graph |
| **Command line** `argparse.cpp` | options | validators, `make_memory_model`, `make_io_model` | builds the models that were asked for |

They interact by plain calls. The parser calls `build_blocks` and returns a
`Program`; a check wraps the program in a `Kripke` with the folding mode that its
observation allows and hands a state predicate to a search; the search asks the
`Kripke` for iterators, whose successors go through the same `MemoryModel` and
`IOModel` helpers as the interpreter; the printers turn the returned run back
into program text.

Hard behaviours (the list with lines is `PROJECT.json`, "hazards"):

* depth-first colours: an edge to a stored state closes a cycle only if that
  state is still on the path, and `find_cycle` keeps its colours across roots;
* the prefix of a lasso comes from another tree than its cycle, and the entry
  state must not appear twice;
* folding: which states may be skipped depends on what the check observes, and
  a clamping tape forgets the moves that hit an edge;
* unsigned and signed word arithmetic in the folded moves;
* the input budget is at once a length and a cursor, and it is kept both in the
  interpreter's model and in every state;
* the end point stutters, so halting programs have infinite runs as well;
* each universal statement is decided through its negation;
* a printed run is rebuilt from states: each command repeats the folding mode of
  its check, and the text has to be what the transitions folded;
* options override the defaults one by one, and the decoder of `--input` moves
  its index at several places of one iteration.

## 2. Modules

```
RunFormulas <- SearchEventually, SearchAlways, SearchEventuallyAlways
MemoryModel <- Program <- BlockTable
                       <- Parser
IOModel <- InputStream
CommandLine (InputStream, MemoryModel)
Kripke (Program, IOModel) <- KripkeWalk <- (INSTANCE) Interpreter
                          <- Analysis <- Commands
Process (CommandLine, KripkeWalk)
MemoryMap

proofs:
OperatorProofs (RunFormulas, Kripke) <- SearchEventuallyProofs, SearchAlwaysProofs,
                                        SearchEventuallyAlwaysProofs
                                     <- BlockTableProofs
                                     <- KripkeWalkProofs (Process)
                                     <- CommandsProofs
                                     <- ProgramProofs (Parser, Interpreter)
```

Definitions keep the names of the code (`pointer_left`, `shift_value`,
`get_possible_chars`, `step_end`, ...). Indices and instruction pointers start
at 1; `no_index` is 0. `PROJECT.json` "map" gives the lines of every definition.
Operators that a comment calls a *faulty variant* are deliberate mistakes: each
property is known to be violated when one of them takes the place of the
definition it follows, which shows that the property depends on the code.

**`RunFormulas`** defines what `E F`, `E G` and `E F G` mean on a graph that is
a function from nodes to successor sequences, without infinite paths and without
recursion: a node is reachable iff every closed set with the start node contains
it, and an infinite path inside P starts at n iff n lies in a subset of P each of
whose members has a successor in the subset. These definitions can be evaluated
on small graphs and proved about on all of them, infinite ones included.

**`SearchEventually`, `SearchAlways`, `SearchEventuallyAlways`** model the three
routines of `search.cpp`, one action per loop iteration. The graph and the atom
are arguments, chosen in `Init` and constant afterwards; the local variables
keep their names (`index`, `states`, `parent`/`tree_parent`, `colour`,
`stack`). The loops that follow the parents to build the run are actions of
their own (`Climb`, `ClimbCycle`, `ClimbPrefix`), so that the run they return
is checked and not assumed. `SkipBlack` and `SkipChild` stand for the edges
the loops pass over.

**`MemoryModel`** has the pure helpers on a record of tape size, largest cell
value and wrapping flag. `move_pointer` and `shift_value` keep the word:
`Signed` is the conversion to `int64_t`, `Remainder` the remainder of C++, and
`HalfWord` stands for 2^63.

**`Program`** is the parsed program and its queries, and describes by
quantifiers what the parser's bracket stack and `build_blocks` compute:
`Partner` and `FoldedBlock`. **`Parser`** and **`BlockTable`** are the loops
themselves, and `ParsesText` and `TableIsFolded` state that they compute it.
Thus the other modules can start from `ParsedProgram` without running a parser.
What a clamping tape keeps of a run (`ClampedMoves`) is a recursive function, so
that it can be evaluated and proved about.
`BlockTable` also carries history variables with the effect of the run one
instruction at a time. `Parser` has `print` as well: `ParsePrinted` hands what a
parsed program prints to the tokenizer again, with the old tables kept in
`printed`.

**`IOModel`** has the fields and functions of the class; **`InputStream`** is an
object of the class whose clients call the setters and the two readers in any
order. **`CommandLine`** has the options: CLI11's verdict on them (`Reject`), the
two models that `run_with_args` builds (`Build`), and `decode_input_escapes`. The
program then reads from the model that was built; a test (`status` is
`"library"`) calls the setters itself. `Denotes`, which `InputAsTyped` compares
with, says what an argument of `--input` means without scanning it: the ways to
cut it into characters and escapes.

**`Kripke`** has the successors of a state in iterator order for all four
folding modes and the observed atoms; **`KripkeWalk`** walks from the initial
state. A state's memory is the function from cells to contents that the
`MemoryMap` stands for. Only the interpreter uses `Restart`: its walk has
another run after the first, with the budget that is left.

**`Process`** is one call of the program, in which the two meet: the models that
`Build` makes from the options are those that a file is parsed with (`Parse`), and
the walk goes through the graph of the parsed program (`Walk`). `execute` needs no
graph and only reads (`Command`). `parsed` tells which part the call is in.

**`MemoryMap`** is the treap behind that function, with the recursive helpers of
the code on trees as values. `Set` is what a transition does: it derives a
snapshot from one that some state owns. Priorities are any order of the cells
(`mix_hash` is a bijection) and entry hashes are any function, so that the cases
that 64 bits make rare in tests are ordinary here. `Canonical` and
`CompareOrders` are why the other modules may take a memory for its contents:
equal contents are one tree with one hash, and `compare` is 0 on them only.
`compare_states` is `KState::compare`; `Heads` are the other fields of the states.
`Treap`, which `Canonical` compares with, is defined from the contents alone.

**`Interpreter`** is `Program::run` with its own sparse memory and its own copy
of the input model. Standard input is the environment: `Stdin` is any character
and, if `EndsEarly`, the end of the stream. `Walk` is `KripkeWalk` with the
refinement mapping `GraphState`, and `RefinesWalk` says that the interpreter
implements the walk of the unfolded graph. `RunAgain` is another call of `run()`
on the same object: the tape is cleared, the input model is not.

**`Analysis`** has the checks as operators. A search is replaced by what it
promises: the set of the runs it may return (shortest paths to the atom,
lassos that stay in it), because `search.cpp` is modelled on its own.

**`Commands`** has an action per callback of `main.cpp`: it refuses an unknown
label or a cell off the tape, asks a check, and shows *any* run the search may
have returned, as the instructions its steps print. `print_dot` is the worklist.
`ReachCorrect` and its siblings say what each statement means on the *unfolded*
runs, by a least fixed point (`FromWhichEventually`) that shares nothing with the
searches. `PrintsExecution` executes the printed text one instruction at a time, in
two parts: `LassoExecutes` and `WitnessExecutes`. A witness goes one step beyond the
state in which the event happens: for `check overflow` that step is the wrapping
instruction, as the documentation says (`MarksWrap`), for `check value` it is not
what is documented (`StopsAtValue`, violated). `DotShowsGraph` compares the nodes and edges with the
graph and the labels with the unfolded runs.

## 3. Runs

| run | instance | shows |
| --- | --- | --- |
| `search_eventually` | every graph of 3 nodes, every atom | decides `E F`, witness shortest, returns |
| `search_always` | graphs of 4 nodes with out-degree 1 or 2, one of them the end point; every atom | decides `E G`; the lasso stays in the atom and repeats no state |
| `search_eventually_always` | the same graphs | stores the reachable graph, decides `E F G`, shortest prefix |
| `parser` | every text of up to 6 characters over `+ [ ] _` and a comment | verdict, labels, jump targets; printing, with and without labels, parses back |
| `block_table` | every program of up to 4 of `< > + - .`, every set of labels, 1 and 3 cells, both modes | the blocks are the maximal runs and are exact |
| `process` | every argument of up to 5 characters over `\`, two escape letters, two digits and a letter, every mix of the other options; tests with inputs and budgets up to 2; 3 reads after each configuration; with three of the mixes, every balanced program of up to 4 instructions, a label at any place, 1 to 3 cells, four foldings | accepted iff meant, models and reads as typed; order, no loss, no repetition, agreement with the graph; folding exact and unobserved, no dead end |
| `interpreter` | every balanced program of up to 4 instructions and four longer ones with loops, three input policies; any number of calls | every execution is a run of the graph |
| `commands` | every balanced program of up to 3 instructions and six longer ones, labels at every pair of places, every command with every argument, cells off the tape included | every answer is right, every printed run can be executed and shows why, dot prints the graph |
| `memory_map` | 5 cells of 3 values and one memory, 3 cells and up to 3 memories; every order of the priorities, every contents, every write, colliding entry hashes | a memory is the one treap of its contents; `compare` tells states apart and orders them, whatever their other fields |
| `block_table_huge_tape` | 7 cells, words of 3 bits | *violated*: folded moves on a tape of more than 2^63 - 1 cells |
| `commands_value_witness` | the programs and commands of `commands` | *violated*: the witness of `check value` has a step more than is documented |
| `interpreter_short_input` | `-,` and `,+`, standard input may end early | *violated*: the execution leaves the graph |

**Why these bounds are enough to be interesting.** A search distinguishes tree,
back, cross and self edges; three nodes have all of them, and the smallest graph
on which a depth-first search meets a black state *and* has an atom to leave
needs four. A block is a run between two other instructions or labels: four
instructions have runs of every length up to 4, so that they exceed the cell
width (1 bit: two values; 2 bits), the tape (1 to 3 cells) and hit both of its
edges, and runs that are cut by labels at their first, inner and last
instruction. Inputs of two bytes distinguish the first, the last and the
exhausted read. Characters have one bit and cells up to two, so that a cell can
hold what no character can, as 16 and 32 bit cells do; `MaxChar` plays 255.
In `process` a byte has two bits and a hexadecimal digit one (`HexBase`),
so that two digits are exactly a byte, and the walked tapes have cells of one and
of two bytes; five characters hold `\xNN` with a
character before or behind it, and every escape that ends too early. `HalfWord`
is 128 there because a 32 bit cell has then eight bits.
In `commands` the longer programs have the loops that never halt, halt
depending on the input, and pass a cell a finite number of times. `HalfWord`
is 16 in the other runs where the word must not matter and 4 where it is the subject. Five cells
are the smallest treap whose erased root can have two children that both have
children of their own, so that `merge` descends on both sides; the order needs
three memories, for transitivity, and three cells give them walks that differ at
the first and at later entries. The entry hashes of the three cells have no
collisions, collisions of the values of one cell, of sets of cells, and of
everything.

**What a pass of `commands` says together with the searches.** The searches
meet their contracts (first three runs, and the proofs), the checks are right
given the contracts, folding hides nothing (`process`), and the executed
program is the analysed one (`interpreter`): this is the chain from the answer
back to the program text, which the `parser` and `block_table` runs start.

**Fairness.** `FairSpec` adds weak fairness of `Next` to the three searches: they
are plain loops of a single thread, which do not stop between two iterations.
Nothing is assumed about which action is taken; the control point determines it.
Nothing else has a liveness property: the parser and the block table count up
to a bound, and a Brainfuck program need not halt.

**Deadlock** is checked for `interpreter` and `memory_map`, which never stop: a
program that has returned may be run again, and a memory may always be written.
That the walk of the graph never stops is `Branching`. All other models end when the
function returns, or after `MaxReads` reads.

## 4. Proofs

TLAPS proves every safety invariant that TLC checks, those of the treap excepted:
on the searches, the parser and `print`, the block table, the state graph, the
input model as a command line configures it, the verdicts of the commands, the
runs that they print and the dot output; and the interpreter's refinement. Every action lemma has one step per action of `Next`;
a temporal theorem combines the initial and the step lemma. `PROJECT.json`
"theorems" lists the results.

### Assumptions

| assumption | where | why the code justifies it |
| --- | --- | --- |
| `GraphAssumption`: a graph maps nodes to sequences of nodes | searches | the interface of `KIterator`. The graph need not be finite |
| `IsModel`, `IsIOModel`, `IsProgram`: what constructors, setters and the parser return | block table, state graph, interpreter | tape sizes and cell widths as the options allow them; `set_chars_until_eof` is not called after `set_input` (`model.hpp:191`, and `--input` excludes `--max-stdin-length`), so the budget never exceeds a pinned input; the narrowest cell has as many bits as a character; brackets are balanced, as the parser checks |
| `ParserAssumption`: a text is a sequence of characters | parser | nothing else is assumed of a source file |
| `CommandsAssumption`: labels are within the program, and the arguments have their types | commands | the parser, and CLI11 |
| `CommandLineAssumption`, `StreamAssumption`, `MaxCharAssumption`: options have their types, a string of bytes is not a missing option, escapes and inputs are made of characters, there are two characters at least | input model | CLI11, and `unsigned char` |
| `SmallTapes`: a tape has fewer than 2^63 cells | `PointersExact`, `KripkeWalkProofs` on the graph, `CommandsProofs` | the code accepts larger ones, and is wrong there: the first finding of section 5 |
| `~EndsEarly`: standard input does not end before the budget | `ProgramProofs`: `Invariance`, `Refines` | `spec/input.md` assumes it; the second finding shows what happens otherwise |

The last two are hypotheses of single theorems, the others are `ASSUME`s of the
models, which TLC evaluates in every run.

### The searches

`OperatorProofs` has the lemmas: reachable nodes are closed under edges and
lie in every closed set; what `std::reverse` returns; a trail that was
collected backwards along edges is a path after it is reversed; a lasso inside P
shows `E G(P)`; and, for shortest runs, what the layers of a breadth-first queue
are (`Layers`): they grow by at most one along the queue, an edge from an
expanded state climbs at most one layer, so a path of k states ends in a layer
not above k.

**`SearchEventuallyProofs`** proves `TypeCorrect`, `TreeCorrect` (the hash table
and the vectors describe one tree of edges), `Correct`: `[]DecidesEF`, and
`Shortest`: `[]ShortestWitness`. The inductive invariant is

    IInv == TypeOK /\ TreeInv /\ ScanInv /\ ReachInv /\ TraceInv

`TreeInv` alone says nothing about states that were *not* stored. `ScanInv`
adds that processed states violate the atom and have all their successors
stored, and the state under way those before the iterator. When the scan is
exhausted, the stored states are therefore a closed set without atom states, and
contain everything reachable. `ReachInv` gives the other direction, and
`TraceInv` says that the trail of the climb is a path, read backwards, whose
parents decrease. `Shortest` adds `DepthInv`: the stored states have layers, and
a trail is as long as the layers it has climbed.

**`SearchAlwaysProofs`** proves `TypeCorrect`, `PathCorrect` (`PathInv` and
`BlackInv`), `Correct`: `[]DecidesEG`, and `Simple`: `[]SimpleLasso`. Here

    IInv == TypeOK /\ TableInv /\ FrameInv /\ PathInv /\ BlackInv /\ BlackOutside /\ RunInv

`FrameInv` says what each frame has passed: successors outside the atom, black
ones, or the one the next frame explores. It makes `BlackInv` inductive: when
a frame is popped, everything it has passed is black. `BlackOutside` is the
heart of the argument: no black state lies in a set of atom states that
sustains an infinite run. When the top frame turns black its atom successors are
black, so no such set can contain it. With an empty stack the start state is
black, hence no run stays in the atom. For a gray hit, `PathInv` says that the
stack is a chain of tree parents with exactly the gray states, so the climb from
`node` reaches `child`, and `RunInv` says that what it collects is a cycle of
atom states to which the prefix leads. `Simple` adds that a climb only visits
smaller and smaller indices, first those of the cycle, then those of the prefix.

**`SearchEventuallyAlwaysProofs`** proves all five properties of its run, with

    IInv == TypeOK /\ TreeInv /\ LinkInv /\ ReachInv /\ FrameInv /\ PathInv
            /\ RootInv /\ BlackClosed /\ BlackOutside /\ RunInv

`LinkInv` says of `explore` that the lists of expanded states name all their
successors and those of the state under way the ones before the iterator, while
states are appended to the vector that is iterated over; `Explores` follows. The
depth-first part is the argument above per root. What is new is that the colours
survive a root: `RootInv` says that the atom states among the roots so far are
black, and `BlackClosed` and `BlackOutside` do not mention the root, so a later
root may skip them. With the last root gone, every reachable atom state is black
and no sustained set contains one. `Shortest` climbs the breadth-first tree of
`explore` for the prefix although the cycle came from the depth-first one.

### Folding

**`OperatorProofs`** also holds the lemmas about the operators of `Program`,
`MemoryModel` and `Kripke`. Congruence modulo the cell width or the tape size makes the
arithmetic linear (`ShiftExact`, `WrapExact`: the C++ remainder of a negative
number, added modulo the word, is the mathematical one). A clamping move is
`Clamped` to two bounds, and composing moves composes the bounds (`ClampExact`).
`Partner` is an involution between balanced brackets (`PartnerFacts`, by the
depth of nesting), and a block is a run of one class without an inner label
(`BlockSpan`, `FoldedSpan`).

The prover has no induction over data. `LeastElement` (a non-empty set of
naturals has a least member, proved from the finite-set theorems) takes its
place: each induction is about the least counterexample of one concrete
predicate. That a recursive function such as `ClampedMoves` exists, and hence
satisfies its equation, is shown in the same way (`ClampedPathExists`).

**`BlockTableProofs`** proves all three invariants of its run. `Inv` relates the
loop's `delta`, `low` and `high` to the history variable that applies the run
one instruction at a time: congruent contents in a run of `+` and `-`
(`ValueRun`), congruent or clamped positions in a run of `>` and `<`
(`PointerRun`). It gives `ValuesExact` for every cell width and, for
`SmallTapes`, `PointersExact` on both tape modes. For `TableFolded`, `FoldInv`
says that the run so far is a run of one class from the start of a block, that
`delta` is its net count and the bounds are what the tape's two ends become, and
that the stored entries are those of `FoldedTable`.

**`KripkeWalkProofs`** proves the four invariants of the walk, for every balanced
program, labelling, tape, cell width, input model and folding mode, from

    IInv == TypeInv /\ StartsAtBlock

`StartsAtBlock` is both a property and what makes the rest true: the table
answers for interior instructions of a run as well, and it is kept because a
single step never leads into the middle of a block that would be folded (the
step before it would be of the same class, and be folded with it) and a jump
target follows a bracket, which no block contains. `FoldExact` goes along the
unfolded path: after k instructions of a run the content is congruent to the
net count so far (`ValuesPath`), or the pointer to the net move, or clamped by
the bounds so far (`PointersPath`), and the whole run has the table's delta
and bounds. `Unobserved` reads off the same path that the skipped states have
no label, because a label cuts the run, and that what the atoms of a check look
at (the pointer, the contents, the wrap of the next instruction) does not occur
in a run its mode folds. `Branch` follows from the alphabet of the input model
being injective and never empty where the code falls back to keeping the cell.

### The interpreter

**`ProgramProofs`** proves `Refines`: `Spec => RefinesWalk`, every execution
is a run of the unfolded graph if standard input lasts as long as the budget
(`~EndsEarly`, which the invariant needs as well), with

    IInv == IsProgram(prog) /\ IsIOModel(io) /\ SameInput /\ ptr \in Cells(m)
            /\ DOMAIN memory \subseteq Cells(m) /\ eof = FALSE

`SameInput` says that the interpreter's copy of the input model differs from the
program's in the budget alone; so `get_possible_chars`, asked with the budget of
the mapped state, offers what `read_next_char` returned (`GetRefines`). Each
other instruction is the one successor of its mapped state: writing to the
sparse memory is writing to the tape it stands for (`MappedWrite` and its
siblings), and another call of `run()` is `Restart`.

### The parser and `print`

**`ProgramProofs`** proves all three invariants of the parser's run for texts of
every length.

`StackCorrect` needs that the depth of nesting never falls below zero, and that
every closed bracket has a partner (`StackOf`): a bracket that is popped is the
partner of the one that is read, because the depth since then has stayed above
its own.

`ParserIsCorrect` compares a loop with sets of places in the text. The invariant
`Scanned` says that between two iterations an even number of separators has been
passed, and that the n-th instruction and the n-th label are what stands at the
place of rank n (the number of earlier places) among the instructions and the
openings of labels. A label is jumped over in one iteration, so the step lemma
shows that no place inside it is one of either kind. Every accepted text is
`Linked`, which is what the other models take a parsed program to have.

`PrintingRoundTrips` needs the shape of the printed text first. `Layout` gives
every instruction and every label its place in it: an instruction stands behind
the instructions before it and the text of the labels up to it (`PrintPlaces`,
from the places of a flattened sequence). Then `ReadBack` is invariant while it
is parsed again: what has been read is a prefix of the tables, and `i` is at the
place of what comes next. Labels contain no separator, because each
ends at the next one, and are in order; `GoodTables` says so, and is an invariant
of the first pass. That no
closing bracket is rejected (`NoReject`) follows from the depth of the table's
prefix.

### The input model

**`KripkeWalkProofs`** proves `InOrder`, `GraphReads` and `AsTyped` of the stream
that a command line or a test configures. The budget is at once a length and a cursor;
`StreamInv` ties the two uses together: the budget is the limit minus the number of
reads, and never exceeds a pinned input.

`AsTyped` is about what was typed, of any length. From any character on, at most
one piece stands for a byte, and the decoder takes that one (`DecodedStep`). So the
ways to cut an argument from there on are those of the rest, with that piece in
front (`CutsSplit`, `CutsJoin`), and there is none when the decoder throws
(`MeansStep`). By induction from the end of the argument, which `LeastElement`
turns into a smallest counterexample, the decoder returns the only meaning, or there
is none (`DenotesFacts`). The width of a cell is compared with the number of its
contents, which are bytes, pairs or quadruples of bytes (`MaxOfSize`). `TypedInv` carries that through the reads: a built model
is the one that the options make, and `limit` is the budget that they ask for.

`CallIsCorrect` puts the input model and the walk together: `CallInv` has `TypedInv`
all the time and the walk's `IInv` from the moment a file is parsed, which needs no
more than that the parsed program is one of `Programs`.

### The commands

**`CommandsProofs`** proves that every verdict is right, for every program whose
tape is smaller than half a word, every labelling, input model and argument:
`ReachIsCorrect`, `VisitIsCorrect`, `ValueIsCorrect`, `OverflowIsCorrect`; and that
what is printed behind it is true: `RunsAreExecutions`, `WrapsAreMarked`. The
state of a command hardly changes; the work is in what the formulas mean.

* *The recursive definitions have values.* Closures, shortest paths, lassos and
  the least fixed point of the statement are recursive functions on sets of
  states or of paths. `UnionRecursion` and `TailRecursion` show that a function
  with their equation exists, and a finite set of states (`KStateFinite`, with
  the budget bounded by the program's) that the iteration ends.
* *A search finds a run iff a set of states exists.* `EventuallyFinds`: iff a
  reachable state satisfies the atom. `AlwaysFinds` and `EventuallyAlwaysFinds`:
  iff the start, or a reachable state, lies in a set inside the atom each of
  whose members has a successor in it.
* *Folding keeps those sets.* `Shown` says that the folding mode hides no event:
  the states inside a folded transition have none. Then a set of folded states
  that avoids the event, filled up with the states inside its transitions, is
  one of single states, and back (`SameQuiet`); and the same events are reachable
  (`SameReached`). Each command has a lemma that its folding mode hides none of
  its events (`ReachHides`, `VisitHides`, `ValueHides`, `OverflowHides`).
* *Statement and search are complements.* The states outside the least fixed
  point are the largest quiet set that sustains itself (`InevitableQuiet`).

`DotIsTheGraph` follows the worklist of `print_dot`: the states are distinct and
reachable, the expanded ones have their successors among them (`Explores`), and it
terminates because the number of states not yet expanded falls.

`RunsAreExecutions` and `WrapsAreMarked` execute the printed text.
`ExecutionsFacts` says what `Executions` holds: the walks of single instructions
from the start that spell the text. `StepWalks` finds such a walk for the text of
one transition, in every folding mode, and shows that the states inside it have no
event; `RunWalks` joins those of a run. What a search may return is a lasso or a
shortest path in that sense (`AlwaysRuns`, `EventuallyAlwaysRuns`,
`EventuallyRuns`). `LassoText` cuts the walk where the cycle begins and finds the
last printed instruction, behind which the rest of the text starts; `WitnessText`
adds the step that leaves the marked state, in which, by `StepMoves`, anything behind the
first instruction moves the pointer. An instruction that wraps a cell is none of
these, so it is the last one printed (`MarksLast`).

With that, the proofs cover the chain from the text of a program to the verdict
of a command, with two gaps that TLC covers on its instances: the checks take
from a search what `DecidesEF`, `DecidesEG` and `DecidesEFG` promise on a graph
of nodes, and the treap is taken for its contents.

### Only model-checked

* Termination of the searches: liveness under fairness is out of reach of the
  prover.
* `Canonical` and `CompareOrders` of the treap: its operations are recursive
  operators on trees, and facts about them need structural induction.

## 5. Findings

* `model.cpp:81`: `move_pointer` converts the size of the tape, which
  `--memory-size` may set to any positive `unsigned long`, to `int64_t`. Beyond
  2^63 - 1 cells the folded move differs from the single ones, on either tape
  mode; `spec/state-space.md` calls the folding exact on both. Below that size
  `PointerFoldExact` holds.
* `program.cpp:190`: an execution whose standard input ends before the budget
  with `no_change_on_eof` keeps the cell, where the graph only has characters.
  `spec/input.md` says that both commands agree about the end of the input.
  With the budget respected, `RefinesWalk` holds.
* `main.cpp:216`: the witness of `check value` is printed up to and including the step
  that *leaves* the first state where the comparison holds: for `+++++` and
  `cell 0 = 3` it is `++++  <- cell 0 = 3`. `README.md:161` and `main.cpp:455` say that
  it "stops at the first state where the comparison holds", and the example at
  `spec/cell-values.md:124` ends one step earlier. What is printed is an execution
  all the same (`PrintsExecution`).

Without a run of its own: the constructor sets `no_change_on_eof(false)`
(`model.cpp:207`), and `DefaultIOModel` follows it, while the comment at
`model.hpp:182` promises "no change on EOF".

## 6. Not modelled

* Which snapshots share a node of the treap, and how many nodes a write
  allocates: the members of `Node` are const, so sharing cannot be observed.
* `KState::hash`, which mixes the fields: the searches need only that it is a
  function of them, and of the memory's hash, which `Canonical` makes a function
  of the contents.
* Wording, colours, layout, `dot_escape` and the hash that dot prints; `--help`
  and `--version`. How CLI11 splits a command line and converts its numbers is
  external: options are values or not given.
* Opening the source file, and the exit codes: a command that cannot read its
  program never gets to the models.
* The single `set_memory_size` that moves the pointer onto a smaller tape: options
  are applied before the pointer moves.
* The tests, which are not part of the program.
* Resource exhaustion: the searches are bounded by nothing but memory.
* The bytes that `.` writes.

## 7. Plan

All components of the program are modelled. What is left is the treap: `Canonical`
and `CompareOrders` could be proved over a formulation of its trees as functions
from places to nodes, without recursive operators and with any function as the
hash.

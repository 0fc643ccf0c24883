# A TLA+ model of the fishlang compiler

`fishlang` (the C program under `src/`) compiles a small expression language to
assembly for PowerPC, MIPS, x86 and the PDP-8.  This directory models the way of a
program through it: lexer, parser, typing, code generation from the syntax tree, the
passes over the three-address code (TAC) and the loop that drives them, the renaming of
temporaries to registers, four back ends, and the assembler for the PDP-8; the arena, the
dynamic arrays and the hash tables that everything else stands on; and the build driver,
which tests the examples on every target.  TLC checks the models on small instances; TLAPS
proves, for every instance, the addresses that the parser keeps, the operand stack and the
temporaries of the code generator, that the passes and the optimiser keep what code means, the
register renaming, the scratch registers and the frame of the back ends, the arena, the arrays,
the hash tables and what the build driver's verdicts mean.

## 1. Inventory

| component | source | state it keeps | operations | modelled |
|---|---|---|---|---|
| Lexer | `src/src/lexer.c` | position, line, column | `next_token`, `peek_token`, `eat_char` | `Lexer` |
| Parser | `src/src/parser.c` | the growing node arrays, `parent` pointers into them, node numbers | `parse`, `expect` | `Parser`, `AST` |
| Types | `src/src/typing.c` | the type table, per node number | `extract_types`, `find_type`, `typecheck` | `Typing`, `FrontEnd` |
| Code generator | `src/src/codegen.c` | `CodeGenCTX`: the IR, `current_function`, two name tables, the operand stack, two counters | `codegen`, one case per node kind | `Codegen` |
| TAC passes | `src/src/tac.c` | one function's code, tables per call | the passes | `Passes` |
| Optimisation loop | `src/src/main.c`, `compile` | the function index, `repeat` | the `do … while` and what follows it | `Optimiser` |
| Register folding | `src/src/tac.c`, `fold_temporaries` | usage ranges, the interference graph, the map | five loops | `FoldTemporaries`, `RegisterFolding` |
| Driver | `src/src/main.c`, `compile` | – | file, parse loop, phases in order | `Reader`, `FrontEnd`, `Optimiser`, `Compiler` |
| Back ends x86, MIPS, PowerPC | `src/src/targets/{x86,mips,ppc}.c` | the frame offset, the scratch registers in use, a count of arguments | prologue, one case per TAC operation, epilogue | `X86`, `MIPS`, `PPC`, `Targets` |
| PDP-8 back end | `src/src/targets/pdp8.c` | words on the page, tables of functions, labels, data and constants | one case per TAC operation, `add_page_end`, `create_…` | `PDP8` |
| Arena, dynamic arrays | `src/src/arena.h`, `src/src/da.h` | blocks; buffer, length, capacity | `arena_alloc`, `da_append`, `da_pop`, `da_last` | `Arena`, `DynamicArrays` |
| Hash tables | `src/src/da.h` | buckets | `hms_put`, `hms_get`, `hms_rem`, `hm_put`, `hm_get` | `HashTable` |
| PDP-8 assembler | `src/2nd_party/gal.c` | names, place, base, statements to be assembled again | `assemble` (two passes), `export` | `Gal` |
| Build driver | `src/build.c` | names and results of the examples; processes and pipes | `main`, `build_examples`, `run_file` | `BuildDriver` |
| Debug output | `src/src/targets/debug.c` | – | prints the tree and the TAC | no: text only |
| Stack IR | `src/src/stack-ir.c` | – | – | no: it is not compiled into the program |

The compiler is sequential: `main` reads a file, `parse` builds the tree,
`extract_types` and `typecheck` accept it, `codegen` makes the IR, `compile` runs the
passes on each function, and a back end prints.  Components interact by calls and by
the structures they share: nodes, the IR, and *pointers into arrays that grow*.  What
is hard about it is not concurrency but long sequences of legal steps: names that
outlive their scope, a pointer kept across the growth of its array, a pass that
assumes what another pass has just broken, a loop that goes on as long as somebody
reports a change, a frame that moves while arguments are pushed, words that are counted
before they are written.  The build driver is the only part that runs beside something
else: it talks to a program it tests, or to the emulator of the PDP-8, through pipes that
fill, with nothing that limits the time.  `PROJECT.json` lists these hazards at their lines.

What makes each part correct:

* **lexer and parser**: what is accepted is the text of the tree that comes out, and every
  program that is written well is accepted; the node numbers and parent pointers are those
  of the tree, though its arrays move while it grows;
* **types**: a name has the type of the scope it stands in; what passes in silence
  never goes wrong at run time;
* **code generator**: every function's code does what its tree says; each node leaves
  one operand; no temporary and no label is used twice; only bad programs are refused;
* **passes**: each keeps what the code does (the value returned, and the calls with
  their arguments and their order);
* **loop**: it settles, and what it hands over is in the form the back ends expect;
* **register folding**: values needed at the same time are in different registers,
  "no result" stays "no result", and there are always enough registers;
* **back ends**: the text does on its machine what the TAC means, and leaves the
  caller's registers and frame as the calling convention says;
* **PDP-8 back end and assembler**: each operand reaches the constant, label, function,
  string or register it stands for, no two words share a place, both passes of the
  assembler agree, and only what is named is refused;
* **build driver**: the table says what the programs of the present sources do, a reference
  that is written is what its program prints, and neither process waits for the other;
* **arena and arrays**: no byte is given out twice, none past the end of a block; arrays
  that share an arena do not touch each other, whoever keeps pointers into them;
* **tables**: a look-up finds what was put last.

## 2. Modules

| module | models | how |
|---|---|---|
| `TAC` | `tac.h`, tables of `tac.c` | an instruction is a record; operation sets by arity, purity |
| `TACSemantics` | what an operation does | a machine that runs a function's code on words of `WordBits`; a call is an entry in a trace |
| `AST` | `parser.h` | one constructor per node kind |
| `Lexer` | `lexer.c` | a text is a sequence of items, a token one of them |
| `Parser` | `parser.c` and the loop around it | the recursion as an explicit stack; buffers of nodes that are copied as they grow |
| `SourceLanguage` | – (reference) | how a tree is written, and what it means: left to right, lexical scope, a body is worth its last expression |
| `Typing` | `typing.c` | operators; a node is named by its path |
| `Codegen` | `codegen()` | the recursion as an explicit stack `work`; one action per stretch of code between two recursive calls |
| `FrontEnd` | `compile()` up to the IR | composes `Typing` and `Codegen` |
| `Reader` | `compile()` from the file on | composes `Lexer`, `Parser` and `FrontEnd` |
| `RegisterFolding` | `fold_temporaries` | one operator from code to code |
| `Passes` | the other passes of `tac.c` | operators from code to code; what each counts on in the code it gets |
| `Optimiser` | the second half of `compile()` | one action per pass, on an IR that is given |
| `Compiler` | `compile()` | composes `FrontEnd` and `Optimiser` |
| `FoldTemporaries` | `fold_temporaries` | one action per round of each of its loops |
| `RegisterAllocation` | – (abstract) | all of the code is renamed at once by some separating map |
| `BackEnd` | what the three back ends share | the loop over instructions, the table of scratch registers |
| `X86`, `MIPS`, `PPC` | `targets/x86.c`, `mips.c`, `ppc.c` | where each temporary lives, one alternative per operation |
| `Targets` | the switch at the end of `compile()` | one back end is chosen |
| `Machine` | – (external) | what the printed instructions do, and the calling conventions |
| `Gal` | `2nd_party/gal.c` | one action per kind of statement; `backpatch` and the second pass |
| `PDP8` | `targets/pdp8.c` | text as statements of `Gal`, which is extended: the assembler reads what was written |
| `BuildDriver` | `build.c` | the driver and the other process, a bounded pipe between them |
| `Arena` | `arena.h` | addresses are pairs of block and offset |
| `DynamicArrays` | `da.h`, arrays | memory byte by byte; kept addresses of elements |
| `Lists` | – (abstract) | independent lists; a store through an old address changes one element or nothing |
| `HashTable` | `da.h`, tables | buckets searched from the front, cleared slots |
| `KeyValueMap` | – (abstract) | a function from keys to values |
| `CodegenProofs`, `PassesProofs`, `FoldTemporariesProofs`, `TargetsProofs`, `DynamicArraysProofs`, `HashTableProofs`, `ParserProofs`, `BuildDriverProofs` | – | the proofs |
| `MC…` | – | instances, properties |

Operators whose comment begins with *Mutant* or *Plausible bug* stand before the definition
they spoil; no specification uses them.  They record plausible slips in the code that the properties catch.

**`Lexer`, `Parser`, `Reader`.**  A text is made of items (a bracket, a run of white space,
digits or name characters, a string, a character of no token), because single characters
decide nothing that the properties tell apart.  The length that `compile()` hands to the
lexer is one short, so the last item can be looked at but not taken (`EndsHere`).
`Parser.memory` holds every buffer of nodes there ever was, an address is a pair of buffer
and index, and growing copies; `parse()` keeps the address of the node it fills
(`Frame.node`), and each child that of its parent, and the model shows which of them still
lead into the tree.  `stack` has one frame per call of `parse()` that waits for a child.
A failed `expect` stops the compiler, as does a token that begins no expression.  `TakeTree` hands the tree on as `Typing` and `Codegen` see it.

**`Typing`.**  The C code files types in a flat table under node numbers and finds a
name by searching from its parent outwards.  The numbers serve only to tell nodes apart,
and following parent pointers gives those of the nodes around (`LinksRight`, and `ParsedRight`
for the finished tree), so a node is its path from the root, a scope its list of ancestors, and
the table a function of paths.  `extract_types` and `typecheck` do not look everywhere
(arguments of calls or those behind a "...", values of lets), nor does the model; functions inside
arguments that are looked at are marked as returning nothing like any others (`Annotated`).
`typecheck` compares arguments beyond the declared parameters with what lies behind the list of types:
zeroed memory up to the end of its buffer (`TypesCapacity`), and behind it whatever is there.  A result
that such a comparison had a part in is not `sure`, and `FrontEnd` may then accept or refuse.

**`Codegen`.**  `heap` is every buffer that `ir.functions.data` ever pointed to:
growing copies, the old buffer stays, and `current_function` is a pair (buffer, index).
So the model shows what the C code does when a nested function makes the array grow:
the outer function goes on writing into the old copy.  `variables` and
`global_symbols` are the two flat tables, with the put-overwrites and remove-all
behaviour of `hms_put` and `hms_rem`.  Symbol indices are one higher than in C.
`Nodes` is the set that trees are built from (a constant, as a set of all trees can be given
to TLC but not be written down); `NodesAssumption` says what of `parse()` generation relies on.
The unspecified order in which the operands of `+` are popped is the choice `swapped`.

**`TACSemantics`.**  Answers to calls depend on the position in the trace, so merging,
dropping or reordering calls shows.  Jumps are forward (`SingleExitJump` says so of
generated code), so a jump is a search for its label.  A PHI takes its first operand if its
label was reached by a jump.  An unset register yields `NoVal`; a branch on it ends badly.

**`Passes`, `Optimiser`, `Compiler`.**  `codes` is the code of each function, `fn` the function
at hand, and `pass` names the pass to run next.  `OptimiserSpec` runs the passes on any IR,
`CompilerSpec` on the one that `FrontEnd` made; the optimiser is a module of its own because
theorems are stated about it, and `Typing`, which `FrontEnd` uses, is recursive.  The end of
`Passes` names what each pass counts on without checking it, of the code (`ReadsResults`, `Covered`, `Indexable`,
`LoadsOnce`, `IsSSA`, `NoPhi`) and of its runs (`WellRun`, `ReadsSet`, `MayMerge`); `StraightLine`
is code without branches as the generator makes it, of fewer than 256 temporaries (`Narrow`), `Regular`
such code whose runs go well.
The tables of `constant_propagation` have one entry too few for the temporaries they are used with, which
count from 1; `RoomBehind` works out from the arena whether the entry behind the last is memory of
nobody else, and `Table` is the entries that are.
`MCCompiler` adds two ghost variables: `rounds`, and `blame`, the passes that met code outside what they handle:

* `Separable`: a PHI has an operand that is not set before its branch (else
  `return_lifting` and `remove_phi` put both copies before the branch);
* `Mergeable`: of two equal instructions, the first is on every path to the second
  (else `value_numbering` reuses a value that was not computed);
* `ConstantsFixed`: no temporary that is set twice holds a constant (else
  `constant_propagation` uses the constant of the other half).

The code does not check these conditions, and programs exist that break each; the
properties say that each pass is right under its condition, that nothing else goes
wrong, and that functions without `if` are always compiled right.

**`BackEnd`, `X86`, `MIPS`, `PPC`, `Machine`.**  A back end's text is a sequence of
instructions of one small machine, the target's own mnemonics replaced one for one.
`register_map` is the file-static table of scratch registers: an operand that lives in
the frame is loaded into one, and a result that lives there is stored from one.  `frame`
of `x86.c` is the distance of the frame's top from the stack pointer while arguments are
pushed.  `Machine` knows which registers and words a callee may overwrite, and makes
every call overwrite all of them.

**`Gal`, `PDP8`.**  The back end writes statements, each of which is one call of
`assemble_once()`; a statement carries, besides what the assembler reads, what its operand
was meant for, so that the assembled words can be compared with it.  `functions`, `labels`,
`data` and `consts` are the tables of `pdp8.c` with their memory of the page a link was made
on; `command_num` counts the words of the page.  An index is printed in decimal where a link
is defined (`Dec`) and in hexadecimal where it is used (`Hex`).  `Gal.at` is a ghost: where
each statement began.  A statement whose first name is unknown goes to `backpatch` with its
place and base; after the source has ended, `Again` assembles it there.  What the
instructions compute is not modelled (the repository's own README calls this target
broken): the properties are about what they refer to.

**`BuildDriver`.**  `pc` names the place in `main`, `build_examples` and `run_file`; loops
over entries and targets are `at`, `row` and `target`.  `child` is the program under test or
the emulator, `pipe` what it has written and the driver has not read; a full pipe stops the
one, an empty one the other, and a pipe without a reader ends the writer.  A call of the
system that the code checks, or asserts, may fail (`Refusal`); so may `popen()`, which the
code does not check.  Files that a program prints to are cut at `FileSize`, as `putc()` is
not checked.  Between two calls the sources may change (`Edit`), which makes the tools old.
How an example behaves on a target is a constant: it builds there or not, prints a text, and
exits, falls silent, or repeats its last character for ever.

**`Arena`, `DynamicArrays`.**  `taken` is a ghost: everything the arena has handed out.  A
growing array copies its elements and leaves the old buffer where it is; `held` are
addresses of elements that somebody keeps (`current_function` in `codegen.c`, `def` and
`vars` in `parser.c`), and `StoreHeld` stores through one, whatever became of the array.

**`HashTable`.**  A removed key is overwritten by zero bytes in its slot, which makes the
slot one of the empty string; parameters without a name put and remove the empty string as
well.

## 3. Runs

| run | module, cfg | what it shows |
|---|---|---|
| `front_end` | `MCFrontEnd` | 458 programs, and 424 texts that are not quite one: the parser inverts writing, and whatever moves meanwhile its pointers lead outwards and into the tree; names are typed by their scope and what passes is sound; well-scoped programs get code that means what the tree means and are never refused; temporaries and labels are used once; operand stack bases survive; generation ends |
| `passes` | `MCCompiler` | 580 programs: each pass keeps meaning and gets the code that the theorems about it ask for, the loop settles, code for the back ends is in form, straight-line functions come out right |
| `fold_temporaries` | `MCFoldTemporaries` | all codes of up to 3 instructions over 3 temporaries: the loops implement `RegisterAllocation` and agree with the operator that `Compiler` uses |
| `targets` | `MCTargets` | every operation with every operand in a register and in the frame, functions and calls of up to nine arguments, on three targets: the text does what the TAC means, callers are left as they were, scratch registers suffice |
| `pdp8` | `MCPDP8` | programs whose constants, jumps, calls and strings meet the end of a page at every offset, and sources written by hand: every operand reaches what it is for and has the mnemonic for it, words do not overlap, what is assembled again is as it reads, and only named cases are refused |
| `build_driver` | `MCBuildDriver` | two calls of the driver over examples that print right, wrong, less, more, nothing or for ever, with tests and without: the table tells the truth, references are what was printed, and the driver returns |
| `arrays` | `MCDynamicArrays` | two arrays in one arena: allocations are disjoint, in their block and aligned; the arrays implement `Lists` |
| `tables` | `MCHashTable` | colliding keys put, removed and looked up in any order implement `KeyValueMap` |
| `constant_tail` | `MCCompilerTail` | *violation*: a function `(if false 1 2)` returns 1 |
| `shadowed_parameter` | `MCFrontEndNames` | *violation*: `assert(found)` fails on a well-typed program |
| `x86_spilled_result` | `MCTargetsX86` | *violation*: a call with arguments whose result lives in the frame is stored while the frame is moved, into an argument's word |
| `ppc_saved_register` | `MCTargetsPPC` | *violation*: a PowerPC function saves a nonvolatile register in the word where the function it calls saves its return address |

**What is stated about reading.**  `ParsedRight` compares the parser with `SourceLanguage`: a text
that is accepted is, spaces aside, the text of the tree, and a written program is accepted
and comes back as itself, unless the file does not end in white space.  Texts are the
programs, packed as tightly as tokens allow, some of them with white space everywhere, some
without any at the end, and one program of every form with each of its items
removed or replaced.

**What is stated about the PDP-8.**  `Reaches` and `NoOverlay` follow the assembled words.  `Reaches`
also asks for the mnemonic that goes with what the operand stands for (`Verb`): constants and addresses
are read, labels jumped to, functions called.  It excepts a function that is loaded into a register, whose
link the text calls instead of reading it (`LoadsFunction`; `JMS` at `pdp8.c:620`, `TAD` at `pdp8.c:582`), and
the words behind a short constant.  A label is no word (`Words`), and programs fill a page as far
as the code lets them, where one word more would be one too many for `NoOverlay`.
`OnlyExcused` lists what is refused: `exit`, `<` with 0, more than ten entries of a table
(the two spellings of an index part there), functions that nobody defines or that come on a
later page, registers past page 0, and in sources written by hand the errors of the source
and a definition that waits for a later one.  `Backpatched` excepts a later term that is not
known (`TakenForMinusOne`), which the assembler takes for -1 without a word.

**What is stated about the driver.**  `Truthful` says what every printed table and every
reference written means.  `DriverReturns` is liveness: however the two processes interleave,
the driver comes back, except that a program that never ends may keep it (`Endless` says
which ones do: nothing limits the time), that it is killed when it writes to an emulator that
is not there, and that it crashes when it is refused what it does not check.

**What is stated about the passes.**  Each property of a pass (`UnusedKept`, `ConstKept`, `VNKept`,
`FoldKept`) also says that the hypotheses of the theorem about that pass hold of the code it gets:
those about the code always, those about its runs as long as no return was lifted and no pass met
code that it does not handle (`Runs`).  `UnusedKept` says of functions without `if` that each round
begins with straight-line code whose runs go well, which is what `OptimiserKeepsMeaning` is about.
`ConstKept` says `Indexable`: that `constant_propagation` uses no entry of its tables but those in memory
of its own.  Strictly the tables are one entry short (`tac.c:264`): every function with a temporary reads and
writes `is_constant[count_temps]` and `constant_value[count_temps]`.  What saves it is that
the arena pads: that entry is in the same block and nobody else's for every number of
temporaries except 256, for which `constant_value[256]` begins where the block ends (`RoomBehindTables`).
No code of the run has so many, and nothing is promised of one that has.

**What is stated about types.**  `TypedByScope` is an equivalence: a program passes in
silence exactly if a reference that carries an environment down the tree (`Static`) types
it.  It is stated where nothing is declared inside a call (`CallsPlain`), nothing was compared with what
lies behind a buffer (`Sure`), no name stands
where `extract_types` would take it for a type (`NamesApart`) and types are known names
(`TypeNamesKnown`).  `TypesSound` runs the trees of programs that passed (`Quiet`) and
whose lets have the type they say (`LetsRight`; nobody checks them): numbers are
returned where `i32` is declared, and no string is passed for a number.

**Exemptions in `targets`.**  `Mishandled` and `Unconventional` name what the back ends
get wrong (a call's result in the frame, a call through a temporary in the frame, constants
of more than half a word on PowerPC and, returned, on MIPS, saved registers on PowerPC, and
arguments that PowerPC loses), and everything else must come out right.  The violation runs show two of
them on one small function each.  The last, `ArgumentLost`, is what the comment at `ppc.c:38-40` says
"might break": r10, r9 and r8 are scratch registers and those of the eighth, seventh and sixth argument.  An
operand that lives in the frame is loaded over an argument that the function has not fetched
yet, or that is already there for a call, and a ninth argument goes to r11 (`ppc.c:21`), where
no callee looks.  `Loaded` counts which of the three an instruction takes.  Every function of the run
that it exempts does go wrong, but for a spilled result that is the eighth argument of the
call: its old value is loaded, and loaded where it belongs.

**Bounds.**  *Front end and passes*: words are 3 bits wide, so wrap-around and sign still
occur; inputs make every condition come out both ways.  Program shapes are enumerated
rather than random: an `if` as last expression, as an argument, as a condition, inside an
`if`, with every pair of variable, constant, computed and called branch; several functions,
nested ones, more than the first buffer of functions holds.  *Register folding*: three
instructions are enough for a temporary to be live across another and for ranges to touch.
*Targets*: two temporaries more than the target has registers, so that each operand can be
in a register and in the frame; six arguments, so that some come on the stack on x86 and
MIPS, and seven to nine, more than PowerPC has registers for beside its scratch registers (`Wide`); 12-bit words, whose halves stand for the 16-bit immediates, and constants on both sides of
a half.  *PDP-8*: code is pushed over the end of the first page by 0 to 40 words and over that
of the second by 140 to 165, so that each reference is the last of its page once; tables of
ten and eleven entries.  *Driver*: pipes of one character (`PipeSize`), so that every write
may wait; references of up to four (`FileSize`), longer than what an example prints; one refusal
(`MaxRefused`); two calls (`MaxCalls`), so that a reference written by the first is
compared in the second.  *Arrays*: elements of
two and six bytes and blocks of 36, so that arrays grow (`MaxLen` 5, one more than the
first capacity), blocks fill up and an allocation does not fit the usual block; one kept
address (`MaxHeld`).  *Tables*: two buckets of three slots (`MaxSlots`); two of three names
and the empty string collide.  Deadlock is not checked because compiler and assembler end, because the driver may crash,
be killed or be kept for ever (which `DriverReturns` limits), or, in the arrays and tables,
because a bound is reached.

**Fairness.**  `ReadSpec` has weak fairness of `Parse` and of `Generate`: a sequential C
program that can take a step takes it.  The two typing stages are single calls and need none;
`Terminates` says that reading and generation, once begun, end.  `BuildSpec` has weak fairness
of `Driver` and of `Child`: the system runs both processes, and a step that is enabled stays so
until it is taken; nobody has to call the driver or to edit sources, so `Start` and `Edit` have
none.  That the optimisation loop ends is
stated as a bound on its rounds (`Settles`), which needs no fairness.

**Comparison with the program.**  The programs of `front_end` and `passes` were also
given to a build of the compiler: the verdicts of typing and generation, and the TAC
that `-t debug` prints, are those of the models.

## 4. Proofs

`CodegenProofs` proves, for every program that can be parsed, three promises of `codegen()`:

1. a handler leaves what the nodes around it have on the operand stack as it is, so that an
   operand is still there when its operation comes to take it (`OperandsKept`, an action
   property over every pending node);
2. the assertion of `codegen.c:275`, that a node leaves no less than its base, never fails
   (`NeverTooFew`);
3. no temporary is set by two instructions, in one function or in two, as long as the 16-bit
   counter does not wrap around (`TemporariesSetOnce`).

Assumptions: `ProgramsAssumption` and `NodesAssumption` (trees are what `parse()` builds:
lists of nodes where the kind has them, a value for every name that a `let` binds), and
`BodiesAssumption`: a function that returns something has a body.  `typecheck()` reports
those that have none, but does not look into the values of a `let`; such a function pops the
operand of the node around it, and nothing is promised of its program.  The third theorem
has `Room` as its hypothesis: before each step, the counter and the temporaries which that
step takes (`Taken`) stay below 65536.  The code does not check it.

The invariants are `WInv` (each item of the control stack carries what its kind needs),
`SInv` and `NInv`.  A base is not kept because of what one handler does but because of what
all pending ones will do; so `SInv` says that the rest of the work *runs*: there are heights, one
before each item, such that each finds what it pops above every base still to come
(`Heights`, `Runs`).  Runs compose (lemmas on `Runs` of concatenations) and may be
raised, as a handler that pushes more than it must does no harm.  `NInv` says that
temporaries that code already sets are below the counter, apart from each other (`SetOnce`),
and apart from those that pending items have reserved: an `if` takes its three
temporaries before its branches are generated and sets them after (`ReservedOnce`).  What
makes it hard is that a write goes to the buffer that `current_function` points into, which
may be an old copy: `HeapOK` says that the pointer leads into a buffer of code, and that
writing there changes at most one function of the current one.

`PassesProofs` proves that the passes keep what a function's code means (`Meaning`: for each set of
inputs whether it returns and what, and the calls it makes, in order), for every code, every table of
symbols, every word width and every set of inputs:

1. `remove_unused`, of any code in which nothing reads "no result" (`UnusedKeepsMeaning`).  A temporary
   that is mentioned once is not read, so the machines of the two codes agree on all registers but
   unused ones (`SameUsed`), instruction by instruction; taking `NOP`s out changes no run (`NopsGone`);
2. `constant_propagation`, of code in which a temporary that is loaded a constant is set nowhere else
   and whose tables have, or find in the arena, room for what they are used with (`Indexable`;
   `PropagationKeepsMeaning`; there is room for every number of temporaries but 256, `RoomBehindTables`), branches, PHIs and words that wrap around included.  The invariant of a
   run is that a register holds the constant which the table has for it, or is not set yet
   (`LoadsAlwaysHold`); `FoldExecutes` goes through the rewritings of `Fold`, and `Sums` shows that
   folding full numbers and cutting the result is adding words;
3. `value_numbering`, of code that sets each temporary once (`NumberingKeepsMeaning`), if a run that is at the
   later of two equal instructions was at the earlier (`MayMerge`).  The two results are the same
   from then on (`MergedAgree`), because what they were computed from is not set again
   (`Persists`);
4. any renaming of temporaries that separates what is in use at one time, in code without PHI that
   reads nothing unset (`RenamingKeepsMeaning`).  This is what the specification `RegisterAllocation`
   promises, and `fold_temporaries` as an operator is one (`GreedySeparates`, `FoldKeepsMeaning`): it
   gives each temporary the smallest register that fits, which there is exactly one way to do
   (`GreedyUnique`, `PaintingExists`);
5. the whole optimiser, on straight-line code (`OptimiserKeepsMeaning`): for every IR, at every step,
   each function that was `Regular` when it was given means what it meant then, however many rounds
   the loop takes and whatever other functions are like.

The hypotheses are those that `Passes` names, and the runs of `passes` check that the code which the
passes get meets them.  Three can fail in compiled code with branches: a constant may be set twice (the
finding `constant_tail`), an equal value may come from another branch (`Mergeable`), and once a
return is lifted, code no longer sets each temporary once, so that the third theorem says nothing and
`VNKept` is only checked.  Of `StraightLine` code `StraightConditions` proves them all but `WellRun`.  For
the fifth theorem that is not enough, as what one pass leaves is what the next gets.  Its
invariant, `OptimiserInv`, is that code which is not finished is `Regular` still, and the hard part is
that each pass keeps it so (`PropagationStays`, `NumberingStays`, `UnusedStays`): a folded
instruction reads no more than it did; an operand that is put in for another was set before and has its
value; and when instructions are taken out, a map from those that stay to where they were
(`Embeds`) keeps their order and the machines before them (`Meets`).  `return_lifting` and `remove_phi`
have nothing to do on such code, and with branches they are only model-checked.
All of this is by induction over positions in the code, which needs no theorem with an operator as
parameter: a set of natural numbers has a smallest member (`Smallest`), so a set that contains 0 and, up
to `n`, the successor of each member contains all of `0..n` (`UpTo`).
Assumption: `WordPositive` (2^`WordBits` is a positive number, which the provers cannot compute).

`FoldTemporariesProofs` proves, for every `MaxTemp` and every set of codes whose
operands are set somewhere, that `fold_temporaries`

1. keeps its types: tables are indexed where they were allocated (`TypeCorrect`);
2. never runs out of registers (`RegistersSuffice`);
3. separates temporaries with overlapping spans (`ColouringSeparates`);
4. implements `RegisterAllocation` (`AllocationImplemented`);
5. ends with exactly the code that the operator of `RegisterFolding` gives (`OperatorAgreed`);
6. so keeps what the code means, as above (`AllocationKeepsMeaning`).

Assumptions: `MaxTempAssumption` (a natural number) and `CodesAssumption` (sequences of
instructions in which no operand is numbered above every result; the code generator
numbers operands as results, and no pass removes the setter of an operand that is read).
The invariant `IInv` is a conjunction with one part per loop.  None of the properties is
inductive alone: that a register is free needs `ColourInv` (the t-th temporary got one of
the first t registers, so its neighbours hold at most t-1 of them); that the map separates
needs the graph to be complete (`GraphInv`), which needs ranges that enclose every
mention (`UsageInv`), which needs tables that are large enough (`CountInv`).  There is one
lemma per action; the refinement maps the step out of the last loop to the abstract step
and all others to stuttering.  For the last two, that the tables bound what they should is not enough:
`ExactInv` says that the count is a result and not more (`HighestInv`), that the ranges end at
mentions (`EndsInv`), and that each register below the one a temporary got is taken by a
neighbour (`LeastInv`), which makes the colouring the greedy one.

`TargetsProofs` proves for the three back ends, for every IR of the shape that the compiler
hands over, that the assertions on the table of scratch registers never fail
(`ScratchRegistersSuffice`), and that what a back end tracks along the text instead of along
the execution is right at every jump and every label (`TrackedAlongText`: no argument is in
the middle of being pushed there, and the x86 frame is where the prologue put it).
Assumptions: `TargetsAssumption`, and `UnitsAssumption`, the form of the IR: instructions
with natural operands, arguments passed immediately before the call that they are for and
nowhere else (`Paired`), for MIPS (`Supported`) no `NOP` and for PowerPC no argument behind the ninth, where
those back ends give up (`TODO()`), and for PowerPC a first instruction that reads nothing.  `BackEndReady` checks on the runs of `passes` that
compiled code has this form.  The invariant is `PlaceInv` (where the loop stands), `ScratchInv` (between
two instructions only PowerPC holds scratch registers, one from the prologue of the file and
one from that of the function, `InUse`) and `PassedInv`, which ties the count of arguments
(MIPS, PowerPC) or the frame (x86) to the distance to the call being prepared (`Passed`);
`PassedStep` carries that over an instruction, and `PassedAt` says that at a jump or label it
is nothing.

`ParserProofs` proves, for every text, that while `parse()` runs (`ParserLinks`)

1. a pointer to a parent leads to a node with a smaller number, so that whoever follows such
   pointers arrives outside; nodes of one number are copies of each other and have one parent
   pointer (`Climbing`); the nodes in an array of a node point to that node or a copy of it, and
   no number occurs twice among them (`ChildrenPoint`, `Outermost`);
2. the address that a call of `parse()` keeps of its own node is the last entry of the array
   around it, so that nothing is written into a copy that was left behind (`FillsTheTree`).

Only `TextsAssumption` is used (there are texts, none of them empty).  The invariant `PInv` is
`MemoryOK`, about all nodes in all buffers, old ones included, and `StackOK`, about the calls
that wait.  Why an append through one address does not spoil what another refers to is
not visible in either part of `LinksRight`: an array is appended to in place only if nothing lies
behind its last entry (`Full`), and no two waiting calls append to one buffer (`Apart`).  The
latter holds because the last entry of the buffer would have both their nodes as its parent, while
the numbers of the nodes increase along the stack.  A type that is read before it is put into its
node (`Frame.local`) must already fit there: its entries point to the node and have numbers
that none of its children has (`LocalOK`).  There are lemmas for what an append does to memory
(`AppendedGrows`, `GrownMemory`), for storing the array back into its node (`Placing`), for a pair
added to a node (`PairAdded`) and for pushing and popping a form (`Pushed`, `Popped`); every
action is one or two of these.  TLC checked `PInv` on the states of `front_end` before it was proved.

`DynamicArraysProofs` proves, for every block size, every set of arrays and element sizes,
that allocations are disjoint (`AllocationsDisjoint`), lie inside their block
(`AllocationsInBlock`) and are aligned to their own size (`AllocationsAligned`).
Assumptions: `BlockAssumption` (a positive block size) and `ArraysAssumption` (positive
element sizes).  The invariant `AInv` adds to the three that every allocation lies below
the mark `allocated` of its block (`Marked`), which is what makes the next one disjoint
from it; `ArraysInv` says that capacities are natural numbers, so that the sizes asked
for are positive.

It also proves that the arrays implement `Lists` (`ListsImplemented`), for every arena,
every set of arrays and element sizes and every content of fresh memory (`Garbage`): an
append, a pop, or a store through an address kept from before, does to one list what it says
and nothing to another, although lists lie byte by byte in one memory and old buffers stay.
The invariant `RInv` adds to `AInv` the shape of each array (its length is at most its
capacity, and its buffer is an allocation of that many elements or, before the first, none),
that each list's elements lie in its buffer, that kept addresses are addresses of
elements, and that every allocation belongs to one array alone (∃ owner).  The owner is what the
code never writes down: an old buffer is still its array's, which is why a store through an old
address cannot reach another list.  Each action is an append in place, an append with
growth, a pop or a store, and maps to one step of `Lists` or to none.

`HashTableProofs` proves, for all keys, values, hashes and table lengths, that a name is in
at most one slot (`TableCorrect`) and that the table implements the map
(`TableImplementsMap`).  Assumption: `TableAssumption` (the empty string is not among the
names looked up, and hashes are natural numbers).  The invariant `TInv` is the type of the
table and `OneSlot`; from it, lemma `ValueIn` says what the map holds for a key
that has a slot, and each operation is shown to change the map at its key only.

`BuildDriverProofs` proves `Truthful` (`DriverTruthful`) for all directories, examples, tests,
banners, pipe and disk sizes, refusals and interleavings: a printed table has one row for each
example; a cell tells whether the example builds for the target, has a test, and prints what the
test says or more (on the PDP-8 after the banner, in capitals and without carriage returns),
also if the program never ends; and gen-test leaves in a test what the last target that built
prints.  Assumption: `BuildAssumption`, the types of the constants, that a directory names no
file twice, that no character is the mark of an absent file, and that the banner of the emulator is
two lines, which is what `run_file` skips.  The invariant `BInv` is

* `BTypeOK` and `Tooled` (both tools were built before examples are);
* `RowsRight` and `InPlace`: the rows above the present one are the examples met so far, each once, and
  no example's name stands below; the row of an entry that is no example is left to the next;
* `CellsRight` and `TestsRight`: the cells filled so far agree with `Verdict`, the tests with what
  the targets built so far leave (`Left`);
* `Conversation`: there is a number `c` of characters that came through the pipe, such that the pipe
  and what the other process has yet to print are the next ones of its output (`Stream`), and, by
  the place in `run_file`, so many of them are banner (`Greeted`), copied (`Copied`) or compared
  (`Compared`: what is missing from the reference has been met, in order, by the characters that
  count, `Heard`).

`Truthful` alone is not inductive: a verdict is given when the reference ends, from nothing but that
one text is used up, and what it means lies in the whole conversation, of which the code keeps no
trace; `c` is that trace.  The other process moves characters from `child.left` to `pipe`
(`ChildKeeps`), the driver takes them out (`ReadStep`); `ReturnKeeps` carries a verdict into the
table, `AgreesKept` and `CellKept` say that the verdicts given before stay right while it goes on.
TLC checked `BInv` on the states of `build_driver` before it was proved.

Not proved, only model-checked:

* what lexer, parser, typing, code generator, the machines and the assembler compute, and that code
  means what its tree says (`ParsedRight`, `TypedByScope`, `TypesSound`, `GeneratedRight`,
  `CompiledRight`, `BackEndReady`, `RightText`, `CallersKept`, and those of `MCPDP8`): these are defined
  by recursion over trees, code and text, and the library's induction theorems cannot be used with the
  provers here; `Gal` uses bit operations;
* `LiftKept` and `PhiKept`, about `return_lifting` and `remove_phi` where there are branches, and so the
  optimisation loop on such code: that a copy behind an operand's setter is made on the right path
  depends on how blocks lie in the text (`Separable`);
* that generated code meets the hypotheses of `PassesProofs` (but for single assignment, which
  `TemporariesSetOnce` proves): that numbers are added depends on the types, and `Typing` is recursive;
* that the loop settles (`Settles`), which is about how many rounds it takes;
* `OnlyWrongRefused` and `SingleExitJump`, which are about the programs of the runs (that they are
  scoped well, that no buffer of functions was left behind);
* liveness (`Terminates`, `DriverReturns`).

## 5. What is left out

`src/src/targets/debug.c` and the printing of trees (text only, no state) and
`src/src/stack-ir.c` (not compiled into the program).  Command line of `main.c`.
Of the driver: the functions that are not compiled (`c2o`, `build_c`, `link_`), descriptors
that the emulator's branch leaves open and children it does not wait for, what an emulator
that is left to itself does, and the emulator reading its commands in parts.
Of the assembler: characters of the source, places in messages and the tape image; of the
PDP-8's library only the names it defines and where it ends.  Lines and columns of tokens,
and an empty file, whose length wraps around.  Formatting of assembly and messages, escapes in strings, symbols and the data section of
the assembly. Failing `calloc` (the program does not check) and
`arena_destroy` (memory is freed when the compiler ends). `hm_rem`, which nothing calls,
and look-ups of the empty string, which the compiler never makes. `get_type`, which
nothing calls, and `print_type`, which only prints. Integer width is a parameter of the
semantics, not of the immediates that the passes compute with beyond it.

## 6. Plan

1. (done) `TAC`, `TACSemantics`, `Codegen`, `Passes`, `Optimiser`, `Compiler`, `FoldTemporaries` and its proofs.
2. (done) `Typing`, `FrontEnd`.
3. (done) `X86`, `MIPS`, `PPC` and the machine they write for.
4. (done) `Arena`, `DynamicArrays`, `HashTable` and their proofs.
5. (done) `Lexer`, `Parser`, `SourceLanguage`, `Reader`.
6. (done) `Gal` and `PDP8`.
7. (done) `BuildDriver` and its proof.
8. (done) Proofs: `DynamicArrays` implements `Lists`; scratch registers and frame of the back
   ends; operand stack and temporaries of the code generator.
9. (done) Proof: parent pointers of the parser, step by step and without recursion over the tree.
10. (done) Proof: all of `Truthful`.
11. (done) Proofs about what code means: `remove_unused`, `constant_propagation`, `value_numbering`
    and `fold_temporaries` keep what a function computes, and so does the whole optimiser on
    functions without branches.
12. (open) The same for `return_lifting` and `remove_phi` on code with branches, which needs the
    shape of the blocks that `GenIf` makes (`Separable`, `SingleExitJump`) as an invariant; that
    generated code is `Regular`, which needs the types.

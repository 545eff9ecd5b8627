# pylite in TLA+

pylite is an interpreter for a Python-like language, written in C: a lexer and a one-pass
recursive-descent parser that writes bytecode as it reads (`src/src/lexer.c`,
`src/src/parser.c`), a stack machine that runs it (`src/src/vm.c`), an object system
(`src/src/types/`), a mark-and-sweep collector (`src/src/gc.c`) and a C API (`src/src/api.c`).
It is single-threaded. What is hard about it is not concurrency but trust: the loop of the
machine checks nothing. It pops operands, takes jumps, casts objects and keeps addresses because
the parser, or an earlier step of its own, is believed to have made that right, and a mistake is
noticed calls later, if ever. These modules write those beliefs down, check them on small
instances with TLC, prove the central ones for all instances with TLAPS, and show where the code
does not keep them.

All paths below are relative to the repository, whose root is `src/`; `vm.c:667` is
`src/src/vm.c`, line 667.

## 1. Inventory

| component | state | operations | talks to |
|---|---|---|---|
| Lexer (`lexer.c`) | input position, indentation stack, pending DEDENTs | next token | parser |
| Parser, code generator (`parser.c`) | token, the code object being written, loop depth, scope chain | one function per grammar rule; jumps are patched in place | lexer; writes code objects |
| Bytecode loop (`vm.c`, `vm.h`) | `ctx->ip`, operand stack, frame vector, handler stack, `params_offset` | one `case` per opcode | everything |
| Call binding (`func_call_check`, `function.c`) | the arguments on the operand stack | complete, check, assign parameters | loop, dicts |
| Exceptions (`pylt_vm_except_check`, `api.c`) | `I->error`, handler stack | arm, drop, raise, catch, traceback | loop; builds exceptions by a nested run |
| Collector (`gc.c`, `intp.c`) | white, grey, black sets | add, collect, free all | every allocation, all roots |
| C API (`api.c`) | none of its own | `pl_call`, `pl_error`, nested `pylt_vm_run` | loop |
| Object protocol (`object.c`, `objectE.c`, `custom.c`, `type.c`) | attribute dicts, base links | attribute lookup, operators, instantiation | loop, dicts |
| Containers (`list.c`, `tuple.c`, `dict.c`, `set.c`, `khash_obj.h`) | arrays, hash tables | get, set, insert, remove, slice, iterate | loop, collector |
| Numbers (`number.c`, `bool.c`) | none | arithmetic, comparison | loop |
| Strings, bytes (`string.c`, `bytes.c`) | cache of strings | escape, format, search, slice | lexer, loop |
| Iterators, ranges (`iter.c`, `range.c`) | index or bucket | next | loop |
| Binding of C functions (`bind.c`, `pybind/`), standard modules (`mods/`) | registration tables | argument checks and calls of the above | loop |
| I/O (`utils/io/`, `mods/io.c`), shell (`shell.c`), utilities, vendored code (`deps/`) | stdio | | |

How they interact. The parser calls the lexer for each token and appends instructions to the code
object on top of its scope chain. The loop shares one operand stack among all calls and one
vector of frames; a call of a pylite function pushes a frame and goes on in the same loop, while
a class, a property, an operator of a user class, an import and the construction of an exception
run a nested loop on the same stacks. Errors are a field of the interpreter, `I->error`, looked
at between two instructions. Every new object is handed to the collector, which finds its roots
in the stacks, frames and reference tables.

What is hard, and what makes each part correct:

* *Operand-stack discipline.* Every instruction finds its operands, of the kinds it casts them
  to; a call replaces callee and arguments by one value. Nothing checks it at run time.
* *Jump patching in one pass.* Forward jumps are written with a placeholder and corrected when
  the target is known, `break` and `continue` by a scan, `if` chains by a linked walk over the
  operands themselves.
* *Exceptions.* A handler keeps the address of its frame in a vector that may be reallocated, and
  a stack height that is not recorded at all.
* *Call binding.* One pass over the parameters with two counters, the top of the stack moving
  under them, and a pointer into a stack that may be reallocated.
* *Uncounted operands.* The self of a method and what `*x` unpacks are counted at run time in one
  variable that the next call takes, whichever call that is.
* *Collection.* What is reachable must survive, what was released must be in none of the sets,
  and marking allocates.
* Numbers and containers: widths, rounding, boundary indices, mutation during iteration.

`PROJECT.json` lists these at their lines under "hazards", with the properties that cover them.

## 2. The modules

| module | models |
|---|---|
| `PyLiteVM` | the loop: operand stack, frames, calls, return, jumps, iterators, handlers, raising and catching; the frame vector with its capacity and reallocation |
| `PyLiteVerified` | the contract between parser and loop: the *shape* of a tame program (operands, known values, armed handlers and room in the frame vector at each instruction), what code must satisfy to have it, and what then holds of the loop |
| `PyLiteCompile` | the code the parser emits for statements, with its patching |
| `PyLiteSource` | what the statements mean: sequences of events, and how the statement ends |
| `PyLiteIfChain` | the patching of `if`/`elif`/`else` in detail, variable by variable |
| `PyLiteCall`, `PyLiteCallSource` | the instructions that collect the operands of a call; the code emitted for call expressions, and their meaning |
| `PyLiteBinding` | BC_CALL from the collected operands to the assigned parameters |
| `PyLiteGC`, `PyLiteHeap` | the collector; the heap that it implements |
| `PyLiteLexer`, `PyLiteTokens` | `pylt_lex_next`, character by character; what the tokens, blocks and line numbers of a text are, said without a machine |
| `PyLiteExpr`, `PyLiteEval` | the parser of expressions, assignment and `del`, from tokens to instructions; their execution, and the meaning of the trees they were written from |
| `PyLiteNames` | `func_scope_check`, closures, the frames of functions, class bodies and imports, and the load of a name |
| `PyLiteObjects` | attributes: types, bases, instances, properties, the self of a call |
| `PyLiteHash`, `PyLiteMap` | the hash table of dicts and sets with its iterators; the partial function that it implements |
| `PyLiteDict` | the same partial function, for the modules that only use dicts |
| `PyLiteList` | lists in their memory, and the slices of all sequences |
| `PyLiteNumber` | arithmetic, comparison, hash and printing of numbers |
| `PyLiteString` | escapes, repr, the operator `%`, searches |
| `PyLite*_proofs` | theorems: of `PyLiteVerified`, `PyLiteGC`, `PyLiteBinding` and `PyLiteCall` each in one module; `PyLiteContainers_proofs` (hash tables, lists), `PyLiteValues_proofs` (text, numbers), `PyLiteLookup_proofs` (attributes, names), `PyLiteFrontEnd_proofs` (if chains, lexer) |
| `MC*` | instances for TLC |

**State and actions.** In `PyLiteVM` the variables are the fields of `PyLiteContext` (`vm.h:87-93`)
and `I->error`; an action is one `case` of the loop (`ForIter` is `case BC_FORITER`), with the frame
pushes and pops that it calls, and `CatchError`, `CatchRunsOff` and `Traceback` are the three
outcomes of `pylt_vm_except_check`. A frame has an address (`buf`, the allocation, and its index),
so that a handler's stale address is one that no frame has. Undefined behaviour (a pop of an empty
stack, a step of the null pointer that `NEW_OBJ` pushes for what is not iterable) leads to the
status `wild`, from which nothing more is claimed. `id` names the program; it never changes. `trace`
is a ghost: the events a user can see (a print, a tested condition, an iterator that yields or is
exhausted), with values and outcomes chosen freely where they do not matter.

`PyLiteCall` has `params_offset` and the operand stack; its status `astray` is a CALL with a
callee that the program does not name, or a cast of what is no dict. `PyLiteBinding` follows
`func_call_check` line by line: `args`, `args_i`, the stack with its allocation, and the
parameters still to come. `PyLiteGC` has the three sets and what refers to what (`child`, what
marking follows; `part`, what belongs to an object whether marking follows it or not); the
program's steps (make, hold, drop) interleave with collections, and a collection is the steps of
`pylt_gc_collect` to its end. `PyLiteIfChain` keeps the parser's own `tmp`, `tmp2`, `tmp3`.

`PyLiteLexer` has the fields of `LexState`: the layout (`current_indent`, the stack `indent`, the
brackets), the reader `in` with the buffer through which look-ahead is replayed, and the token in
progress; a step is what happens between two reads of a character, and `out` is a history of
the tokens. `PyLiteExpr` has no variables: a parse function is an operator on the parser's state,
which is a record of the fields of `ParserState` (`lval_check`, `disable_expr_tuple_parse`, the
code so far). `PyLiteEval` writes a tree out as tokens, parses them and runs the instructions one
by one on a stack of symbolic values, with the calls and stores made as a log.

`PyLiteNames` has the frames with their scopes and the function objects with their closures; an
action is an instruction on names, or the start or end of a body. Which body a unit has is chosen
when it is first reached, so that every combination is met once. `PyLiteObjects` has the types
with base and attribute dict, and the instances. `PyLiteHash` has the fields of `kh_..._t`
(`n_buckets`, `flags`, `keys` and `vals`, `size`, `n_occupied`) and the locals of a rehash in
progress, which moves one entry per step within its own arrays; a call of `dict.c` or `set.c` is
an action that starts and ends at `idle`. `PyLiteList` has the memory that is allocated, the
size that the code believes, and the sequence the list should hold. `PyLiteNumber` computes: an
accumulator takes the result of one operator after another, next to what it should be.
`PyLiteString` has the buffer of `repr` or of `%` being written, one turn of the loop per step.

**How they fit.** `MCPyLite` compiles trees with `PyLiteCompile`, runs the code in `PyLiteVM` and
compares events with `PyLiteSource`: *Conforms* is a property of parser and loop together.
`MCPyLite` also derives a shape for each tame program, by following control through its code, which
`PyLiteVerified` assumes and TLC checks; only what no code of one function shows (how deep it runs,
whether its callers may have handlers armed, how large the frame vector is before and after) is
given, as `MCSignatures`. `PyLiteVM` binds arguments by position only; `PyLiteCall` ends where a
call has its operands and `PyLiteBinding` begins there. `PyLiteEval` is to expressions and
assignments what `MCPyLite` is to statements: parser and loop together, against a meaning.
`PyLiteNames` and `PyLiteObjects` use `PyLiteDict`, whose promise `PyLiteHash` keeps (as
`PyLiteMap`). `PyLiteGC` and the lexer stand alone.

`MCContainers`, `MCFrontEnd` and `MCLookup` hold several machines that share no state. A behaviour
runs one of them (`part`) and leaves the others parked at a fixed state, so that the instances add
up and do not multiply, and the invariants of a parked machine hold of that one state.

*Tame.* Several pieces of this code are right only on a part of their inputs. There a model says,
in an operator of its own (`Tame`, `exact`, `Disciplined`, `Reasons`, `causes`), where that part
ends; the property says that inside it the code does what is meant, and outside it the model
follows the code to where it goes wrong. What lies outside is in section 5.

## 3. What is checked

Runs that pass:

| run | instance | shows |
|---|---|---|
| `statements` | modules with loops two deep, `break` and `continue` in every place, `if` chains, 14 functions called in, around and under expressions and loops, with 0 to 2 arguments; 7 events, 5 frames; all tame | `IInv`: operands, frames and iterators are what the contract says, and nothing goes wild; `Conforms`: the code does what the source means; `Stops`; `CallerKept`: a return leaves the caller's operands and one value |
| `exceptions` | `try` in a module and in functions, in and around loops, nested, with one to three `except`s and every way to raise, calls in a `try`; 6 events, 5 frames; tame programs and wild ones, a `for` over an int among these | `IInv`: the same contract with handlers; `Conforms`, `TameCaught` (the catching frame is the one that armed the handler), `CleanAtHalt` (no handler, operand or frame is left) |
| `if_chain` | up to 4 arms, blocks of 0 to 2 instructions | `ArmsLinked`: every failed test leads to the next arm, every arm to the end; `WalkPatchesJumps`; `WalkTerminates` (so the walk never leaves the code) |
| `collector` | 3 objects; as shipped (collected at shutdown only, with parts that marking does not visit), and as if the loop collected | `ReachableAlive`, `ManagedAlive`, `TriColour`, `CollectionEnds`, and `Implements`: a refinement of `PyLiteHeap`, in which a collection is one step |
| `binding` | every signature of up to 3 parameters, up to 3 arguments, keywords, a caller's operand below | `BindsAsMeant`: every parameter gets what the call means and only a call without a meaning is refused; `CallerUntouched`; `ArgsFresh`: no copy through a pointer into memory that was given back |
| `calls` | 3136 call expressions: 7 heads, up to 2 arguments (plain, `*x` of a list, a text or neither, nested calls, methods, properties, failing ones), keywords and `**x` | `OperandsThere`: no instruction pops what is not there; `DisciplinedAsMeant`: in *disciplined* code (nothing comes between uncounted operands and their call) every call gets what is written for it |
| `containers`: hash | 3 keys, two of which collide, tables of 4 and 8 buckets, every order of store, update, remove, clear, copy and iterator steps, of a table that was never filled, too | `HashImplements`: a refinement of `PyLiteMap`, and a rehash in progress changes nothing; `LookupFinds`: the walk finds what was stored, and sets compare as sets; `IterFaithful`: an iterator gives no entry twice and, unless the table changed, all of them before it ends or is lost behind the flags, and that of `items()` is not lost in a table that was ever filled; `StoreEnds` |
| `containers`: list | up to 3 elements, every method, indices and slices beyond both ends | `TameListsRight`: memory, size and elements after any sequence of tame calls; `SlicesAsMeant`: a slice visits the elements that are meant |
| `containers`: number | 27 operands about the limits of a word, halves, bools; chains of any length | `NumbersAsMeant`: tame chains give what Python gives, and a printed int whose magnitude a C int holds reads back; `EqualNumbersHashEqual` |
| `containers`: text | every text of up to 3 characters of 10 kinds, texts of up to 6 that make the buffer grow; formats of one and two pieces with directives of every kind, and of four with every mistake in the order of escapes | `TextsAsMeant`: what `repr` writes reads back, a tame format gives its meaning, a search finds the first place; `WritersFit`: nothing is written beyond the buffer |
| `front_end`: lexer | 10092 texts of up to 16 characters: four lines with every indent, line ends of each kind, brackets, strings long and short with every prefix, `\x` with and without its digits, numbers, operators, keywords; pairs of files read by one interpreter | `TokensAreLexemes`, `RecordReplays` (look-ahead gives back what it read and stays in its buffer), `LinesNest` (blocks are those of the indents, line numbers those of the text), `ReadingEnds` |
| `front_end`: parser | operators of every two levels on either side; displays, subscripts, slices, calls and lambdas in each other; 103 targets, and chains of them, with 8 values; in-place assignment; `del` | `StatementsMean`: an accepted statement makes the calls and stores of its text, in its order, and a tame one is accepted; `OperandsMatch` |
| `lookup`: names | scripts of up to 4 statements with a function, a function in it, a class with a method, and an imported file, all about one name | `ReadsLexical`: a load finds what the text means unless one of four named causes holds |
| `lookup`: attributes | the builtin types, 2 classes, 1 instance, 3 names, 3 stores | `LookupAsMeant`: an attribute is that of the nearest ancestor and a call gets its object, unless one of four named reasons holds |

The three runs with several rows are one TLC run each. Each property is broken by a plausible
mutant of the code (operators marked `mutant` in the modules, listed in `PROJECT.json`).

Runs that find the code to differ from what its comments, README or tests say; "findings" in
`PROJECT.json` quotes the lines:

| run | finding |
|---|---|
| `except_from_callee` | an exception that crosses a frame pops the handler's own frame, too (vm.c:374) |
| `if_chain_no_else` | `elif` without `else` sends the patching walk out of the code (parser.c:1526) |
| `call_in_args` | a call in the arguments of a method takes the outer self's count (vm.c:500) |

**Bounds, and why they are enough.** Statements: the generator's state that survives a
statement is the loop depth and the position, so two levels of nesting with leaves of different
size meet every patching rule; 7 events let a loop go round twice in an inner and an outer
position; programs that go on are cut (`MaxTrace`, `MaxFrames`, status `cut`), which *Conforms*
and the safety properties still cover up to the cut. If chains: the walk distinguishes the first
arm, a middle arm and the last one; 4 arms have two middle ones. Collector: three objects hold an
owner, its part and an element, or a cycle and an iterator made while marking. Binding: three
parameters hold each kind next to and apart from each other; names are only compared, so they are
given in one order; at most one parameter is typed. Calls: `params_offset` is one number, and two
arguments are enough to have one before and one after whatever sets it.

Hash: the bound on occupied buckets of 4 is 3, so three keys with their tombstones reach the
rehash in place and the growth to 8 (`MaxBuckets`); two keys probe the same buckets in the small
table and part in the large one, the third lies on their way. An iteration is followed to its
first end, since afterwards it only repeats it. List: `MaxLen` 3 is enough for a first, a middle
and a last element, and for the growth at 1 and 3. Numbers: a word of 6 bits and an `int` of 4
stand for 64 and 32, with operands on both sides of each limit, and radix 3 for ten; a float is a
multiple of one half up to `MaxTwice`; shifts and exponents are at most `MaxCount`. Text: an
escape writes up to 4 characters for one, so
the buffer (which is enlarged a step at a time) is exceeded within 6. Lexer: no rule looks at more
than four characters; two widths of indent and a tab give dedents by one and two levels and to a
width that was not there. Parser: its state that survives an operand is the level, the two
flags and the last instructions, so that two levels of brackets and pairs of operators meet every
rule. Names: `f`, a function in it, a class and a file have each kind of scope in and beside
each other; the four statements of the script make, use, change and use again. Attributes: a
chain of two classes has a near and a far ancestor; three stores put a name in all of them.

**Fairness.** `WF_vars(Step)` in `PyLiteVM` and `PyLiteIfChain`: one thread runs one loop, and an
enabled instruction is executed. `WF_vars(Collector)` in `PyLiteGC`: a collection is one C call
and goes on to its end; nothing makes the program collect or shut down. In `MCContainers` weak
fairness holds of `HashStep`, the steps of a put or rehash that has begun, which is one C call; in
`MCFrontEnd` of the lexer's steps, since `pylt_lex_next` is one C call and the parser calls it until
the text is read. No strong fairness is assumed. `Stops` is progress *modulo* the bound: a loop of
the source goes round as often as its events allow, so what `Stops` excludes is going round
without an event, as a wrong jump does. `ReadingEnds` names the one exception it has, a text that
ends in a string.

## 4. What is proved

Every theorem is checked by TLAPS down to its leaves, for all values of the constants under the
named assumptions, which TLC evaluates on the instances.

* `PyLiteVerified_proofs` (assumes `ProgramAssumption`, `ShapeAssumption`: each tame program has a
  shape), for every tame program, any number of functions, calls and handlers. *Invariance*: the
  contract is kept. *RunsSafely* (`TameNeverWild`, which no run lists, since it follows from
  `IInv`): no operand is popped that is not there, no handler dropped that is not armed, the frame
  of a handler is found, and what a loop steps is an iterator and not the null pointer that stands
  for the iterator of what is not iterable, because a shape has iterators made only of what it knows
  to be. *CaughtInFrame*: an exception is caught in the frame that armed the handler, which goes on
  with its own code and operands. *HaltsClean*; *KeepsCaller*: a return leaves the caller's operands
  and one value, whatever was caught in between (*TameKeepsCaller*, where some programs are not
  tame); *TypeCorrect*, for those too.

  The shape is what makes it provable, because the loop records neither the height at which a handler
  is entered nor whose it is. An exception may be raised in tame code where (`Fails`) the newest handler
  of this frame that covers it expects one operand more than are left; where, if none covers it,
  no caller has handlers; and where, if any is armed, here or in a caller, the frame vector has
  room, since building the exception takes a frame and a vector that grows moves (vm.c:350). The last
  is why a shape says how deep a function runs. None of it is an assumption about the loop; the
  programs it leaves out are those that go wrong (section 5).

  `NeverWild` and `CatchKeepsFrame` are not inductive. They need what the frame on top finds at the
  next instruction (`ActiveAt`: height, known values, its handlers and nothing above them, room),
  the same for every frame below at the place where it will go on (`Suspended`), that operands and
  handlers of a frame lie above those of the frames below (`FramesNested`, with the ghosts `base`
  and `hbase`), that frames are where their functions may run (`FramesPlaced`), and that a pending
  exception finds the frame on top ready for it (`CaughtOnTop`). The proof has a lemma for each way
  to go on: in the frame (`SoundPops`, `SoundPushes`), by an exception (`SoundThrows`: the newest
  handler that covers it is one of this frame, or there is none at all), by arming and dropping
  handlers, a call (`ActiveAt` turns into `Suspended`), a return (and back) and a catch; `InFrame`
  sorts the instructions among them.
* `PyLiteGC_proofs`. *Invariance*, *NeverReleasesReachable*, *ManagesAll*, *KeepsTriColour*, for
  any set of objects and any number of collections. `ReachableAlive` needs that what is marked is
  reachable and at the end of marking everything reachable is black (`MarkedReachable`), and an
  account of the parts that marking does not visit (`PartsAccounted`): either every part is
  followed, or no collection but the last can happen. The second disjunct is the shipped program;
  calling the collector from the loop would break it (gc.c:167).
* `PyLiteBinding_proofs`. *Invariance*, *BindsEveryCall*, *KeepsCaller*, *PointerFresh*, for every
  signature, number of arguments and mapping. The key is that nothing has been pushed while
  positional arguments are left, so that `args` still points to the arguments and `i = args_i`;
  afterwards there is one operand for each parameter seen.
* `PyLiteValues_proofs`, text (assumes `StringAssumption`: texts are sequences of codes, the pieces
  of a format are characters and fields, and widths and fractions are below 100). *WritesInside*:
  `repr` and `%` never write beyond their buffer, whatever the text, the format and the arguments,
  the mistakes in its escapes included; only the closing quote of `repr` may lie one beyond. For
  `repr` no escape has more than the four codes asked for before each. For `%` the invariant counts
  what is still to be read (`ToCome`): plain characters and escapes are written out no longer than
  they are in the format (`EscapeFits`), and a directive, which may be, reckons anew. The numbers in
  a directive are values of a recursive function, whose existence is shown by the least number
  for which it would have none (`LeastOf`).
  *TextsRight*: what `repr` writes reads back as the same text, a tame format gives its meaning, and
  `index` and `startswith` find what they should, for texts and formats of any length. The invariant
  (`SoFar`) says that `repr` has written the escapes of the characters before `at`, and that `%`,
  when the format is tame, has read its first k pieces, written the meaning of each and used an
  argument for each field among them. So a step of `%` is about one piece: its own text is found at
  `at` (`FieldReads`) and written as the piece means (`DirectiveShows`). An escape reads back alone,
  and the reader only goes forwards, so it reads back in front of any text (`ReadsBackAs`).
* `PyLiteValues_proofs`, numbers (assumes `NumberAssumption`: an `int` is narrower than a word, no
  shift is as wide as a word; and `OperandsAssumption`: ints fit their word, bools are 0 or 1).
  *NumbersRight*, for words of every width, every set of operands and chains of any length: a tame
  operation gives what Python gives (`Right`, one lemma for each operator). What has to be shown is
  about rounding (`RoundedDown`, `ModuloIs`), and that results that are not tested for it fit a
  word: quotients, remainders, right shifts, `~` and the negated `abs`. `abs` is that of a C int;
  what it makes of the least one, C leaves open, and the model keeps it as it is, as the machines
  do. So `+` and `-` are tame for what is not negative and a C int holds (`KeptByAbs`), and an int
  whose magnitude no C int holds is left out of reading back: what is printed is the C int of its low
  bits, and of the least one no digit. Any other printed number reads back because the reader, after i of its digits, holds the number
  without the others, and the weight of the next (`ReadOf`); dividing by the radix once more is
  dividing by its next power (`DivTwice`). *EqualHashes*: only floats have a fraction, and without
  one the hash depends on the value alone. `Pow` and the reader are recursive functions; that they
  exist is shown by `Recursion` and by `ReadOf`.
* `PyLiteCall_proofs` (assumes `ProgramAssumption`: the parser's count suffices for each
  instruction; and `LiteralAssumption`: what lists and texts are made of are literals again).
  *Invariance*: for every program the height is at least the parser's count plus `params_offset`,
  hence no pop of what is not there, even where calls take each other's counts. *Counted*: in
  disciplined code it is exactly that, so the callee is in its slot, and the offset is 0 wherever no
  call waits for uncounted operands.

* `PyLiteGC_proofs`, *RefinesHeap*: the collector implements `PyLiteHeap`. The refinement mapping
  leaves out what is doomed, so that the whole release happens where marking ends and each step of
  the sweep is a stutter; there, everything white is unreachable and everything reachable is black.
* `PyLiteContainers_proofs`, hash tables (assumes `HashAssumption`). `HashInv` has six parts:
  `Shape`; `Elements` (no two entries have a key in common, the one in hand during a rehash
  included); `Settled` (the walk for the key of each live bucket leads to it); `InMotion` (during a
  rehash, the same for the buckets that have been filled anew, over buckets that are in use);
  `Counted` (the size is the number of entries, wherever they are); `Iterating` (what an iterator
  has seen lies before it, and all that lies before it has been seen unless the table changed; where
  it can have been lost). *LookupsRight*, *IteratorsFaithful*, which says what was seen of an
  iterator that ends and of one that is lost, and that `items()` loses none in a table that was
  filled and has fewer than 16 buckets, and *RefinesMap*: each step is one of `PyLiteMap` or a
  stutter. The steps of a rehash are stutters, since the entry in hand is still held.
* `PyLiteContainers_proofs`, lists (assumes `ListAssumption`). *ListsRight*: after any sequence of tame
  calls `Right` holds: the size does not exceed the memory, the memory has as many slots as the list
  believes, and the first of them hold the sequence that is meant. *SlicesRight*: the positions that a
  slice visits. The sequence without a set of positions is a recursive function in the model
  (`Kept`); its equation has a solution (`KeepsExist`) and only one (`KeepsUnique`), which is what the
  moves of memory arrive at.
* `PyLiteLookup_proofs`, attributes (assumes `ObjectsAssumption`). *AttributesRight*: a base is always
  older than its class (`Rooted`), so the climb through the bases ends at `object`, and the three
  lookup functions differ from what an attribute means in the four named cases only.
* `PyLiteLookup_proofs`, names (assumes `NamesAssumption`, by which statements name units of the kind
  that they make). *NamesRight*: `NamesInv` says that only names of its own unit are stored in a
  scope and that a module is around each (`ScopeOK`), that a frame runs a function in the scopes that
  were around its definition (`FrameOK`), and that a closure has the free names that a frame had
  when it was made, with the value that the frame has still unless the change was noted (`Closes`,
  `Agrees`). Scopes, functions and bodies only grow (`ScopesGrow`, `FuncsGrow`, `BodiesGrow`), which is
  why what was true of a waiting frame stays true.
* `PyLiteFrontEnd_proofs`, if chains (for `~BareElif`; with it the claims are false, see the finding).
  *ChainLinked*, *WalkStaysInCode*, *WalkPatchesOnlyJumps*, for any number of arms and blocks of any
  size. `ChainInv` follows the patching: while arms are read each jump leads behind the next one,
  and the last behind a jump that is not there yet (`ArmsOpen`); during the walk the jumps before
  the current one lead to the end and the others still behind the next (`Walking`): the operands
  themselves are the list that the walk goes along.
* `PyLiteFrontEnd_proofs`, lexer (assumes `ScriptsAreTexts`, and `EndIsNoCharacter`: the mark of the
  end of a file is none of the characters that the lexer tests for). *ReplayFaithful*: the reader is
  `Plain`, `Recording` or `Replaying`, what it holds of the text is always what was read last, and
  that is at most three characters because the letters of a prefix exclude each other (`HeadHeld`).
  *LevelsNest*: the stack of indents falls strictly down to 0, whatever the text, and the outermost
  level is never popped. No run states it; on the instance, `LinesNest` compares the blocks
  themselves. *TokensRight*, for scripts of any number and length without an escaped backslash (the
  code takes the sign behind `\\` for escaped): each token is a lexeme and the longest at its place,
  between tokens there are only blanks, line ends and comments, a NEWLINE stands where a line ends
  outside of brackets. A text is refused only where what was read since the last word is no lexeme
  and no more text makes it one, or where it is a literal without a value: with a `\x` that lacks
  its digits, unless it is raw (`BadEscape`; lexer.c:330, string.c:242). That a token is the longest
  holds of the text and not of the reader, so lexemes are first characterised by what stands where
  in the text (`WordIs`, `FloatIs`, `ShortIs`, `LiteralAt`, ...). The invariant `TokenInv` has two
  parts. `Placed`: where the last word is, that behind it there is a gap up to the place where
  reading goes on (`Edge`), that `inside_couples` counts the brackets of the words so far, and that
  a NEWLINE came since if a line ended. `Reading`: for each kind of literal, what has been read of
  it and that nothing longer has been passed over; of a literal also that its value so far has the
  escapes of the text between its quotes (`Held`, `ValueAt`, `SameEscapes`: a line end may be two
  characters of the text and one of the value), so that the one has a bad escape when the other has;
  a name knows that no literal begins where it does (`NameRead`), which is what the look-ahead over
  a prefix has found out. A word handed out extends the history, whose older words keep their place,
  their gaps and their comments (`CommentGrows`).

Only model-checked: everything that needs liveness (`Stops`, `CollectionEnds`, `WalkTerminates`,
`StoreEnds`, `ReadingEnds`) or ENABLED; what recursive definitions compute (`Conforms`,
`DisciplinedAsMeant`, `StatementsMean`, `OperandsMatch`: the prover has no induction over data, and
the modules with RECURSIVE operators, `PyLiteExpr` and `PyLiteEval`, are beyond it); and
`LinesNest`, whose blocks are counted by widths of lines, for which `LevelsNest` is the first step.
That `PyLiteCompile` gives a shape to every program of tame statements is such a claim about a
recursive definition: TLC checks `ShapeAssumption` for the programs of the two instances, and the
theorems begin there.

## 5. Limits

What is not modelled:

* `PyLiteVM`: an attribute, item or slice instruction, an import or a class statement is an
  operator that may raise; what these do is in the modules of values, names and attributes. What is
  iterable is one kind of value; the `__iter__` of a user class and iterators over instances
  (iter.c:52) are left out. A step of the null pointer is wild, and nothing is said of it. Nested
  runs other than the one that builds an exception are not modelled. Recursion is cut, never out of
  memory.
* `PyLiteCompile`: a few representative expressions; the `exceptions` families have no control
  that leaves a try other than at its end or by an exception, and `finally` only where the code
  runs it. Jump distances have no width (parser.c:81).
* `PyLiteExpr`: `yield`, parameters of a lambda, `*x` and `**x` (those are in `PyLiteCallSource`).
  `PyLiteEval`: no name is undefined and no operation fails.
* `PyLiteNames`: statements do not jump, so that an instruction runs at most once in a frame. File
  modules are one level deep. `PyLiteObjects`: user `__getattr__`-like hooks, operators, the truth
  of an instance, and user `__new__` and `__init__`.
* `PyLiteLexer`: a few letters, digits and keywords stand for all, none beyond ASCII, so that the
  refusals of characters from 128 on (lexer.c:317, string.c:252) are left out; of the value of a
  literal there is only whether it has one; columns and the stream below `nextc` are left out.
* `PyLiteCall`: `*d` of a dict has no step; the value of a call is neither callable nor iterable;
  a property whose value is called is left out (its getter is not run, vm.c:497).
* `PyLiteBinding`: keywords without a parameter are ignored, as in the code; `__call__`,
  `__new__` with `__init__` and `**kwargs` parameters of C functions are not modelled.
* `PyLiteHash`: a rehash does not allocate in steps; an iteration is followed to its first end.
  Where an iterator asks behind the flags or through NULL (khash_obj.h:452) it is lost or, if what
  it reads happens to be no live flag, ends; nothing is said of a program whose iterator is lost.
  `PyLiteList`: `sort` and comparison. `PyLiteNumber`: floats are halves; `pow` of floats and their
  printing belong to the C library. `PyLiteString`: `%c`, `%o`, `%x`, `%X` print what was never set
  and end there, `%p` writes any member of a set of addresses; `join`, `*`, and `bytes.c`, which
  repeats `string.c` for octets.
* `PyLiteGC`: the cache of strings and the statics set.
* Not modelled at all: registration tables and the argument checks in them, the standard
  modules, I/O, the shell, vendored code but for the hash table. They hold no state of their own
  that the properties above could be about.

Seen in the program built from this source, and not a run. What the models leave as not tame, and
what lies beside them, was tried with short scripts; each is a crash, a hang, a wrong value or a
wrong error.

* *Exceptions.* Building the exception reallocates the frame vector, the handler's frame is never
  found and the loop at vm.c:374 does not end (vm.c:350). Operands of a failed expression stay below
  the caught exception (vm.c:378). `return` in a `for` leaves the iterator among the caller's
  operands (parser.c:1384). A `finally` does not run when no `except` of its try catches, nor on
  `break`, `continue` or `return` (parser.c:1760); `break` out of a try leaves its handler armed
  (parser.c:1347).
* *Calls.* `f(**d)` takes the keywords of required parameters out of the caller's own dict
  (vm.c:251; those of parameters with a default stay, vm.c:289). The base of a class is not
  checked to be a type (vm.c:654).
* *Names.* A function sees the value that a global or enclosing name had when it was defined
  (README.md:10 strikes out "lexical scope", README.md:79 plans closures by reference), so that a
  nested function cannot call itself; a function from an imported file asks the script for its
  globals (vm.c:458); a file is run again at each import (vm.c:821), and two files that import
  each other crash.
* *Parsing.* `a, b = c = ...` is refused and `a = b, c = 3, 4` gives `a = 4`; targets are stored from
  right to left; `f = lambda: 1, 2` takes the tuple into the lambda; `2**3**2` and `(a)[0] = 5` are
  refused; `f(a b)` is accepted; `and` and `or` evaluate both sides; `a < b < c` is `(a < b) < c`;
  `a[i] += x` evaluates its target twice; `a[(b)+c] = 9` crashes.
* *Lexing.* Blanks or a comment at the end of a file without a line end open a block; `"a\\"`
  is refused; a string that the file ends in hangs (lexer.c:285); `007` reads as 7.
* *Iterators.* A `for` over what is not iterable calls through NULL (vm.c:591, vm.c:754); one over an
  empty dict or set that never had an entry reads flags through NULL (iter.c:124).
* *Dicts.* `{1: 1} == {2: 2}` dereferences NULL (dict.c:23). *Lists.* `insert` does not count the
  element (list.c:102); a slice that is assigned or deleted moves the wrong number of elements for
  some bounds, and one with a negative step starts one early; a range with a negative step yields
  nothing (iter.c:160); `in` on a tuple is always False (object.c:323).
* *Numbers.* `-(-3)` is -3; the least C int is printed as a sign without digits (number.c:455); `3
  // 0.5` divides by zero (number.c:140); `%` of a negative dividend has the wrong sign. *Strings.*
  `'abc'.index('c')` is -1; `'' in 'abc'` and `'a' < 'b'` are False; `'ab' * -1` crashes; a bad `\x`
  in a format writes to memory that was given back (string.c:187); `startswith` with a tuple casts
  it to a string (pybind/common.c:132).
* *Objects.* The setter of a property is never called; deleting a missing attribute is silent; a
  method that is not called at once forgets its object (vm.c:487).

## 6. Plan

Done: loop and contract; statements and their meaning; exceptions; if chains; collector and heap;
call binding; call protocol; hash tables with their refinement; lists, numbers and text; lexer;
expressions and assignment; names; attributes; the proofs of section 4.

Next, most important first:

1. *Proofs.* From `LevelsNest` and `TokensRight` to `LinesNest`: the stack of indents is the set of open
   widths, and the line number counts the line ends passed.
2. *Nested runs* (`PyLiteNested`): `__init__`, properties and operators of user classes call
   `pylt_vm_run` again on the same stacks; the frame address cached in a local (vm.c:720) and the
   arguments of a C function (vm.c:703) across a reallocation.
3. *Stale handlers*: a family of the exceptions instance that leaves a try by `break`, `continue`
   and `return`; jump widths (parser.c:81).
4. *Strings and the collector*: the cache of strings as weak references; the statics set, whose
   flag is tested with `|` (gc.c:331).

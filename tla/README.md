# A TLA+ verification of AER

AER is a small scripting language: a one-pass compiler (`source/compiler`), a
stack virtual machine with a generational garbage collector (`source/core`,
`source/utilities`) and a shell (`source/main.c`). This directory models the
parts of it that hold state over many steps, checks them with TLC on small
instances and proves, for instances of every size, the safety of the collector
and of nested modules, that calls find their stacks as they left them, that the
hash table implements a map, what a loop over changing data visits, what closures and
cached addresses refer to, and what the parser keeps straight behind errors and
across imports.

AER is single-threaded. What is hard in it is not parallelism but order: when a
collection falls between two opcodes, what a cached address refers to after a
scope was pushed or a closure made, what a rolled-back statement leaves behind
in the parser's globals, what a nested run of another VM does to the state of
the run around it, and what any of it looks like after an error.

Paths below are relative to the repository.

## 1. Inventory

| Component | Code | State it keeps | Operations |
|---|---|---|---|
| Heap and collector | `utilities/pool.c`, `core/vm.c` 1-400 | six pools with a state byte per cell, a free list each, `remembered_set`, `pool_total_alloc_count`, `minor_since_major`, `gc_suppress_depth` | `pool_alloc`, barriers, `gc_collect` (minor, major), the cycle with its ceiling check, suppression |
| Scopes, variables, closures | `core/vm.c` 590-790, 1430-1610, 1987-2047 | `vm->scopes` with inline slots, overflow hashmap, boxes; `Chunk.addr_cache`; upvalues of closures | get, set, define, resolve-with-cache, box a slot, make a closure, push/pop scope |
| Hash table | `utilities/hashtable.c`, `hash_util.c`, wrapped by `dictmap.c`, `hashmap.c` | `buckets`, `capacity`, `count` | put, get, remove (with chain repair), clear, free, rehash |
| Calls, defers, operand stack | `core/vm.c` 1121-1164, 1785-1963; `parser.c` 1211-1232, 1617-1655 | operand stack, scope stack, `call_stack` with each frame's defers | call, tail call, closure call, defer, return, break/continue unwinding |
| Loop opcodes | `core/vm.c` 2315-2405 | two or three words on the operand stack | `OP_ITER_NEXT`, `OP_ITER_NEXT_PAIR`, `OP_ITER_RANGE` |
| Compiler | `compiler/parser.c` | `loop_stack`, `loop_depth`, `loop_floor`, `compile_scope_depth`, `function_depth`, `parse_had_error`, `recovered_at_boundary`, `last_bare_call_end`, `capture_ctx`, `outer_locals`, `current_params`, the chunk's code | one function per statement kind, rollback of a failed statement, skipping to the next, jump patching, capture analysis, fusion and tail-call patching |
| File modules | `core/aer_module.c` | `modules`, `loading_stack`, a VM and chunk per module | import (load, parse, run), module call |
| Session and errors | `main.c`, `utilities/error.c` | `runtime_had_error`, `parse_had_error` | `run()` between inputs, `error`, `error_at` |
| Lexer | `compiler/lexer.c` | `indent_stack`, `pending_dedents`, `at_line_start`, `bracket_depth`, the token | `lex`, `shell` and `read_file`, `lexer_save_state`, `lexer_restore_state` |
| Chunk | `core/vm.c` 420-570 | code words, constant pool, line marks, address cache, shapes | emit, intern, mark a line, line of an offset |
| Values, arithmetic | `value.h`, `core/value_box.h`, `core/vm.c` | none | boxing, operators, conversion |
| Libraries | `aer_stdlib.c`, `aer_json.c`, `aer_io.c`, `aer_host.c` | file handle table, host function table | builtins |
| Terminal | `terminal.c`, `run_shell` of `main.c` | `buffer`, `position`, `length`; the history file and its ring; `block_buf` | the keys, entering a line, start and end of a session, collecting a block |

How they interact. The shell collects lines of the terminal into an input, or
`main` reads a file; the parser pulls tokens from the lexer, one ahead, and emits code into a `Chunk`; `vm_run` executes it.
Before every opcode `DISPATCH()` checks `runtime_had_error` and gives the
collector its chance. Opcodes allocate from the pools and move references
between stack, scopes, containers, boxes and the constant pool, calling the
write barriers on some of those paths. An `import` is executed by the *parser*:
it saves the lexer, parses the other file into a chunk of its own and runs that
chunk on a VM of its own, and then goes on. A call of a module's function runs
the module's VM from inside the caller's opcode. All VMs share one heap. An error sets
`runtime_had_error`, which unwinds every nested `vm_run`; `run()` resets the
main VM before the next input.

The correctness of each part, in one line:

- collector: what a program can reach is never freed, what it cannot reach is
  eventually freed, and the memory ceiling is only reported when it is real;
- variables: whichever way a variable is stored or found, it has one value,
  and a name means the closest binding at every visit;
- hash table: a finite map, whatever was inserted and removed;
- calls: each call finds its operands and scopes as it left them, every deferred
  call runs exactly once, within the documented limits;
- loops: each element once, and an end;
- lexer: INDENT and DEDENT tokens follow the offside rule whatever else the text
  holds;
- compiler: after any error the parser's globals describe the constructs that
  are open, the blocks are those of the layout, jumps are patched where placeholders
  are, an error counts, and what was discarded leaves no trace in the code that stays;
- closures: the boxes a closure is made with are those its code was compiled for;
- terminal: what is run is what was typed, and the history is what was entered;
- modules: loaded once, never re-entered, and the collector enabled exactly
  when it sees everything.

`PROJECT.json` lists the hazards, each with its line and the properties that would
catch it.

## 2. Modules

| Module | Models | Extends or instantiates |
|---|---|---|
| `Heap` | pools, barriers, collector, the opcodes that move references, module calls and errors as the collector sees them | |
| `HeapProofs` | theorems about `Heap` | `Heap`, `TLAPS` |
| `Environment` | what AER promises about variables: scopes of locations | |
| `Scopes` | how `vm.c` stores and finds variables | `Environment` through a refinement mapping |
| `ScopesProofs` | theorems about `Scopes` | `Scopes`, `DataFacts` |
| `Dict` | a finite map | |
| `HashTable` | the linear-probing table | `Dict` through a refinement mapping |
| `HashTableProofs` | theorems about `HashTable`, the refinement of `Dict` among them, and about `Loops` | `Loops`, `FiniteSetTheorems`, `TLAPS` |
| `Loops` | for-each over arrays, strings and dicts that the body changes, and ranges | extends `HashTable` |
| `Calls` | calls, defers, blocks and limits over the VM's three stacks | |
| `CallsProofs` | theorems about `Calls` | `Calls`, `DataFacts` |
| `Compiler` | the parser as a statement machine with error recovery | |
| `ParserInvariants` | no state of its own: the inductive invariants of `Compiler` and `Bytecode`, and the relations between states their proofs speak of | `Compiler`, `Bytecode`, `DataFacts` |
| `CompilerProofs` | theorems about `Compiler` and about `Bytecode` | `ParserInvariants` |
| `Lexer` | `lex()`: the layout of a text as tokens | |
| `Layout` | how statements, blocks and recovery read those tokens, through imports and shell inputs | extends `Lexer` |
| `LayoutProofs` | theorems about `Lexer` and `Layout` | `Layout`, `DataFacts` |
| `Bytecode` | what the compiler emits for names, calls, functions and closures, with the rollback of all of it | |
| `Modules` | nested parses and runs of file modules | |
| `LineEditor` | what the line editor promises: a text, a cursor, a file of lines | |
| `Terminal` | `terminal.c` and the shell's collection of blocks | `LineEditor` through a refinement mapping |
| `SessionProofs` | theorems about `Modules` and about `Terminal`, the refinement of `LineEditor` among them | `Modules`, `Terminal`, `DataFacts` |
| `DataFacts` | facts about sequences, counts and finite sets of numbers that the proofs share | `TLAPS`, the library's theorem modules |
| `MC*` | constants and symmetry sets for TLC | the module named |

### Heap

A cell is one pool element; its state byte is membership in `marked`, `old`,
`free` and `remBit`; `carved` is what the bump index has passed. Values without
a cell (null, booleans, reals, small integers) are `Nothing`. Locations are
operand stack entries, scope slots and constants; `MainSlot` tells those of the
main VM from those of a module's. `Read` goes through a slot's box.

| Action | Code |
|---|---|
| `Load`, `Store`, `Drop`, `NewLeaf`, `NewContainer`, `IndexGet`, `IndexSet`, `Remove` | the opcodes of those names and the builtins `append`, `remove`, `pop` |
| `CaptureShared`, `CaptureNew`, `CaptureFault`, `MakeClosure`, `LoadUpvalue`, `StoreUpvalue` | `lbl_capture` with `vm_box_slot`, `lbl_make_closure`, `lbl_load_upvalue`, `lbl_store_upvalue` |
| `MinorCollect`, `MajorCollect`, `CeilingCheck`, `CeilingVerdict` | the steps of `gc_run_collection_cycle`, told apart by `phase` |
| `ModuleCall`, `ModuleReturn`, `Fail`, `Restart` | `aer_module_call`, `error`, `run()` |

`Trace` is the least fixed point that the mark worklist computes; it is given
as the intersection of all closed sets, because that form can be proved about.
Which free cell `pool_alloc` picks is left open. A freed box's first word is
the free list's link, so a write through a stale box can destroy the list: that
is undefined behaviour of the program, and `wildList` with `CaptureFault` makes
the crash one of its outcomes.

### Environment and Scopes

`Environment` says what a variable is: a stack of scopes that map names to
locations, lookup from the innermost scope of the running call and then in the
global scope, closures that hold locations. `Scopes` is the implementation:
inline slots that spill to a map after `SCOPE_SLOT_MAX`, slots that move into
boxes, parameters by slot number, and `addr_cache`. The program (functions,
loop variables, captures, name sites) is a constant; the order in which its
sites are visited is open. `RefinesEnvironment` maps each slot to the location
it stores and each location to the word that holds its value. One kind of step it allows
beside those of `Environment`: `StaleHit`, the visit of a site whose cached global has since been
captured by a closure or is hidden there by a closer binding (section 4). It says how
far such a visit departs: it reads or writes that global, or the word its slot had
before it was boxed, and no other variable.

### Dict, HashTable, Loops

Keys have nondeterministic hashes (chosen in `Init`), so collisions, full
clusters and wrap-around all occur. A removal takes its repair loop step by
step (`pc = "repair"`); the put it makes for each entry is the whole
`hashtable_put`, threshold test included.

`Loops` puts a loop on top: the words it keeps on the stack (`idx`, or the three of
`range`), the head of an iteration with all its exits (`YieldNumber`,
`YieldItem`, `YieldKey`, `Finish`, `Refuse`), and a body that assigns and deletes keys, or
appends and deletes items. What is looped over, and every bound, step and
type of a range, is chosen in `LoopInit`. `seen` is what the body has been given.

### Calls

Each activation has its frame (floor, arity, defers), its open operands and its
open blocks, which is what the parser knows at compile time. The VM's stacks
are heights. `base` and `due` are history variables: how many operands lie
below the call, and how many defers of this very activation have yet to run.
A popped frame keeps its contents, as the C array does, so a frame that is
reused with stale defers would be seen.

### Compiler

The C call stack of the recursive descent is `frames`; the source text is
whatever statement comes next, well formed or not. Code is a sequence of final
words and unpatched holes. Rolling back a failed statement truncates the code,
exactly as `parse` and `parse_compound` do, and nothing else. `Source` says
which kinds of statements the files contain: `fault` (a syntax error in any
statement), `postfixFault` (one in the postfix chain at the head of a `for`),
`import`, `loopImport` (an import inside a `while`). Code sizes are the
emitted jumps and pops that matter to patching, other words are counted as one.

### Lexer and Layout

The text is not a constant: what stands at the cursor is chosen when `lex()`
looks at it (`ahead` is what is known of it between two calls), so a run reads
every text up to `Length` symbols, with every indentation in `Width` on every
line. `QueuedDedent`, `Continue`, `Tab`, `Deeper`, `Shallower` and `SameLevel` are the
branches of `lex()`. `measured` and `level` are history: the indentations that were
measured, and INDENTs less DEDENTs.

`Layout` is the parser's control flow over those tokens, one call of `lex()` per
step: the loops of `parse` and `parse_compound` (`SkipLine`, `CloseBlock`,
`Statement`, `EndOfText`), the headers that open a block (`Header`, `Newline`, `Indent`,
`Else`, `ElseColon`), imports that parse another text in between (`Import`, `Load`,
`EndOfImport`), and recovery (`Done`, `Skip`, `Orphan`, `Junk`). An expression is any
run of tokens with an error anywhere or nowhere.

`spoilt` and `astray` mark texts in which a known disagreement (section 4) has
happened: a line that fits no level; a recovery that lost a layout token. What
is stated about levels and blocks is stated for the others.

### Bytecode

`parser` is the chunk (words, line marks, function constants) together with the
parser's globals, as one record, because a statement passes it through many
helpers before it is kept or rolled back; the helpers have the names of
`parser.c` and map a record to a record. `open` is the nest of functions and if-blocks. The
program is any sequence of the lines in `Text`, each at a depth where it may
stand; lines marked `!` fail behind an expression or behind a whole assignment,
and a function in a function always fails, which discards everything inside.
Each instruction carries as history what its text means (`meant`), so that the
properties compare the code with the text. `parser.lost` is history too: where
the calls ended that failed statements had compiled, and the constants of
functions they had, which is what rollback leaves in `last_bare_call_end` and
in the chunk's constants. `RunMakeClosure` and
`RunCaptureFails` are `OP_CAPTURE` and `OP_MAKE_CLOSURE` at run time, with
`pending_upvalues`.

### Modules

`active` is the nest of parses and runs in progress. An import pushes a parse,
which turns into a run of the module's top level; a module call pushes a run of
the module's VM. `suppress` is `gc_suppress_depth`. The import graph is not
fixed: any file may import any other, itself included.

### LineEditor and Terminal

`LineEditor` is a text with a cursor and a file of lines. `Terminal` has the C
array that stands for it, with the byte behind the text that `strlen` finds,
the history file, and the ring of its last `COMMAND_SIZE` bytes that the arrows
walk. `RefinesEditor` maps the array's first `length` bytes to the text. A
line that is entered goes to `run_shell` (`Collect`, `Run`); `Exit` and `Restart` are
another session with the same file. `typed` is history: what was entered since
the shell last ran something.

## 3. Runs

Passing runs:

| Run | Question | Bounds | Distinct states |
|---|---|---|---|
| `heap_containers` | Is anything reachable freed, does the remembered set dangle, does a major collection leave garbage, is the ceiling error real? | 2 leaves, 2 containers of 1 field, 2 main and 1 module stack entries, 1 constant, minor every 2 allocations, major every 2nd, ceiling 2 | 444,000 |
| `heap_closures` | The same with closures and boxes | 1 leaf, 1 function, 2 boxes, 1 scope slot | 853,000 |
| `scopes_env` | Do slots, spill map, boxes and caches behave like variables? | a function that captures its parameter and a global, shadows the global by a loop variable, and has a name site for it, as the main program has; 3 scopes, 1 inline slot, 1 closure | 173,000 |
| `dict_map` | Is the table a finite map, and does a removal return? | 4 keys, 2 values, 2 hash values of a 16-value word, capacities 4 and 8 (`MaxDoublings = 2`, of which four keys use one) | 46,600 |
| `loops` | Does a loop see each key once, each item in order, a range's progression, and does it end? | 3 keys with 4 hash values, arrays of 4 items and 4 deletions, bounds from -3 to 4 in either direction, steps from -1 to 3 whether they divide the distance or not, bad types | 245,000 |
| `calls_balance` | Are scopes, operands and defers accounted for? | 2 calls deep, 4 scopes, 5 operands, 2 defers, 2 blocks per call | 1,796,000 |
| `compiler_recovery` | Do the parser's globals survive every rollback, is every hole patched, is a failed statement reported? | statements begin within 8 words, 2 loops, 1 break per loop, 3 constructs deep, any statement malformed | 1,303,000 |
| `layout_blocks` | Do tokens follow the layout and blocks the tokens, behind any syntax error, and is every text read to its end? | texts of 6 symbols together, indentation 0 to 3, 3 levels, 2 files | 758,000 |
| `bytecode` | Is the code that stays that of the text: lines, tail calls, fused assignments, constants, captures? | 6 lines, 3 names, 4 levels of functions, 2 captures, 3 tracked locals; failed statements lose calls and functions | 591,000 |
| `modules_nesting` | Is every nest of imports, calls and errors safe for the collector and the modules? | 3 modules, 2 frames per VM | 122,000 |
| `terminal` | Is the buffer a text with a cursor, the ring the end of the file, and what is run what was typed? | 3 characters, lines of 2, a ring of 4 bytes, a file of 6 | 963,000 |

Each module also states its types (`TypeOK`, `LexerTypeOK`, `LoopTypeOK`, `TerminalTypeOK`,
`BytecodeTypeOK`, which says too that instructions tile the code). They hold in these runs, and section 6
has those that are proved; to see one checked, add its name to the run's `INVARIANTS`.

Why these bounds are enough. In `Heap` two containers are the least that can
point to each other across generations, and one location per kind plus one
spare is what a value needs to be held only by the remembered set, only by the
other VM or only by a pending capture; with `MinorThreshold = 2` a collection
falls between any two opcodes. In `HashTable` the first
capacity is 4 (16 in the code), so that it is full to the growth threshold with
three keys; the hash 15 falls in the last bucket at either capacity and 4 in
bucket 0 or 4, so clusters wrap around the end, keys of both hashes share one, and
a repair crosses from one into the other. In `Layout` six symbols are two blocks one in the
other with a statement each, or an erroneous header with its orphaned block and
a statement behind it, and every line among them may have any indentation; two
files are one import, which restores what it saved in the middle of a block's
file. `Bytecode` has six lines because it takes four to have a function, a
closure in it, a discarded statement and a use of the name it mentioned, and
one more to close each; two functions at one offset, one of them discarded, differ in the
name and the default of their parameter. In `Terminal` the ring of four bytes wraps with the
second line. `Calls` needs
two frames to have a caller, a callee and a frame used twice; stacks of 5 and 4
are hit. `Modules` needs three files for an import cycle that does not start at
its own head and for a call chain through two modules. The safety of the collector, modules, calls,
variables, the hash table and loops over it, the compiler's recovery, the code it emits, the layout and the terminal is also proved for all sizes (section 6); for the rest these
bounds are what there is.

The run that TLC ends with a counterexample (`heap_boxes`) is described in section 4.

Where a known defect would mask the rest of a component, a constant of the
model says whether programs contain the construct it needs, and the passing run
leaves it out:

| Constant | Run | What the run leaves out |
|---|---|---|
| `LoopVar` | `scopes_env` | loop variables that have their function's parameter's name |
| `LoopReturn` | `calls_balance` | returns from inside an iterating loop |
| `Source` | `compiler_recovery` | a syntax error in the postfix chain at the head of a `for`; an import inside a `while` |
| `Lost` | `bytecode` | failed statements that had compiled a closure's first assignment to a name before their error |
| `LeftMax` | `bytecode` | errors between two captures of one closure |
| `LocalMax` | `bytecode` | more names than the tables hold (set to more than the program has) |
| `Reenter`, `Deep` | `terminal` | entering a recalled line; walking back beyond the ring |

`heap_closures` has the box defect in it: what it shows is that
leaf, container and function cells stay safe in spite of it.

Every property of a passing run has a mutant in its module (`... Mutant: ...`),
a plausible slip in the code that the property catches.

`CHECK_DEADLOCK FALSE` is set only in the heap runs: their cell sets are finite
and a program that has used all of them and holds them may stop, as does one that crashed.

## 4. Known disagreements

One run ends with a counterexample, because the code does something else than
its own documentation says: `heap_boxes`, `ClosureBoxesNotFreed`. Nothing marks
`closure_box_pool`: the first collection frees the box that a live closure and its
function share, and the next capture is handed the same box (`vm.c:146`).

The others were met while modelling; no run is kept for them, but each is a
property of its module that fails in the configuration of its run with the change named
(for `Bytecode`, with that property as the only `INVARIANT`):

| Module, property | To see it | What happens |
|---|---|---|
| `Scopes`, `CacheHitWins` | as it is | A name site that cached a global's slot ignores the box that a closure moves the global into, and reads and writes the old word (`vm.c:637`; `vm.h:178` says no invalidation is needed, README.md:1462 of the repository that every access goes through the box). It also ignores a loop variable that shadows the global later (`vm.c:648`; README.md:1449 of the repository says the closer binding must keep winning). `StaleHit` in `RefinesEnvironment` states what such a site does instead. |
| `Loops`, `RangeStops` | `PROPERTY RangeStops` in `MCLoops.cfg` | With a step that does not divide the distance the loop passes its end, turns round and never stops (`vm.c:2396`; the comment at 2397 promises the opposite): `for i in 0..10..3` yields 0 3 6 9 12 9 12 and so on, which `RangeExact` states as what happens. |
| `Scopes`, `ParamIsLookup` | `LoopVar <- ParamLoopVar` in `MCScopes_env.cfg` | A parameter's name is compiled to its slot wherever it stands (`parser.c:187`; the comment at 182 says *identical behavior*), also in a `for` loop of a nested block whose variable has that name: in a `function f(p)`, `if true: for p in 1..3: print(p)` prints the parameter. At the top level of the body the loop variable takes the parameter's own slot, and the two agree. |
| `Calls`, `OperandsAccounted` | `LoopReturn = TRUE` | `return` from inside a for-each or range loop leaves the iterator's words under the result (`parser.c:1633`): `100 + f(1)` gives 2. |
| `Calls`, `CallDepthIsTheLimit` | `ScopeMax = CallMax` | Every call takes a scope too and the global scope is one of the 64, so the 64th nested call fails with the scope limit (`vm.c:1648`; documented as 64 frames). |
| `Compiler`, `AllErrorsReported` | `Source = {"fault"}` | `parse_compound` resets `parse_had_error` before each statement and accumulates nothing: an error in a block is forgotten when the block's next statement is fine, and the exit status is 0 (`parser.c:985`). |
| `Compiler`, `PatchesAreHoles` | `CodeMax = 10` | A `break` that was rolled back with the statement around it stays in the loop's patch list; `finish_loop` overwrites what was emitted there since (`parser.c:1082`). |
| `Compiler`, `ContextMatches` | `Source = {"fault", "postfixFault"}` | An error in the postfix chain at the head of a `for` leaves `loop_depth` incremented; a later top-level `break` is accepted (`parser.c:1176`). |
| `Compiler`, `ImportsAtTopLevel` | `Source = {"import", "loopImport"}` | `import` is accepted in a top-level `while` loop, whose body opens no scope (`parser.c:1327`). |
| `Lexer`, `RaggedLinesReported` | `PROPERTY RaggedLinesReported` in `MCLayout_blocks.cfg` | A line indented less than the first level but not to column 0 is accepted; one that fits no deeper level is an error, but its levels are popped without a DEDENT, so the statements behind it stay in the open block (`lexer.c:368`). The error is forgotten when the parser consumes a NEW_LINE (`parser.c:985`). Blanks at the end of the text close levels without a DEDENT (`lexer.c:372`). |
| `Layout`, `RecoveryKeepsBlocks` | `INVARIANT RecoveryKeepsBlocks` | `if x: print(0)` on one line reads the next line's beginning as its block and takes the rest of the file for it (`parser.c:981`); a DEDENT that an expression's `require` reads over leaves a block open; an INDENT that recovery reads over closes one early (`parser.c:999`). |
| `Bytecode`, `TailCallsAreReturnedCalls` | as it is | A discarded call leaves `last_bare_call_end` behind. A later return whose value ends at that very word is patched four words back to a tail call of something else, `return -y` for one (`parser.c:1642`; the comment at 85 calls the test a robust proof). `RewrittenCodeMatchesText` states that this is all the harm a stale end does. |
| `Bytecode`, `FunctionsAreTheirOwn` | as it is | A function discarded with its statement leaves its constant; the next one at that offset with as many parameters gets it, with the old defaults (`vm.c:531`). `RewrittenCodeMatchesText` states that no other constant is ever taken. |
| `Bytecode`, `UpvaluesAreTheNamed` | `LeftMax = 1` | An undefined second name leaves the first one's box in `pending_upvalues`; the next closure of the session starts its upvalues with it (`vm.c:1990`). |
| `Bytecode`, `FirstAssignmentDefines` | `Lost = {"define"}` | A closure's first assignment to a name was discarded, but the name counts as local: the next one is an `OP_STORE` that walks up and overwrites a global (`parser.c:212`). |
| `Bytecode`, `FirstAssignmentDefinesHere` | as it is | The same without an error: the first assignment stands in an `if`, whose scope is gone when the second is executed (`parser.c:212`). |
| `Bytecode`, `CapturesAreUsed` | as it is | A discarded read leaves its name captured; making the closure then fails if the name is not defined (`parser.c:152`). |
| `Bytecode`, `OneMeaningPerName`, `SettersCapture` | `LocalMax = 1` | A name beyond the 32 tracked ones changes its meaning between two uses, or a setter makes a local of its own (`parser.c:119`, `parser.c:148`; README.md:631 of the repository says the setter works). |
| `Bytecode`, `ErrorsNameTheirStatement` | as it is | An error in the last instruction of a statement is reported with the line of the next (`vm.c:472`). |
| `Terminal`, `TypedIsRead` | without its guard `erased < 2`, and with `typed` kept in `Erase` and appended to in `Enter` whatever `erased` is | Backspace leaves the last character behind the text; after two of them the shell reads characters behind the newline that were erased (`terminal.c:249`). |
| `Terminal`, `RingIsTail` | `Reenter = TRUE` | A recalled line that is entered is written over older entries in the ring (`terminal.c:261`). |
| `Terminal`, `RefinesEditor` | `Deep = TRUE` | Walking back further than the ring holds shows bytes of newer entries (`terminal.c:202`). |
| `Modules`, `IdleModulesAreReset` | any | A module call that fails leaves its frames on the module's VM; after some 63 such calls its functions fail for good (`aer_module.c:247`, against the contract at `vm.h:285`). |
| `Heap`, `MinorSkipsOldCells` | `MCHeap_containers.cfg` | A minor collection traces old cells too, contrary to the comment at `vm.c:264`: slower than meant, not wrong. |
| `Heap`, `RememberedBitMatchesSet` | `MCHeap_containers.cfg` | A cell that is freed and reused loses its remembered bit while its entry stays, and can be entered again each time (`pool.c:60`): harmless to safety, but the set grows. |

## 5. Fairness and liveness

Three properties are liveness properties.

- `RemoveReturns` (`HashTable`) assumes weak fairness of `Repair`: the steps of
  one C loop, which nothing can interrupt.
- `DividedRangeStops` (`Loops`) assumes weak fairness of the opcodes of the loop, a
  `break` excluded: the VM executes the next opcode as long as there is one,
  and nothing forces a program to break. Of ranges whose step does not divide the
  distance it says nothing: the same claim for them (`RangeStops`) is violated by a
  lasso under that same fairness (section 4).
- `ParseEnds` (`Layout`) assumes weak fairness of the parser's steps, which
  nothing interrupts either; nobody need type another line.

The other specifications are safety specifications and state no fairness: a
program may stop at any point.

## 6. What is proved

`HeapProofs` proves with TLAPS, for every choice of cells, locations,
thresholds and nesting, from `HeapAssumption` alone (the kinds of cell are
disjoint, so are the kinds of location, and the thresholds are numbers):

| Theorem | Statement |
|---|---|
| `HeapTypes` | `Spec => []TypeOK` |
| `HeapInvariant` | `Spec => []HeapInv`, the inductive invariant |
| `CollectorIsSafe` | `Spec => []ReachableNotFreed` |
| `RememberedSetIsSafe` | `Spec => []RememberedNotDangling` |
| `MajorLeavesReachable` | `Spec => [][MajorCollect => (carved' \ free') \cap ValueCell = Reachable]_vars` |
| `GarbageIsReclaimed` | `Spec => MajorReclaimsGarbage`, if `Box = {}` |
| `CeilingIsExceeded` | `Spec => CeilingErrorIsReal`, if `Box = {}` |

`ReachableNotFreed` is not inductive. It speaks of what the program reaches
now; the next minor collection also follows `remembered_set`, whose entries may
be garbage or reused cells. And reachability itself is a fixed point, about
which induction over paths would be needed. `HeapInv` avoids both: there is a
set `S` of allocated cells that contains every root and everything a live
remembered entry holds and that is closed under children. Each opcode keeps
it with the same `S`, or with `S` and the new cell; a collection keeps it with
the cells that it marked (`TraceMarking`: for a minor pass, everything marked
is allocated because `S` bounds the trace, and what is marked survives the sweep). `Shape`
adds what does not depend on `S`: suppression is on exactly while a module
runs, which is why a collection never runs with the main VM's locations
invisible to it, and pointers only go to cells the pools handed out.
`CollectorIsSafe` follows because `Reachable` is the least closed set and `S`
is a closed one.

The last three look at a major collection from the other side. What it leaves
are the cells it marked, and with no module running those are the reachable ones
(`MajorLeavesReachable`, for any program). That they still are afterwards, which
`MajorReclaimsGarbage` asks, is false of programs with closures: every collection
frees their boxes (section 4), and what only a box held is lost with it. `Box = {}`,
a program that captures nothing, is what `heap_containers` checks, the run of both
properties. For `CeilingErrorIsReal`, `Settled` adds that no opcode runs between the
forced collection and the verdict on the ceiling.

`SessionProofs` proves about `Modules`, for any set of files, any import graph and any limit of
nested calls, from `ModulesAssumption` (the main program is not one of finitely
many files; the limit is a positive number):

| Theorem | Statement |
|---|---|
| `ModulesTypes` | `Spec => []TypeOK` |
| `ModulesInvariant` | `Spec => []ModulesInv`, the inductive invariant |
| `ModulesLoadOnce` | `Spec => []LoadedOnce` |
| `SuppressionBalanced` | `Spec => []SuppressionEnds` |
| `CollectorSees` | `Spec => []CollectorSeesAll` |
| `NoReentry` | `Spec => []NeverReentered` |

None of the last four is inductive. What keeps a module from being entered twice is not
checked anywhere in the code: a file that is being loaded cannot be called because
it is not registered, and a registered one calls only modules registered
before it, because it could import only those. `ModulesInv` says so (`Registered`,
`ImportsBefore`), and that a nest is parses, at most one load or main run, and
calls, any two of which stand in the order of registration (`Nest`,
`CallChain`); stated for any two calls and not only for neighbours, it
needs no induction over the chain. `Suppressions` counts `suppress` by the
lengths of the nest and of `loading_stack`. From it follows that the collector runs only
while the main program is alone (`CollectorSees`).

`CallsProofs` proves, for stacks of any height and any number of parameters,
defers and blocks, from `CallsAssumption` (the limits are natural numbers):

| Theorem | Statement |
|---|---|
| `CallsInvariant` | `Spec => []CallsInv`, the inductive invariant |
| `CallsTypes` | `Spec => []TypeOK`: no stack grows beyond its limit |
| `ScopesOfCalls` | `Spec => []ScopesAccounted` |
| `OperandsOfCalls` | `Spec => []OperandsAccounted`, if `LoopReturn = FALSE` |
| `DefersAreOwn` | `Spec => []DefersBelongToCall` |
| `DefersAllRun` | `Spec => NoDeferLost`, an action property |

The VM keeps one number per frame, the scope depth to return to; what a call has on the
stacks otherwise is known at compile time only. `Balanced` says of every
activation, waiting or running, that the two agree: its open blocks and operands,
counted from where it began, end exactly where its callee begins, or at
the top of the stacks. That is stated for each frame on `call_stack` and the next one, so
that no sum over the stack is needed; a frame's blocks are counted as the
cardinality of a set of positions. A running call has one operand when it
returns and none while it drains its defers, a waiting one none. A frame's words outlive
it, so that the count of defers is that of this very activation is part of the
invariant too. The hypothesis of `OperandsOfCalls` leaves out returns out of an
iterating loop, which break it (section 4); the other five need no such hypothesis.

`CompilerProofs` proves, for code of any length and constructs nested to any depth, from
`CompilerAssumption` (the limits are natural numbers):

| Theorem | Statement | If `Source` has no |
|---|---|---|
| `CompilerInvariant` | `Spec => []CompilerInv`, the inductive invariant | `postfixFault` |
| `CompilerTypes` | `Spec => []TypeOK`: loops and patch lists stay within their arrays | `postfixFault` |
| `ContextFollows` | `Spec => []ContextMatches` | `postfixFault` |
| `FilesInvariant` | `Spec => [](CompilerInv /\ FilesInv)` | `postfixFault`, `loopImport` |
| `NoHoleForgotten` | `Spec => []HolesAccounted` | `postfixFault`, `loopImport` |
| `FailuresReported` | `Spec => []FailedStatementsReported` | `postfixFault`, `loopImport` |

`CompilerInv` says that the globals `loop_depth`, `loop_floor`,
`compile_scope_depth` and `function_depth` count the constructs that are open,
and that what a construct saved of them, to be put back when it ends or
fails, counts those around it; that the lengths to which code is rolled back do
not decrease inwards (`SavedOrdered`), so that truncating never cuts into an outer
construct; and the same for the parse of a file around an import
(`FilesSaved`). `FilesInv` adds where each hole of the code belongs (`Accounted`) and
who knows of a failed statement (`FailureKnown`). It needs that the files being parsed lie
below all other constructs (`FilesFirst`), which is what `import` inside a
`while` breaks. Both hypotheses leave out one documented defect each (section 4):
`fault` and `import`, any error anywhere else and any nest of imports, are allowed.

`LayoutProofs` proves, for any widths, any number of levels, any text and any nest of
files, from `LexerAssumption` and `LayoutAssumption` (widths are numbers, 0 among them;
two levels at least and one file):

| Theorem | Statement |
|---|---|
| `LayoutInvariant` | `Spec => []LayoutInv`, the inductive invariant |
| `LayoutTokens` | `Spec => []TokensFollowLayout` |
| `BracketsHoldNoLayout` | `Spec => []NoLayoutInBrackets` |
| `BlocksOfLayout` | `Spec => []BlocksFollowLayout` |

`TextInv` speaks of a text as `lexer_save_state` keeps it: `indent_stack` ascends, it
holds the levels that the offside rule leaves open behind the lines measured, and the
tokens given out, with the DEDENTs still queued, are as many. One predicate serves
the text being read and those that wait for an import to end (`BlocksInv`),
so `lexer_restore_state` needs no argument of its own. `Counted` ties the open
blocks of the parser, with those that `skip_orphaned_block` reads over, to the tokens it
has read; it is stated for texts that are neither `spoilt` nor `astray`, as the
properties are.

`HashTableProofs` proves, for any finite set of keys and any hash of each, from
`HashTableAssumption`: hashes wrap in a word of which every capacity is a divisor
(hashes are 64 bits wide, capacities powers of two), the load limit leaves an empty bucket in the smallest
table (16 buckets at 70 percent do), and `MaxDoublings`, the model's bound on growth, is
one that a table of all the keys does not meet:

| Theorem | Statement |
|---|---|
| `HashTableInvariant` | `Spec => []HashInv`, the inductive invariant |
| `HashTableTypes` | `Spec => []TypeOK` |
| `CountIsExact` | `Spec => []CountExact` |
| `ChainsUnbroken` | `Spec => []ProbeChainsUnbroken` |
| `NoRehashInRepair` | `Spec => RepairNeverRehashes`, an action property |
| `ImplementsDict` | `Spec => RefinesDict`, the refinement |

Buckets are compared by their distance from a key's home, round the end of the table.
Between operations the table is `Linked`: no entry has an empty bucket between its home
and itself. A removal breaks that until its loop ends. Meanwhile exactly
one bucket is a hole that probe sequences may lead over, the loop stands before the end of the
cluster behind it, and no entry that it has put back lies behind the hole
(`Detour`); when the loop meets an empty bucket, nothing lies behind the hole any
more. That the put inside the loop never grows the table, whose buckets the loop is
indexing, follows from the count being one less than before the removal.
`ImplementsDict` is by steps: each operation is the step of `Dict` of that name on the
entries of the buckets, and a step of the repair loop is a stutter, because what it takes
out is back when the step ends. It covers the safety part of the refinement, which is
all `Dict` states.

The same module proves, for loops over tables and arrays of any size with any body that
`Loops` allows, and for ranges of any bounds, from `HashTableAssumption` and
`LoopsAssumption` (bounds and steps are integers, items numbers):

| Theorem | Statement |
|---|---|
| `KeysVisitedOnce` | `LoopSpec => []VisitsEachKeyOnce` |
| `ItemsVisitedInOrder` | `LoopSpec => []VisitsItemsInOrder` |
| `RangesAreExact` | `LoopSpec => []RangeExact`, for any bounds and steps |

`VisitInv` adds to `HashInv` that until the body reshapes the table the keys
given out are those of the buckets before `idx`, each once; assigning to a key
that is present moves no entry (`UpdatedWhole`), and that is all a body may do then.
`ItemsInv` keeps both the items and what was given out in rising order, the rest of the array above all
that was given out, and the positions before `idx` that hold something else (`Missed`,
those behind the end of a shortened array with them) at most as many as
the deletions: each deletion makes the loop skip one item at most. `RangeInv` says where a
range is (`Whereabouts`): as long as it has not passed its end (`Come`), some number of steps from
its first value, with exactly the values before that given out; from then on (`Passed`)
at the last value before the end or at the one behind it, with the whole progression
given out, and that one value behind it from the second visit on. `NextValue`,
`ProgressionValues` and `BeyondValues` are the arithmetic of one step. A step of
any size is covered, also one that passes the end at once.

`ScopesProofs` proves, for any program, any number of scopes, calls and closures and any
size of the inline part, from `ScopesAssumption` (the parts of a program are functions on
its sets; markers are not values; the limits are positive):

| Theorem | Statement |
|---|---|
| `ScopesInvariant` | `Spec => []ScopesInv`, the inductive invariant |
| `ScopesTypes` | `Spec => []TypeOK` |
| `CapturedPayloads` | `Spec => []CapturedPayloadNotFreed` |
| `CachedAddresses` | `Spec => []CachedIsGlobal` |
| `ParamsAreLookups` | `Spec => []ParamIsLookup`, if `ParamsApart` |
| `ScopesRefineEnvironment` | `Spec => RefinesEnvironment`, if `ParamsApart` |
| `FreshSitesRefine` | `Spec /\ [](\A s \in Site : ~Stale(s)) => Env!Spec`, if `ParamsApart` |

`StoreOk` says that no two bindings share a location (`DistinctLocs`), and that what is
bound, or held by a closure or a call of one, is not freed (`Live`): a scope whose map
had a payload captured is never freed with its payloads, because `captured`
was set when the box was handed out. `FramesOk` gives each call the scopes from its floor up,
`CacheOk` makes a cached address that of a slot of the global scope, which is never popped
while a program runs. `CacheInv` adds, for every program, that the global scope has each
name in one slot at most (`GlobalsOk`) and that a cached address is that of the slot with the
site's own name (`KeptOk`). So a cached address is what a lookup finds unless a
closer binding or a capture has overtaken it (`KeptWins`): `CachedIsGlobal`. That it wins
even then, as the documentation has it (`CacheHitWins`), is false of AER (section 4).

`LinkInv` adds, for any program that satisfies `ParamsApart` (no loop variable has the
name of its function's parameter), that a scope binds a name in one place, a slot or
its map, never in both (`OneHome`); that a location a closure holds is in no slot that
is not boxed (`HeldBoxed`); and that a running function's parameter is in the first
slot of its call's first scope and in no other scope of that call (`ParamsOk`), from which
`ParamIsLookup` follows. Without the hypothesis it is false of AER (section 4, a loop
variable with a parameter's name). The program of `scopes_env` satisfies it.

`ScopesRefineEnvironment` stands on `ScopesInv`, `CacheInv` and `LinkInv`. An address,
of a slot or of a box, *leads* to a location (`Leads`): reading it gives the value
that the location has under the mapping (`LeadsReads`), and writing through it changes the
value of that location and no other (`LeadsWrites`), since no two bindings share one. A
lookup of `Scopes` leads to where the lookup of `Environment` ends (`FoundLeads`);
so do a cached address that nothing has overtaken (`CacheInv`), a parameter's slot (`ParamsOk`) and an upvalue
(`HeldBoxed`). With that, each handler maps to a step of `Environment`: reads
to `Read`, stores to `Assign` or `Update`, loop variables to `Define`, the ends of scopes
to `PopScope`, `Return` or `Restart`. Moving slots
into boxes changes where a value is kept but not the value of a location
(`BoxMaps`), so a capture that fails half way is a stutter. A visit of a site whose address
was overtaken is a `StaleHit`: if the global is only shadowed, its address still leads
to it; if it is boxed, the word in its old slot belongs to no location any more
(`DeadWrites`), so writing there changes the value of none. `FreshSitesRefine` is the
unqualified refinement for the behaviours in which no such site is reached.

`SessionProofs` proves about `Terminal`, for any characters and any sizes of a line, of
the ring and of the file, from `TerminalAssumption` (the characters are no NewLine and no
Nul; the sizes are numbers) and `WithinRing`: no line is entered while an older one is
shown (`Reenter = FALSE`) and no arrow goes further back than the ring (`Deep = FALSE`),
without which the ring and the recalled lines are wrong in AER as it is (section 4). The
run `terminal` has the same two values, and the ring wraps all the same.

| Theorem | Statement |
|---|---|
| `TerminalTypes` | `TerminalSpec => []TerminalTypeOK` |
| `TerminalInvariant` | `TerminalSpec => []TerminalInv`, the inductive invariant |
| `RingHasTail` | `TerminalSpec => []RingIsTail` |
| `TypedIsRun` | `TerminalSpec => []TypedIsRead` |
| `TerminalRefines` | `TerminalSpec => RefinesEditor` |

`RingIsTail` is not inductive: a line is written into the ring at `history_position`, so
that must be the end when a line is entered, and a cell the line is written to must
not be one of the bytes that the file's end still has there; that two positions less than
`COMMAND_SIZE` apart never share a cell is `SameResidue`. `AtEntry` keeps
`history_position` at a line's start whose bytes are all in the ring, so that
an arrow finds whole entries (`UpEntry`, `DownEntry`): the NewLine that it
stops at is one of the file's. `TypedIsRead` needs what the buffer has behind the text
(`BehindOk`): nothing, or as many stale characters as the line had erasures, and `Enter` puts
its NewLine over the first of those. `TerminalRefines` then compares sequences: what
`memmove` leaves in the array is the text with a character more or less
(`InsertedFacts`, `WithoutFacts`), what an arrow copies is one entry of the file, and
collecting, running and a new session change nothing that `LineEditor` sees.

`CompilerProofs` also proves about `Bytecode`, for any text, any names, code and functions
of any length and depth, from `BytecodeAssumption` (a line has an expression or a signature of
names; the limits are numbers):

| Theorem | Statement | If |
|---|---|---|
| `BytecodeIsSound` | `BytecodeSpec => []BytecodeInv`, the inductive invariant | `[]NoCallLost` |
| `BytecodeHasTypes` | `BytecodeSpec => []BytecodeTypeOK`: instructions tile the code | `[]NoCallLost` |
| `LinesAreOfTheirStatement` | `BytecodeSpec => []LinesNameTheirStatement` | `[]NoCallLost` |
| `RewrittenCodeIsRight` | `BytecodeSpec => []RewrittenCodeMatchesText` | `[]NoCallLost` |
| `UpvaluesAreRight` | `BytecodeSpec => []UpvaluesAreTheNamed` | `[]NoCallLost`, `LeftMax = 0` |
| `CaptureRuleIsKept` | `BytecodeSpec => []NamesFollowCaptureRule` | `[]NoCallLost`, `"define" \notin Lost`, `NamesTracked` |

The hypotheses leave out what section 4 shows to go wrong. `NoCallLost` is about the behaviour
and not about the text: no statement that has failed so far had compiled a call, whose
`last_bare_call_end` would let a later `return` patch a word that is not a call. The
other is an error between two captures, whose boxes stay in `pending_upvalues`. Any other
statement may fail anywhere, inside any nest of functions and blocks, and be rolled back,
whole functions among them.
For the capture rule they are a discarded `OP_DEFINE`, whose name stays in the closure's
locals, and more names than `local_names` has room for (`NamesTracked`: at most
`LocalMax`, 32 in `parser.c`), which the parser forgets. The run `bytecode` satisfies those of the constants, and checks its four
properties without `NoCallLost` too, with calls discarded.

None of the properties is inductive: they speak of the code that is there, and a
rollback returns to code that was there when an enclosing statement began. `Settled`
says what every such point needs. The code is tiled by instructions (`Sound`); an open
frame remembers a length that is a boundary of it, with as many marks as lie below
(`FramesOk`, `IsBase`), outermost first; marks ascend and those in effect for the code below a
base lie among the base's marks (`MarksOk`, `LinesOk`), so truncating both leaves each instruction its line. A
`TAIL_CALL` is followed by its `RETURN`, a `COMPOUND` is whole, and a `CALL` that
`last_bare_call_end` may point to ends there (`CallKnown`, `TailsOk`, `FusedOk`): a
patch finds the call itself. A function constant is loaded by code behind its body, which
is no open one, or was left by a function that was discarded (`FunctionsOk`); so the
constant found for a function is its own or one of those. An upvalue
instruction of a body that is still being parsed has the slot of its name in `captured`,
that of the parser or of the frame it is saved in, and those lists only grow (`SlotsOk`); when the
closure is emitted, they become the list of its `MAKE_CLOSURE` (`ClosuresOk`). `RunInv`
says that `pending` is empty and `made` is of a closure in the code.

Handlers emit one instruction after another, and the properties do not hold in
between in the same form (`POP_SCOPE` has no line, a patched call is not yet followed by
its `RETURN`). The relation `Adds` says what a run of emissions may change: code is only added
behind the old end, whole instructions of the current line and body, and names are only
added to what the parser tracks. It is transitive, each helper is shown to satisfy it
once, and a handler's proof composes them.

The capture rule compares instructions of one body with each other and with those
written in the enclosing body before it, so it needs what the parser knows of
every body that is not finished. `Named` says it: of the finished ones the rule itself
(`RuleInv`), of the one being parsed, and of each that a frame has put aside, `Known`: its
upvalue instructions are for names in `captured`, its other ones for names in
`locals`, which are disjoint; a local is a parameter or has its `OP_DEFINE`; what the function
around a closure has stored before it is in `outer`, and none of the closure's own
names is among that. `Known` holds after each instruction with two excuses: a name
classified a moment ago has its `OP_DEFINE` still to come, and in a statement that has failed
(`MAX_CAPTURES`) a name that found no room is not in `captured`. The rollback takes
exactly the code that needs the second excuse, but no tracked name, and without a
discarded definition no name loses the reason it is tracked for (`RolledKnown`). `Tracked`
is the form in which the helpers pass it on, and `HeadOf` and `DepthOk` tie what a frame saved
to the `OP_PUSH_SCOPE` of its body and to the depth it is parsed at, so that what is put back
(`Outside`) is again what is known of that body.

`DataFacts` has what these proofs share: sequences that are cut, extended or
changed in one place, how many positions of a sequence satisfy a condition,
and induction over a set of natural numbers, which replaces the library's rule.

Every invariant and action property of the runs is stated by one of these theorems. Out of the prover's reach and left to TLC: the three liveness properties (and anything
about `ENABLED`), and what a recursive definition or a fold computes on any
input, so what `Trace` computes step by step or what `SumOf` returns: the library's
induction theorems take an operator as parameter, which the provers cannot instantiate.
Where a proof needs induction it is over a set of numbers (`SetInduction`).

## 7. What is not modelled

- *Heap*: shape instances are containers; the worklist of `mark_drain` is its
  fixed point; after a ceiling error one more opcode runs before the next
  `DISPATCH()` stops the VM, where the model stops at once; finalizers are the
  loss of a cell's contents.
- *Scopes*: names are resolved per site and not parsed; `MAX_CAPTURES` is not
  reached; an error between two captures of one function is not modelled.
- *Calls*: argument types, defaults, struct constructors, host calls.
- *Heap, HashTable*: the memory ceiling, which the code does not enforce while
  collection is suppressed; the wrap of `count * 100` at 32 bits (`hashtable.c:22`).
- *Loops*: ranges near the limits of `long long`.
- *Compiler*: of expressions, `Bytecode` has literals, names, calls and a minus:
  no operators, index and field chains, pipes, conditional expressions,
  struct declarations, destructuring or `defer`. In `Compiler` which tokens recovery
  skips is left open, so after an error any statement may follow; `Layout` has that
  part, without what is emitted.
- *Lexer*: what names, numbers and strings spell; interpolation, which
  `parser.c` does.
- *Chunk*: shapes; strings and numbers of the constant pool, whose interning
  cannot be observed.
- *Terminal*: `refresh()` and the terminal's modes; the growth of the buffer,
  with the byte behind it that a full line writes (`terminal.c:254`).
- *Modules*: path search, `AER_PATH`, two files of one name, function values
  that cross modules.
- *Values, standard library, JSON*: pure functions over wide words and text
  without state between calls, which unit tests reach.
- *File handles, host registry*: a table of slots that are taken and freed, and an
  add-only list; nothing but the limit could go wrong in them.

## 8. Plan

Done, in this order: `Heap` and its proofs (the behaviour everything else
stands on), `Scopes`, `HashTable`, `Calls`, `Compiler`, `Modules`, `Loops`, `Lexer` and
`Layout`, `Terminal`, `Bytecode`, and the proofs about `Modules`, `Calls`, `Compiler`,
`Layout`, `HashTable`, `Scopes`, `Loops`, `Terminal` and `Bytecode`.

To extend:

1. `MarkWorklist`: `mark_value` and `mark_drain` with their explicit worklist,
   shown to compute `Trace`; `Pool`: slabs, bump index and linked free list,
   shown to implement the sets of `Heap`.
2. `Modules` with function values that cross VMs, and two files of one name.
3. `Bytecode` with index chains and destructuring, once they are worth their
   states.

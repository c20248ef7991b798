# Verification of wcc

wcc compiles C to x86-64 assembly. This directory holds TLA+ models of its
core, the TLC configurations that check them on small instances, and proofs
of what matters most for every instance.

## The system

`main` (main.c) runs each input file through the preprocessor (cpp.c), the
parser (parser.c, with lexer.c, constexpr.c, types.c, scopes.c) which emits
intermediate code (IR, ir.c) as it goes, and then `run_compiler_phases`
(wcc.c:47-152) on every function; it starts `as` and `ld` on the results. One
thread does everything: what makes the code hard is not concurrency but long
sequences of passes over shared tables, each relying on what the one before
left.

| component | state | operations | correct when |
|---|---|---|---|
| hash maps and sets (strmap.c, longmap.c, strset.c, longset.c) | slots with keys, values, tombstones; used and element counts | put, get, delete, rehash, empty, iterate | it is a map: a key has the value it was last put with and is gone after a delete; searches end |
| preprocessor (cpp.c) | text position, stack of conditional groups, directives (a StrMap), include depth | one action per directive, macro expansion, include | the groups that are kept are those C says; each `#if` is closed in its file; includes are bounded |
| parser, lexer, scopes, types, constexpr | current token, scope chain, IR under construction | one function per construct | types and constant values are those of C |
| functions and ABI (functions.c) | where each parameter and result travels | classify, move arguments, parameters, results, varargs | caller and callee agree; a moved argument reaches the call |
| flow graph and dominance (ssa.c, graph.c) | blocks, edges, dominators, frontiers | build, iterate to a fixed point | textbook definitions, on reachable blocks |
| liveness (ssa.c) | live-out sets with versions | iterate to a fixed point | the least solution of the equations |
| SSA, live ranges, coalescing (ssa.c) | phi functions, subscripts, interference graph | insert, rename, unite, merge | each use gets the value of the definition that reaches it |
| interference graph (ssa.c) | edges between vregs and registers | one walk backwards over the code | whatever lives together or is clobbered has an edge |
| register allocator (regalloc.c) | place of each vreg, stack slots | order, colour, spill, renumber, assign | no two interfering vregs share a place; no needless spill |
| instruction selection (instrsel.c, instrrules.c, ...) | expression trees, rules, costs | merge trees, tile, emit, spill code | the code computes the tree |
| code generation (codegen.c) | stack frame, final instructions | lay out, finalise, merge rsp adjustments, print | offsets match, the stack is aligned at calls |
| driver (main.c) | file lists, temporary files, status of the last tool, exit code | preprocess, compile, assemble, link | success means that every output was made |

They interact by shared state, in the order of `run_compiler_phases`: the
liveness sets feed the interference graph, which feeds the allocator, whose
places the code is rewritten to; the maps are under all of them (LongSet is
what `livenow` and `liveout` are made of, StrMap holds the directives and the
symbols).

What is hard to test: an allocation is wrong only for programs with just the
right pressure; a map only after just the right deletions and collisions; a
fixed point only for flow graphs with just the right loops. `PROJECT.json`
lists these hazards at their lines, with the properties that cover them.

## The modules

| module | models | checked by | proofs |
|---|---|---|---|
| `RegisterAllocation` | regalloc.c: the two colouring passes | run RegAlloc | `RegisterAllocation_proofs` |
| `Liveness` | ssa.c: `make_liveout` | run Liveness | `Liveness_proofs` |
| `KeyValueMap` | what a map promises (abstract) | | |
| `HashMap` | strmap.c, longmap.c | runs HashMapPromise, HashMapDeleted | `HashMap_proofs` |
| `CodeFacts` | what ssa.c computes from code alone: upward exposed and killed vregs, live-out sets, spill costs | runs AllocatedCode, Coalesced | |
| `ControlFlow` | ssa.c: `make_control_flow_graph` to `make_block_dominance_frontiers`; graph.c | run FlowOfControl | `ControlFlow_proofs` |
| `PhiInsertion` | ssa.c: the work list of `insert_phi_functions` | run FlowOfControl | `PhiInsertion_proofs` |
| `SsaForm` | ssa.c: globals, phi functions, renaming, `make_live_ranges`, `blast_vregs_with_live_ranges`; extends `ControlFlow`, instantiates `PhiInsertion` | run FlowOfControl | `CoalescedCode_proofs`: phi functions, renaming, live ranges |
| `Coalescing` | ssa.c: `coalesce_live_ranges`; extends `Interference` | run Coalesced | `CoalescedCode_proofs`: operands stay apart |
| `CoalescedCode` | wcc.c from `analyze_dominance` to `coalesce_live_ranges`, and the code before and after side by side; composes `SsaForm` and `Coalescing` | runs FlowOfControl, Coalesced | `CoalescedCode_proofs` |
| `Interference` | ssa.c: `make_interference_graph` | runs AllocatedCode, Coalesced | `AllocatedCode_proofs`: what it hands over, and what its edges cover |
| `Instructions` | the instructions instrrules.c and functions.c produce for an operation | run AllocatedCode | |
| `AllocatedCode` | preferences, `assign_vreg_locations`, `add_spill_code` (instrsel.c), and the code running in the places it was given; composes `Interference` and `RegisterAllocation` | runs AllocatedCode, StructArguments | `AllocatedCode_proofs` |
| `Macros` | cpp.c: macro expansion, hide sets, `##`, arguments | run Translation | |
| `Preprocessor` | cpp.c: directives, conditional groups, includes, the lines of the output; extends `Macros` | run Translation | |
| `Driver` | main.c: options, the loops over the inputs, assembler and linker; extends `Preprocessor` | run Translation | |
| `Translation` | what preprocessor and driver promise, without their algorithms | run Translation | |
| `Layout` | types.c: sizes, alignments, offsets of members, the scalars of a structure | run Compiled | |
| `CallingConvention` | functions.c: where each parameter, argument and result is | run Compiled | |
| `IntermediateCode` | ir.c: copies of structures, the order of arguments, vregs and stack indexes of locals, long doubles | run Compiled | |
| `FunctionCalls` | functions.c: the moves of parameters, arguments and results, va_start and va_arg | run Compiled | |
| `Emission` | codegen.c: frame, prologue and epilogue, alignment of calls, nops, merging of rsp adjustments | run Compiled | |
| `CompiledCalls` | parser.c: the code of calls; the passes of wcc.c in their order; a machine of bytes that runs the result; extends the five above | run Compiled | |
| `StatementOrder` | the order of evaluation C prescribes (reference) | run Statements | |
| `Statements` | parser.c: statements and the operators that jump; ir.c: merging and renumbering of labels; the code beside the reference | run Statements | |
| `CodeFacts_proofs` | induction and recursion over natural numbers, and what follows for `LiveOut` and `LiveAfter`, for the proofs | | itself |
| `MC...` | instances for TLC | | |

### RegisterAllocation

Vregs are numbers; the first ones stand for the allocatable registers, as in
the code. The inputs of the phase (graph, classes, costs, preferences, slots of
pushed parameters, slots in use) are variables no action changes, so that Init
ranges over everything earlier phases may hand over. `OrderNodes` is
`allocate_registers_top_down` up to its three loops: the buckets and the cost
order are the relation `Before`. `SpillVreg`, `TakePreferred` and
`TakeFirstFree` are the three outcomes of `color_vreg`, `NextPass` and
`RemapPregs` the rest of `allocate_registers`. A vreg is one step, because
`color_vreg` reads what the calls before it wrote.

### Liveness

`RecomputeBlock` and `SkipBlock` are one turn of the loop over the blocks,
`EndPass` the test of `changed`. Parallel edges to one successor have one entry
in `seen`: the code compares each of them with the same version.

### HashMap

One slot is what the code keeps in `keys[pos]` and `status[pos]`. A search is
not a loop but the first slot, in probe order from the hash of the key, at
which the loop stops. `strmap_put` is split where `maybe_rehash` moves entries,
so that the old and the new table are both visible; nothing else runs in
between. `RePuts` says whether callers may put a key that is in the map while
the table has tombstones. With `RePuts` false the table implements
`KeyValueMap`; with it true, HashMapDeleted finds the duplicate described
below.

### Interference, Instructions, AllocatedCode

`Interference` walks the blocks backwards and adds the edges of one tac in one
step; each group of edges is an operator named for the reason for it. The two
flags of the function are constants. `Instructions` builds the tacs of an
operation in the form they have after instruction selection, with the
`live_range_preg` marks of functions.c. In `AllocatedCode` a behaviour is: choose
a function of `Programs`, build its graph, allocate, add spill code, then run.
Spill code turns each tac into instructions on places: registers, slots, and
the two registers per class that `get_spill_register` keeps for loads and
stores; `ip` is a block, a tac and one of its instructions. A self move only
gives the value in a place another name. While the code runs, `holds` says which vreg's current value is in which place; an
instruction forgets what it overwrites, a copy brings along whatever is in its
source, and a call forgets what its callee may change. This is an independent
definition of what the graph, the allocator and the spill code must prevent
together: it mentions none of them.

### ControlFlow, PhiInsertion, SsaForm, Coalescing, CoalescedCode

A behaviour is the compilation of one function, from the code of the parser.
`stage` names the function of ssa.c that is at work. The loops whose partial
results could be wrong are walked step by step: a block in a round of the
dominators and of the immediate dominators, a call or return of `make_rpo`, a
block taken from the work list of phi insertion, a call or return of
`rename_vars`, a phi function whose sets are joined, a tac of the interference
graph, a candidate that is merged or not. Straight walks over the code are one
step. The doubly linked list of tacs is a function from blocks to sequences,
cut at block boundaries; names are pairs of a vreg and a subscript where the
code hashes them to one number.

Left open, so that TLC tries them all: the block the work list has next, and
the order of candidates of equal cost, which is up to qsort and the hash map.
Abstracted: types are told apart by their class; live ranges are numbered by
the smallest name in them, where the code takes the first in the map (numbers
only decide ties of the allocator); labels stay at the first tac of a block
while phi functions are there; the markers of loops are not in this code, so
that a mention costs the same everywhere. As in the code of the parser, the
first tac has no label.
A copy made by instruction selection (X_MOV) is a candidate in `Coalescing`,
but coalescing is composed here only where it runs first, before selection.

`DominatorsAreFound`, `IdomIsNearest` and `FrontierEndsDominance` compare with
the definition of dominance by paths. The first says what holds when unreached
blocks lead to reached ones: `make_block_dominance` then finds too few
dominators (it intersects with what an unreached block has; no later pass reads
the result), while the immediate dominators skip such predecessors.

In the last stage the original code runs, and in each step the tac that took
the place of the original one. `holds` says which live range has the
current value of which original vreg. `ReadsFindTheirValues` is so an
independent definition of what all passes together must keep: it mentions
neither dominance nor phi functions nor interference. Branches go both ways.

### Layout to CompiledCalls

Caller and callee compute separately where an argument is, the code between
them is moved around by more than ten passes, and each pass relies on marks an
earlier one left. So the passes are modelled as functions from code to code
(`IntermediateCode`, `FunctionCalls`, `Emission`), and `CompiledCalls` applies
them, one action per pass, in the order of `run_compiler_phases`, to three
functions: `main` calls `f` with the arguments of a job, some of them results
of `g`. Then the result runs on a machine with a memory of bytes, registers
and a stack. A byte is a name with numbers, so that a value has arrived only
when each of its bytes is in its place; junk fills what nothing has written.

Instruction selection is modelled only for what moves rsp or the floating
point stack. Vregs that need not be in a particular register have places of
their own: that is what `AllocatedCode` promises for the allocator. Offsets in
the frame, padding, chunks of 8, 4, 2 and 1 bytes, the save area of a variadic
function and the fields of a va_list are those of the code. memcpy is the one
function from outside; the program `main`, `f` and `g` is the input. Which
objects are in registers, whose address is taken, how many callee-saved
registers are pushed and how the result is used are parts of a job.

### StatementOrder, Statements

The parser emits code while it reads, with break and continue targets, the
switch at hand and its comparisons in globals. `Statements` makes the code of
a tree of statements as `parse_statement` does; a label or vreg is named by the
node it is made for, where the code counts. What a recursive call returns has
a field `left`, for the statement the parser leaves behind when a label or a
second `case` stands in front of it (see below). `MergeLabels` and
`RenumberLabels` are the passes of ir.c. Then the code runs: each `Effect`
may have any value of `Values`, and the reference says which expression must be
next. `StatementOrder` computes that from the tree alone.

### Macros, Preprocessor, Driver, Translation

A behaviour is one command: the driver reads its arguments, preprocesses and
compiles each input and calls the tools. Tokens are spellings with line and
hide set; `Preprocessor` has one action per directive and per line of text,
and the chain of states that `#include` leaves on the C stack. The state of the
preprocessor stays when the next unit starts, as in the code.

`Translation` states the promises without the algorithms. A section's kept
groups follow from the lines of the file (`GroupsAreKept`). For macros the
reference is a scan in which each name carries the macros it came from; it has
no lists and no rescanning of a buffer (`ExpandsByTheRules`). Lines are checked
as a reader of the output, who knows only line markers, counts them
(`LinesAreKept`). `BuildsWhatWasAsked` and `UnitsStandAlone` relate a command
to the files it leaves. A tool may, at any call, succeed, exit with 1, be killed by
a signal or not be started: `ToolResults` has the status `system()` returns for
each, and `result` keeps the last one. `IsAskedFor` says what a command with one
or several inputs asks for with and without `-E`, `-S` and `-c`; a command with
`-E` and no C file asks for nothing. `BuildsWhatWasAsked` claims that an exit code
of 0 means it was built, but for two cases in which the code does otherwise: a tool
that was killed, which `SuccessMeansBuilt` includes (run KilledTool), and `-c` with
several inputs, which no property covers (see the other divergences).

## The runs

| run | question | bound and why it is enough |
|---|---|---|
| RegAlloc | every allocation of every graph | 2 integer and 1 floating point registers, 3 free vregs (enough to spill one integer vreg for two others and to have a vreg of the other class), the edges that tell the cases apart, two costs, one pushed parameter, up to one slot in use |
| Liveness | every flow graph | 3 blocks (a loop, a diamond's worth of joins, unreachable blocks) and one vreg: the equations of different vregs are independent and share only `version`, which raises the number of recomputations and not their result; the proofs cover the rest |
| HashMapPromise | is it a map, with right counts and whole chains | 4 keys, two of which collide in the last slot of the first table and one in the second: wrap-around, growth from 4 to 8 and moves are all reached. Callers do not put a held key again behind a tombstone; of the others `CountsMatch`, `SearchesEnd` and `KeysReachable` are proved |
| HashMapDeleted | "delete, then get finds nothing" (tests/unit/test-strmap.c:97-100) | violated: see findings |
| AllocatedCode | does allocated code with its spill code compute the right values | 5 integer registers, so that three variables, a division or shift and a call cannot all be kept in registers, and one xmm register with a floating point parameter; any two of the operations copy, complement, subtraction, division, shift and call on any of the three variables. The kinds of operations are ordered, and the body is a loop when the first kind is not behind the second, since in a loop the order of two operations matters less |
| FlowOfControl | do the passes from the flow graph to live ranges keep values apart | all functions of 4 statements (a constant, an increment, a jump, a conditional jump) and two labels that are jumped to, on one variable: nested and crossing loops, entries in the middle of loops, unreached blocks, variables read before they are written. More variables would be renamed and joined each on its own. Coalescing is off (`opt_enable_live_range_coalescing` = 0), to see what live ranges are on their own |
| Coalesced | does merging live ranges keep values apart | three variables, two of them parameters, a loop and two statements (copies and subtractions) in it or one before it, and floating point copies: swaps, rotations, copies that are overwritten while their source lives on, several rounds for each class |
| StructArguments | comment at functions.c:296-301 | violated: see findings |

| Translation | does a command build what it was asked, from text that is preprocessed right | files with two nested sections of any heads and middles; two object-like and three function-like macros that name each other in every way; files whose lines are hard to follow; commands with up to three inputs, libraries and tools that succeed, exit with 1, are killed or do not start |
| KilledTool | exit code 0 of a recipe with wcc (tests/e2e/Makefile:117-119) | violated: see findings; the commands of Translation |
| Compiled | do arguments, results and objects arrive, is the stack right | 169 calls: scalars past the last register, structures of each kind of pieces, any three of five types of parameters when two registers of each class are left, structures in memory, arguments that are calls or pointed to, variable arguments from the save area, the stack and both, of types below int too. One call in progress inside another is enough for the counts of pushes to be kept apart |
| Statements | is code evaluated in the order of the statements | 1949 functions: each simple statement in each kind of loop, switch and condition, loops in switches and switches in loops, jumps in and out; expressions may be 0, 1 or 2, which tells truth from falsehood and two cases from the default |

`TypeOK` of the allocator and of `Liveness`, and the action properties
`PlacementIsFinal` and `SetsGrow`, are proved and so are not run again.

MaxSize bounds the growth of a table (a put that would grow it further is
not taken); MaxLocals the slots in use at the start. MaxIncludeDepth and
CollapseAbove are constants of cpp.c, the second made small. No other counter
is unbounded.

Fairness: Liveness and HashMap state weak fairness of the steps of the running
pass or put only: the compiler is a sequential program that takes its next
step; which key a caller puts or deletes next, and when, is not fair. The
other specifications state no fairness: that they do not stop in the middle is
checked as absence of deadlock, and a program they run may loop for ever.

Operators with "slip" in their comment are plausible mistakes, kept next to the
definition they would replace; nothing uses them, and replacing the definition
by one makes a property fail.

## The proofs

`RegisterAllocation_proofs` proves, for every number of registers and vregs and
every graph, that each invariant of run RegAlloc holds and that a place is
final. The inductive invariant `IInv` says, beside types: a vreg of the pass
that is not in `todo` has a place and one that is has none; a placed vreg's
register is in its class and is not that of an interfering placed vreg; slots
in use are between the initial count and the present one; and every register
that a spilled vreg did not get is held by a neighbour that comes before it. The
last part needs the order (`Before` is total) and that a place is never given
up. `UnconstrainedNeverSpill` is a counting argument: fewer neighbours than
registers cannot hold them all; `NeverPanics` is the same on colours. The
assumptions are `CountAssumption`, `PregMapAssumption` (no two reserved
registers are one x86-64 register, checked for the real table by TLC),
`InputAssumption` and `EdgeAssumption`.

`Liveness_proofs` proves all safety properties of run Liveness for any number
of blocks and any vregs. The key part of the invariant is `SkippingIsSafe`
itself together with "what a block saw is at most the present version".

`HashMap_proofs` is about any initial size of at least 4, any hash function and
any set of keys. `Inv` holds for every caller: besides types and counts it says
that the table keeps a free slot (`RoomLeft`, one more while a put is running,
because `maybe_rehash` has made room for it), that nothing unused is between
the slot a key hashes to and its entry, and the same of the new table while
entries move (`MovesCount`, `MovesReachable`). A slot is free by counting: fewer
slots are used than there are. For callers that do not put a held key again
behind a tombstone (`~RePuts`), `DistinctInv` adds that a key is in one slot
only and that the new table holds exactly the entries that have moved
(`MovesFaithful`). From both follows `HashMapIsAMap`, step by step: an insert
or delete is that of `KeyValueMap`, and moving entries is a stutter. The
assumptions are `SizeAssumption` and `KeyAssumption`.

`PhiInsertion_proofs` proves, for every set of blocks with any frontiers and
any set of vregs, that the work list ends with the least placement of phi
functions that is closed under frontiers, whichever block is taken next. The
invariant has three parts that need one another: what was taken from the list
has its frontier filled, what is on the list writes the global or has a phi
function for it, and every phi function is in every closed placement.

`ControlFlow_proofs` is about any code the parser may hand over (`IsCode`), so
about any flow graph. That a block is reached is defined as membership of the
least set that has the entry and is closed under edges (`ReachedIsLeast`); that
b dominates c, as c not being reached without b. So statements about all paths
need no induction over paths: to show that each reached block has a property,
one shows that the set of those that have it is closed. The graph itself comes
first: blocks are numbered in order and each edge leads to the start of a block
(`FlowGraph`). Then, in the order of ssa.c:

- `DominanceInv`: no dominator of a reached block is lost and a round without
  a change leaves a solution of the equations, in which nothing but dominators
  can be.
- `PathInv`, `PlacesInv`: the calls of `make_rpo` that are open form a path
  from the entry, places are given from the last downwards, and a block with a
  place was reached from an open block or from one with a lower place. When it
  returns the order is `Ordered`: each reached block but the entry has a
  predecessor that comes before it.
- `IdomInv`: in the half-made tree each block leads up to the entry by
  ever smaller places, and the dominators of a block are itself and some of those
  of its immediate dominator. That makes the walk by which `intersect` meets
  two blocks end at a common ancestor, and a common dominator is never passed.
- At the end idom is a tree whose ancestors are exactly the dominators, and the
  runners of `make_block_dominance_frontiers` find where dominance ends.

`CoalescedCode_proofs` carries these invariants (`FlowInv`) and that of phi
insertion (`PlacingInv`) through all stages of the composition, where they are
properties of a compilation and no longer of a graph that is given. `RunInv`
shows that the code, when it runs, goes along edges only. For renaming the
invariant is `RenameInv`:

- `NamesInv`: subscripts are below the counters and each is given to one write.
- `CallsInv`: the open calls of `rename_vars` go down the dominator tree.
- `StacksInv`: the top of a stack is what its call has pushed, one subscript for
  each write of the block; below is what the call found, or one subscript that
  nothing writes (`safe_stack_top` on an empty stack). All of them belong to
  blocks of open calls (`Belongs`), which is what makes a read see a write
  that dominates it. `LeavesStackAsFound` follows: the pops of the code match
  its pushes.
- `ReadsInv`: what writes a name that is read comes before the read, in
  its block or in a dominator.
- `WalkInv`: each reached block has its names or is below a block that an open
  call has still to go into, so that none is left out.

These give `SingleAssignment`. From there on to the end of coalescing the
invariants are

- `FromTacs`: the code of a block is its phi functions and then its tacs of the
  source, but for the subscripts.
- `SetsInv`: the sets of names are disjoint, each is named after one of its
  names and has names of one vreg only. Live ranges, which are numbered by the
  first name of a set, are therefore different for different sets
  (`RangesAreSets`).
- `RangesInv`: the operands of a tac that is no move are in different live ranges.
- `GraphInv`: for each tac the walk has visited, the graph has an edge between any
  two operands that the tac holds together.
- `MergeInv`: what two such operands have become by the merges of the round so far
  is not the same and has an edge, though the graph is older than the
  merges. `copy_interference_graph_edges` keeps this up, and that a range never
  becomes one that has become another itself.

So `OperandsStayApart`: no order of the merges, and no number of rounds, leads to
one of the panics of `coalesce_pending_coalesces`.

The assumptions are `OffsetAssumption` and `SourceAssumption`: a function
begins with the nop without label that the parser emits (parser.c:3578), a
conditional jump has a tac behind it, labels are not 0, there are no phi
functions and no value has a subscript yet (ir.c:27), and, what the
panics take for granted of the parser's code, operands are in vregs of
their own and a move has no second one (`HasOperandsApart`). TLC evaluates it on
every function of the runs.

`AllocatedCode_proofs` closes the gap between the interference graph and the
allocator, whose proofs assume things of their input: whatever edges the walk
over a legal function adds are edges the allocator may get (`InputIsLegal`), and
with that the allocator's invariants hold of the composition, for
the graph the code itself gives (`CodeIsAllocated`). The assumptions are
`RegisterAssumption` and `ProgramAssumption`. A legal function (`IsProgram`) has
tacs whose operands are vregs of the function (`IsTac`), that force or wish a
value only into a register of its class, and that subtract what is of the class
of the difference; what a tac reads from a register without naming a vreg was put
there by a tac before it, and none between changes it (`IsFed`); a register that
a tac uses on its own is one that `make_interference_graph` knows of (`IsKnown`);
and only parameters are live at the entry, in their registers. TLC evaluates
this on every function of the runs. Two-register results are not in the module.

On that rests `ReadsFindValues`: for every legal function, whatever its blocks,
each instruction of the allocated code finds the values it reads where it reads
them, spill code and clobbered registers included (`ReadsFindTheirValues`). The
inductive invariant has a part for each phase:

- `GraphInv`: `livenow` has what is live behind the tac the walk is at, and for
  each tac that was visited the edges keep apart what is live behind it
  (`Covered`).
- `DoneInv`, `PlacesApart`: at the end of the allocation the reserved vregs are in
  their own registers, and what the edges keep apart has different places. This
  takes the allocator's `CodeIsAllocated` and `GraphInv` together.
- `CodeInv`: the instructions are the tacs with their spill code, and what must be
  in a register is not in memory.
- `RunInv`: before instruction n of a tac each live value is in its place, what
  a later tac reads from a register by name is there, and the loads so far have
  filled the registers for spill code (`HeldAt`). One lemma for each kind of
  instruction shows that it is so behind it; from the end of a block to the
  start of the next it follows from `LiveOutSolves`.

`CodeFacts_proofs` has what the provers need for induction and recursion over
natural numbers: a property is a set of numbers, the step of a recursion a
function. With it the closure of the graph, chains of immediate dominators and
walks over a list of tacs of any length can be reasoned about, and it is shown
there that `LiveOut` solves the equations of liveness (`LiveOutSolves`) by the
number of rounds that make something more live.

Left to TLC, and why:

- Liveness: that `make_liveout` ends and puts complete (`PutsComplete`).
- `ReadsFindTheirValues` of `CoalescedCode`: it takes what liveness says of every
  stage of the code at once, of names that phi functions join, of the graph while
  live ranges merge, and of a run.
- `NoForcedSpill`, which is not true of every function (see finding 2): it
  depends on what else is alive where a value is forced into a register.
- Everything about `CompiledCalls`, `Statements` and `Translation`. They use
  recursive operators on types, trees and lists of tokens, which the provers
  cannot expand; they are meant for TLC.

## Findings

1. `strmap_put` and `longmap_put` stop at the first tombstone without looking
   further for the key (strmap.c:69, longmap.c:74). Run HashMapDeleted.
2. A temporary of a structure argument may take an argument register that is
   waiting for its call (regalloc.c:342). Run StructArguments.
3. `result >> 8` (main.c:633, 704) of a tool that was killed is 0: the driver
   exits with 0 and has built nothing. It needs a shell that lets the tool take
   its place, as bash and newer versions of dash do. Run KilledTool.

### Other divergences

Met while modelling, and kept out of the passing runs by the choice of inputs
or by a condition in the property. The models have them unless said otherwise.

- strmap, longmap: see 1; `KeysDistinct` is checked for callers that do not put
  a key twice.
- A second argument drops the code between the last argument and the call,
  with it the declaration of the object for a structure result (parser.c:2378,
  ir.c:455-470); the object then has no place of its own.
- A parameter of a variadic function that is pushed is moved behind the test of
  al, and lost when no xmm register is used (functions.c:929-972, 1434).
- A float argument that is pushed is counted twice (instrrules.c:1667): calls
  behind it are misaligned.
- Padding between members is not in the size of a structure in registers
  (functions.c:1617, 1632): its end is not passed.
- va_arg reads a structure of mixed classes from one save area only, copies a
  structure of odd size past its end, and does not align one of 16 bytes.
- An unsigned long converted to double is changed by the conversion when its
  top bit is set (`andl $1` on the source, instrrules.c:484; not modelled).
- Zeroing in front of an initialiser may be misplaced (ir.c:1158-1180), and a
  union is not rounded up to its alignment; the first is not modelled.
- A label in front of a statement, and a `case` in front of a `case`, end the
  statement (parser.c:3419, 3346): outside a block what follows is not in the
  if or loop it is the body of.
- The text behind a dropped group, a spliced line or a call over several lines
  is low by those lines when `#include` or `#line` follows (cpp.c:646, 651).
- Constant expressions (constexpr.c, not modelled): `2 && 1` of ints is folded
  as `2 & 1`, `-1 < 1u` in the signedness of its first operand, and `-1L` has
  type int (constexpr.c:28, against the comment above it).
- Calls of macros whose parenthesis is never closed do not end (cpp.c:995).
  A second `#else` opens the group again, `#elif` without `#if` is taken, a
  `# number` line in a skipped group counts, the depth of includes starts from
  0 in each file.
- With `-c` and several inputs every object is written to the name of the first
  (main.c:621): `wcc -c a.c b.c` exits with 0 and leaves the code of b.c in a.o and
  nothing else, `wcc -c d.o a.c` overwrites its input. The model has it, and
  `BuildsWhatWasAsked` leaves it out.
- Temporary files are not removed; `-E` leaves out inputs that are not C files.

## Plan

1. done: allocator, liveness, maps, interference, allocated code.
2. done: control flow and dominance, SSA form and live ranges, coalescing, and
   their composition.
3. done: spill code; calls from types to bytes; frames and rsp; statements;
   preprocessor and driver.
4. Proofs. Done: allocator, liveness, maps with their refinement, the flow graph
   and dominance, phi functions, renaming, what the graph hands to the allocator,
   joined names and merged live ranges, allocated code. Next:
   `ReadsFindTheirValues` of `CoalescedCode`.
5. If there is room: constant expressions with their widths against a reference,
   bit fields, scopes.

## Not modelled

- Lexer, declarations, type checks, initialisers and the arithmetic of
  expressions: functions from text or trees to code, with little state that
  outlives a call.
- Tiling and the merging of trees in instrsel.c: the rules are tables that
  another program builds; `Instructions` and `Emission` have the results of the
  rules that matter for registers and for rsp.
- Constant expressions, scopes: in the plan.
- White space and comments, trigraphs, escapes and the macros with the date,
  the time and the file name in cpp.c; the text of the assembly; debug sections
  and symbols.
- One run from source text to registers: SSA, allocation and calls are composed
  in three runs, at the points where one hands over to the next (`AllocatedCode`
  promises what `CompiledCalls` takes for granted), because their product has
  too many states.
- Memory accounting, messages, flags, string buffers.

# A TLA+ verification of m2

m2 is a branching simulator engine: a C core with savepoints, a Lua frontend that
compiles control flow graphs to code running on that core, data structures that
live in simulator memory, and fhk, a solver for computational graphs. This
directory models the parts that carry state, checks them with TLC on small
instances, and proves with TLAPS, for every instance, the central results about the core,
the compiled control flow, the data structures on the core, the pruner and the solver. File names below
are relative to `src/src/`.

## Inventory

| Part | State | Operations | Who calls it |
|---|---|---|---|
| core, `sim.c`, `mem.c` (regions) | static region, vstack, one region per frame, frame records, frame pointer, next frame id | alloc, savepoint, up, reload, load, enter, branch, enter_branch | Lua bindings `sim.lua`, `vec.c`, compiled control flow |
| arenas, `mem.c`, `frontend/fhk/state.lua` | list of chunks, current chunk, bump pointer; reference count or one copy per frame | create, alloc, reset; obtain and release | fhk driver |
| vectors, `vec.c`, `soa.lua` | header in the vstack, bands in frame memory | create, alloc, newband, delete, clear | simulated programs |
| control flow, `frontend/control/` | compiled functions, the shared call stack, activations on the Lua stack | nothing, exit, primitive, all, any; exec | `simulate.lua` |
| input loop, `simulate.lua` | position in the file | read entry, run the rest, load | control flow |
| memoization, `memoize.lua` | cache (not branching), its index (in the vstack) | call | simulated programs |
| fhk graphs, `fhk/build.c` | nodes, edges, maps | add_*, build | `frontend/fhk/compile.lua` |
| fhk pruning, `fhk/prune.c` | cost bounds, heap, marks | mark, bound, select | `frontend/fhk/graph.lua` |
| fhk solver, `fhk/solve.c` | per-instance search state, value and map storage, roots, coroutine | set root/shape/value/map, continue | `frontend/fhk/driver.*` |
| fhk frontend | definitions, transformed graphs, solver pool | parse, transform, compile, drive | scripts |
| `fff/`, `vmath.c`, cli, scripting, tracing | none that branches | | |

What is hard here:

* **Two memories, one of which travels in time.** The vstack is restored when a
  frame is loaded; frame memory is recycled when a frame is re-entered; the static
  region, Lua tables and the chunk lists of arenas are never restored. Every data
  structure above the core is a mixture, and is right only if everything restored
  points at things that still exist and were not changed by another branch.
* **One mutable call stack under all branches.** Compiled choices run their
  alternatives one after the other on the same Lua table, in place or on a copy.
* **Partial effects of failing calls.** `sim_branch`, `sim_load` and
  `sim_enter_branch` have changed something when they find that they must fail.
* **Boundaries.** Strict comparisons in `bump`, block-wise copies past the saved
  size, an 8-bit index, chunk sizes, an unrolled and a looping copy.
* **fhk.** A coroutine that yields in the middle of a search; costs compared with
  bounds that were computed before; packed subsets and 64-bit bitmaps.

m2 runs in one thread; there are no messages, no persistence and no timeouts, so
crashes and lost messages do not appear. The interleaving that matters is that of
branches over shared memory.

`PROJECT.json` lists every hazard with its line and the properties that watch it.

## Modules

| Module | Models | Uses |
|---|---|---|
| `Branching` | What the core promises: a current state and a stack of immutable snapshots | |
| `Sim` | `sim.c` with the region allocator, memory cell by cell | implements `Branching` |
| `SimProofs` | Theorems about `Sim` | `Sim`, TLAPS |
| `Cfg` | Control flow graphs, and what each compiled node does first | |
| `Continuations` | What control flow promises: a tree of independent threads | `Cfg` |
| `Control` | Code generated by `emit.lua` on the call stack of `run.lua`, the input loop | `Cfg`, `Branching`; implements `Continuations` |
| `ControlProofs` | Theorems about `Control`, and that it implements `Continuations` | `Control`, TLAPS |
| `Doubling` | The loop that doubles a size until it fits, of `mem.c` and `vec.c` | |
| `Vec` | `vec.c` and `soa.lua` | `Branching`, `Doubling` |
| `VecProofs` | Theorems about `Vec` | `Vec`, TLAPS |
| `Memoize` | `memoize.lua` | `Branching` |
| `MemoizeProofs` | Theorems about `Memoize` | `Memoize`, TLAPS |
| `Arena` | `mem.c` arenas under `state.lua` | `Branching`, `Doubling` |
| `ArenaProofs` | Theorems about `Arena` | `Arena`, TLAPS |
| `Prune` | `fhk/prune.c` | |
| `PruneProofs` | Theorems about `Prune`: the heap, the bounds, the selection | `Prune`, TLAPS |
| `Builder` | `fhk/build.c`: the definition, its layout in memory, maps, edge order | |
| `Solver` | `fhk/solve.c`: search, values, roots, yields; `g_mretbuf` of `fhk/build.c` | |
| `SolverProofs` | Theorems about `Solver`: the stacks, the values, the roots | `Solver`, TLAPS |
| `SolverOptimal` | Theorems about `Solver`: the costs, the chains, the guards, the errors | `SolverProofs` |
| `Instances` | `fhk/solve.c`: subsets, iterators, bitmaps, requests for shapes, maps and values | |

The composition follows the proof: `Sim` is proved to implement `Branching`, and
`Control`, `Vec`, `Memoize` and `Arena` are built on `Branching` instead of on
memory cells. The three modules of fhk look at the same graph from three sides: `Builder`
makes it and says what the solver may assume of it (`SolverOrder`, `MapsResolve`); `Solver`
searches it with every instance a node of its own, so that subsets are sequences of nodes;
`Instances` takes one edge and one variable and shows what those sequences stand for, down
to the bits.

**Sim.** One action per function of `sim.c`; `ret` is the returned code. Addresses
are offsets into a region, so the bump allocator, alignment, and the copy of whole
blocks by `blockcpy` are literal. `AllocStatic`, `AllocFrame` and `AllocVstack` are
`sim_alloc` with its three lifetimes; `WriteVstack` and `WriteFrame` are the program
writing memory that it allocated (never memory below the frame that is not its own).
`SimEnterBranch` has the two cases of the code, with and without the reload. Release
build: page protection and NaN filling of debug builds are left out.

**Branching.** `current`, `depth`, `snap` and `branches`; snapshots of frames above
`depth` are forgotten. Its state space is a parameter.

**Cfg, Control, Continuations.** `Cfg` says for each tag what the emitted function
does (return, tail call, push and call, run a primitive, branch), as `emit_*` in
`emit.lua` decide when compiling. `Control` executes these functions: `stack`,
`bottom` and `top` are the arguments of the compiled functions, `native` the Lua
activations of choices and input loops that have more to do, and simulator errors
raise. Each alternative of a choice takes one step that contains `enter_branch`,
`copystack` when the code copies, and the call. A program state is reduced to a
fingerprint of what has run so far (`Ran`, `ReadItem`), periodic so that loops are
finite. `Continuations` has no stack: each thread owns its continuation, and a choice
creates the threads of all alternatives at once.

**Vec.** Bands are records in the memory of a frame with an identity; `EnsureCapacity`,
`Delete` and `NewBand` allocate new ones, `Clear` and `Alloc` within the capacity do
not. The ghost part of the state is the sequence of elements that the program believes
the vector holds. Elements not yet written are `Garbage`. The place of a band is only a
name for it: a null band takes a place but no memory. `MaxBatch` bounds the elements of one
call, and numbers are unbounded where the code has `uint32_t`, so vectors are assumed to stay
below 2^31 elements.

**Memoize.** `mp` modulo `MpMod`, the cache as a function from indices to entries, and
as a ghost the evaluations on the path to the current state.

**Arena.** Chunks with sizes, the arena record (chunk and pointer), allocation with the
walk to later chunks and the doubling of new ones (the loop itself is in `Doubling`). Two clients: the shared arena with
its count of users, and the per-frame copies of the arena record.

**Prune.** One action per function that `fhk_prune_run` calls, one step per node taken from
the heap, with the heap as the array it is. `P` is `struct fhk_prune`. Costs are integers
that stop at `Inf`, as floats stop at infinity, which is also the penalty of a check that the
frontend is told none for (`def.lua:113`). The recursion of `prune_select` visits what is
reachable along edges that do not change meanwhile, so it is a reachability closure. The
loop of `prune_mark_selects` starts one such visit at each root in the order of the indices,
and tests every node that is marked by the time it gets there, whether it was marked as a
root or by an earlier visit: `Before(n)` is what the roots before `n` have marked, and the
first skipped node among those and the roots makes `fhk_prune_run` return `FHKE_CHAIN`. The
model is that of a release build, in which the assertions of `prune_select` do nothing. The
reference is `LeastCost`: the cheapest chains for a scenario, a scenario saying which user
maps are nonempty and which shadows fail.

**Builder.** `D` is `struct fhk_def` and `G` the built graph. Nodes are added in the order
in which `build` of `transform.lua` adds them, and a call that the code rejects with
`FHKE_INVAL` is not enabled. `Build` is `fhk_build` as a whole: the size is computed, then
the edge arrays are given addresses, the external maps are resolved, and the edges are
written into place by the loops of `d_build_models` and `d_build_vars`, several of which
fill different ends of the same array. Addresses are bytes, so that an array that is too
short, or that overlaps another, is visible. The reference is the definition itself, edge by
edge.

**Solver.** The coroutine as a machine with a program counter: each label of
`S_select_chain` (`x_solve`, `candidate`, `x_chosen`, `x_failed`, `x_bound`) and each round
of its shadow and parameter loops is an action, as are the steps of `S_compute_value` and
the four passes of `S_solve`. `X` is the work stack, `V` the activations of
`S_compute_value`, `sp`, `mp` and `sw` the search states of variables, models and shadows.
The driver acts only in yields: `SetRoot`, `SetValue`, `Continue`. It may continue without
having set what it was asked for, or set a value twice, and then gets the error that the
code gives. Nodes are instances: maps and shapes are applied before the search starts, so
the yields that ask for them are left out, and an edge is the sequence of instances of its
subset. Costs are integers and a bound on the inverse cost is rounded down, which decides
every comparison as the exact bound would; rounding of floats is not modelled. `val` says
which model's result is stored for a variable. The reference is `TrueCosts`: the least cost
over all chains, from the graph alone. A variable counts as `Computable` if some chain has a
finite cost; a check with an infinite penalty, the frontend's default, is therefore a condition
of its model, and the solver is right to report `FHKE_CHAIN` when it fails, as the tests
`test_solver_no_chain_check` and `test_solver_fail_chain` expect.

**Instances.** One variable, given or computed, and models that walk an edge to it, to
collect it as a parameter or to check a guard. `vm` is the bitmap of missing values, `sw` the
two-bit map of the guard, `imap` and `space` the maps and the shape that the driver supplies;
words have `W` bits and an `int` has half of them, as in the code. A packed iterator keeps
its three fields apart, but they wrap and carry as the packed word does. `pc` says where the
solver is: idle, walking, at one of its yields, or failed. The driver may set shapes, maps and
values at any yield and between requests, one value or many at a time, also others than it
was asked for; continuing without the answer is the error that the code reports. The value
itself is reduced to whether memory holds it and whether it passes the guard. Storage of the
root queue and of scratch buffers is left out.

Operators whose comment calls them deliberately wrong variants (for instance
`EnterBranchNoLoad`) are used by no action. Each is a plausible mistake; substituted
for the definition after it, it violates the property named in `PROJECT.json`.

## Runs

| Run | Instance | Shows |
|---|---|---|
| `sim` | 3 frames, regions of two 2-cell blocks, 5 frame ids, 3 writes or allocations | `TypeOK`, `SavepointBounds`, `FrameIdsGrow`, `FailedCallIsHarmless`, `ImplementsBranching` |
| `control` | 2665 graphs, 4 frames, call stack of 48 slots | `ActiveStacksDisjoint`, `NeverUnderflow`, `OnlyLimitErrors`, `LeavesAreOutcomes`, `ImplementsContinuations`, `Termination` |
| `vec` | 2 bands, 2 frames, capacity 2 growing to 4, at most 2 elements per call, 4 operations | `BandsLive`, `VectorsAreValues` |
| `memoize` | 2 arguments, 5 evaluations, 3 frames, 8-bit index | `SavedValuesRemembered`, `NoStaleAnswers` |
| `arena` | chunks of 4, 8, 16 units, 4 allocations, 3 frames | `AllocsDisjoint`, `ArenasAhead`, `OuterArenasKept`, `NewChunkSuffices` |
| `prune` | 41472 graphs of 3 variables and 3 models | `HeapOrdered`, `BoundsExact`, `SelectedReachable`, `PruningKeepsOptimum` |
| `solver` | 161 graphs of 2 to 4 variables and up to 6 models, 2 roots, stack of 4, 6 candidates | `CostsAreLowBounds`, `ChainsOptimal`, `CallsReady`, `GuardsSawValues`, `ErrorsAreHonest`, `AnsweredInOrder`, `ValuesFromChain`, `RootsAnswered` |
| `builder` | 2 variables, 1 shadow, up to 2 models, 4 edges, 2 groups, largest map 3 | `ArraysFit`, `GraphIsDefinition`, `SolverOrder`, `MapsResolve` |
| `instances` | 17 instances in 8-bit words, 7 ranges of values, 3 user maps, 3 guards | `CollectedHaveValues`, `GuardsHonest`, `GuardVerdict`, `MissingExact`, `RequestsEnd` |
| `solver_nochain` | a root that a shadow guards and nothing computes | violates `ComputesWithChain`: a finding |
| `solver_direct` | two instances of the only model of a variable | violates `DirectModelsAlwaysChosen`: a finding |
| `instances_complex` | as `instances`, a computed variable walked through three intervals | violates `CollectedHaveValues`: a finding |

Why the bounds suffice. *sim*: three frames give a branch point, a frame below it and
one above; two blocks of two cells give a savepoint that is exactly, partly or not at
all a whole number of blocks, and a frame that has no room for it. Five frame ids allow
leaving and re-entering a frame with other contents. `Aligns` is {1} in the run; the
proof covers all alignments. *control*: chains of up to five continuations make the
active stack shorter and longer than four entries, where `copystack` changes from the
unrolled to the looping copy; the graphs put choices in choices, in chains, under
input loops, with empty and one-element alternatives, jumps and guards that stop; four
frames make some executions run out of frames. *vec*: appending within the capacity and
beyond, in a branch and in its sibling. *memoize*: a savepoint, two sibling branches with
misses, and one more level. *arena*: a deeper frame adds a chunk that an outer frame later
finds behind its own. *prune*: chains of two models, a cycle, two models competing for a
variable, a model with two returns, in both orders of definition; every scenario of each
graph is compared, so the heap holds up to a dozen nodes with equal and different keys;
penalties are finite and infinite, and the variable that is skipped, or cannot be computed, comes
before and after the root, as the outcome of `prune_mark_selects` depends on it.
*solver*: two models compete for a root, with fixed costs, factors and initial bounds chosen
so that the search leaves one for the other and comes back; a model returns two variables
that others return too; shadows over two instances of computed and of given variables pass,
fail, or have no chain; checks with infinite penalties, of given and of computed variables,
with another model to turn to and without; cycles with and without a way out; one graph too deep and one too
wide. Two roots suffice for a second round, and for one queued during the first. *builder*:
two models give every array a neighbour before and behind it, four edges a model with given
and computed parameters, checks with different penalties and two returns, or two models that
return the same variable; a map that is constant one way only, one that is constant neither
way, and indices that two edges share from different groups; the limits are 2 and 3, so that
each is met. *instances*: 17 instances need three words of missing values, the last with one
bit, and five of guards; ranges lie inside a word, end at its edge, cross one and two edges,
and cover everything; subsets are empty, one instance, an interval, three intervals and the
whole space; the group may have no instance at all.

**Fairness.** `control`, `solver` and `instances` check liveness. In `Control`, `FairSpec` is weak fairness of the whole
next-state relation: one Lua thread executes the compiled code and nothing else can stop
it, and an external function (a primitive, reading an input entry) is assumed to return.
In `Solver` it is weak fairness of the solver's steps, which run inside `fhk_continue`
until the next yield, and of `Continue`: the driver's loop continues until the solver reports
success or an error. Nothing forces the driver to set the values that it is asked for.
In `Instances` it is weak fairness of the same two kinds of step, `Solve` and `Resume`;
`RequestsEnd` then says that a request is answered or the solver fails, whatever the driver
sets in between.
The other specifications have no fairness, since the program need not call them again.
`CHECK_DEADLOCK` is left on where the models have a final stuttering step; it is off in
`builder`, where a built graph is final, and in the runs of `Instances`, where a failed call
ends the solver.

## Findings

Each has a run that violates what the code or a comment says:

* `solve.c:788`: a root that failed before as the variable of a shadow counts as done, so no
  error is reported and its value is computed without a chain (`solver_nochain`).
* `build.c:705`: a model with several instances that returns a variable through a space map
  writes directly into the variable; with equal costs two instances are both called and the
  later one overwrites values that were already used (`solver_direct`).
* `solve.c:76`: a complex iterator starts without the marker that says whether more intervals
  follow. If the first interval has one instance, the walk over a computed variable ends
  there, and the rest is collected without having been computed (`instances_complex`). If it
  has more, the number of the next interval comes from the wrong bits (`SiCNext`).

Known limits of properties that otherwise hold, outside the instances of the runs:

* `memoize.lua:25`: the 8-bit index wraps, so that after 256 misses on a path stale values
  can be returned in a branch that never evaluated them. `MCMemoize.cfg` with `MpMod = 4`,
  `MissLimit = 6`, `NFrame = 2` violates `NoStaleAnswers`.
* `mem.c:145`: a request that exactly fills the doubled chunk with alignment 1 fails, as
  `bump` compares strictly. `MCArena` with requests `<<1, 1>>` and `<<8, 1>>` violates
  `NewChunkSuffices`.
* `prune.c:326`: a parameter behind a user map that nothing computes is selected with its model
  (line 318), since the low bound does not wait for it. If its index is above that of a root,
  the loop meets it later as if it were a root, and `fhk_prune_run` returns `FHKE_CHAIN` for a
  graph that has a chain (`MetTooLate` in `PruningKeepsOptimum`); in a debug build the assertion
  of line 285 stops the program, and does so whatever the order. `SelectedReachable` says what
  is selected instead of "only what can be computed".
* `prune.c:304`: a model that returns a variable only through a user map can hide the model
  that guarantees the variable's high bound, which is then pruned (`Misleads`). And of several
  models that guarantee the bound the first is taken; where models are free (`k = 0`), such
  models can need each other in a cycle. `PruningKeepsOptimum` excludes these two cases by name.
* `solve.c:1307`: marking a failed guard shifts an `int`, which marks other instances from
  the middle of a word on. `MCInstances.cfg` with `Failing = {1}` violates `GuardsHonest`
  (instance 4 starts a word, where the shift is right).
* `solve.c:1951`: clearing a range of the missing bits is right only when all of them are
  set. With `Overlap = TRUE`, where the driver sets a range that holds values already,
  `MissingExact` is violated.

Noted while reading, without a run:

* the limit on groups and maps (`build.c`, `d_checkmap` and the functions that add models and
  variables) accepts a sum of exactly `G_MAXUMAP`, whose internal map is then the identity's;
  the bounds of `builder` straddle that sum;
* `ss_size` of `frontend/fhk/ctypes.lua` compares without sign and shifts by 32, unlike the
  macros of `solve.c` that it says it translates;
* `simF_vec_delete` asserts (`vec.c:102`) that no index is repeated, which
  `calc_intervals_s` allows;
* `S_select_chain` asserts (`solve.c:1018`) that a variable it enters is not known to fail,
  which a second shadow on it contradicts (harmless in a release build, and so modelled).

## Proofs

Every theorem holds for all values of the constants that satisfy the assumptions of the
model's module: all graphs, sizes, frame counts, requests and values. The assumptions say
only that sizes and alignments are positive numbers where the code has them so, and that
`NULL`, `NoSnap` and the like are no ordinary values; hypotheses beyond them are part of the
theorem and are named below.

| Module | Theorems | Properties of the runs |
|---|---|---|
| `SimProofs` | `TypeCorrect`, `SavepointsBounded`, `FrameIdsIncrease`, `Refinement`, `FailuresHarmless` | all five of `sim` |
| `ControlProofs` | `DisjointAlways`, `UnderflowNever`, `OnlyLimits`, `Refinement` | `ActiveStacksDisjoint`, `NeverUnderflow`, `OnlyLimitErrors`, `ImplementsContinuations` |
| `VecProofs` | `BandsAlwaysLive`, `ValuesAlways` | `BandsLive`, `VectorsAreValues` |
| `MemoizeProofs` | `RememberedUntilWrap`, `FreshUntilWrap`, `RememberedBelowBound` | `SavedValuesRemembered`, `NoStaleAnswers` |
| `ArenaProofs` | `DisjointAlways`, `AheadAlways`, `OuterKeptAlways`, `SufficesAlways` | all four of `arena` |
| `PruneProofs` | `PruneInvariant`, `HeapStaysOrdered`, `BoundsAreExact`, `SelectedAreReachable` | `HeapOrdered`, `BoundsExact`, `SelectedReachable` |
| `SolverProofs` | `SolverInvariant`, `RootsAnsweredInOrder`, `ModelsCalledReady`, `ValuesFromOwnModels`, `ValuesWhereDirectAlone` | `AnsweredInOrder`, `CallsReady`, `ValuesFromChain` |
| `SolverOptimal` | `SearchInvariant`, `BoundsAreLow`, `SelectedChainsOptimal`, `MarksFromValues`, `ErrorsReported`, `TruthFixed` | `CostsAreLowBounds`, `ChainsOptimal`, `GuardsSawValues`, `ErrorsAreHonest` |

**SimProofs.** The inductive invariant is `IInv == TypeOK /\ SavepointBounds /\ FrameIdsGrow`.
`TypeOK` alone is inductive except for savepoints: that a reload leaves a valid vstack pointer
needs the bounds of the saved copy, which `SavepointBounds` states (the copy starts on a
block boundary and ends below the bump pointer of its frame, and rounding up to whole
blocks leaves neither region: `BlockFit`). Refinement needs in addition that a step does
not touch saved cells: allocations return addresses at or above the bump pointer
(`BumpBounds`), the program writes only what it allocated, and entering a frame
recycles only frames that the mapping has forgotten (`MoveForgets`). Each function of
`sim.c` has a lemma for the invariant (`SavepointStep`, `EnterStep`, `MoveStep`, ...) and
one for refinement (`SavepointRefines`, ...); `NextIInv` and `RefinesNext` collect them.
`Align` is the arithmetic meaning of the mask, which for the alignments used (powers of two)
is the same.

**ControlProofs.** `ActiveStacksDisjoint` says nothing of what is in the slots, and the code
jumps through them. `StackInv` therefore says that the active part of the running function
and of every suspended choice consists of compiled functions with `exit` at its bottom
(`Sound`), and that these parts lie above one another. `FrameInv` gives every activation a
frame of its own with a savepoint, below the frame that runs, and says in which phases the
current state is still the saved one. That is what makes each call of `sim.c` legal, so that
only limits can make it fail (`ErrorInv`). The length of the chain of an `all` node comes from
a recursive function, by a least counterexample (`ChainType`).

On top of that invariant the refinement mapping is shown step by step (`Refinement`):
each suspended activation maps to the threads of its remaining alternatives, all with the
continuation that was on the call stack when the choice was reached. A step that copies or
reuses the stack must leave the slots of the other threads alone (`StackInv` again), and a
step that enters an alternative must find the state that the choice saw (`FrameInv`).

**VecProofs.** The invariant says of the current header, and of every saved one at its own
depth, that its bands exist in that frame or an outer one, are as long as the header says and
hold what was stored (`Good`), and that two headers share a place only as the same band of the
vector (`Apart`). The second part is what keeps a store to one band out of another and is not
visible in the properties. What `simF_vec_delete` copies is shown to be the elements that are
kept, in order, for every list of indices (`Partial`, `CopyOf`).

**MemoizeProofs.** `IndicesGrow`: indices grow towards deeper frames, so that a miss, which
takes an index above the current one, does not overwrite what savepoints will look up. The
8-bit index breaks it when it wraps. `RememberedUntilWrap` and `FreshUntilWrap` hold as long
as no step wraps; `RememberedBelowBound` needs `MissLimit + NFrame <= MpMod` instead, a bound
on evaluations and frames together.

**ArenaProofs.** `Nested` says which arena record each savepoint goes back to; `AllAhead` that
each of them is past everything that is in use in its state, `ArenasAhead` with the places of
the allocations made explicit (`Placed`, `Past`, `Sound`). `SufficesAlways` has the hypothesis
`OneByteOver`: the alignment leaves a byte to spare, or the request fits the doubled first
chunk. Without it the assertion of `arena_alloc` fails (see Findings, `mem.c:145`).

**PruneProofs.** The only assumption is `GraphsAssumption`: graphs are well-formed (`IsGraph`).
Penalties may be infinite and costs may add up to infinity. What the code does is Dijkstra's
algorithm for two costs at once on a hypergraph, where a model passes a cost on when its last
parameter has one; that the first offer for a variable to leave the heap is final is what has
to be shown. `View(p, c)` is the state as one of the two colors sees it, and `Correct` its
invariant:

* `Known`, `Priced`: the bounds of variables and models that have one are the least costs of the
  reference, `LeastCost` and `ModelCost` in the best or the worst scenario;
* `Counting`, `Reached`: a model counts exactly the parameters that it still waits for, and has
  added up the costs of the others, so that it gets its bound with the last of them; an edge
  that occurs twice counts twice;
* `Sound`, `Complete`: the heap holds what models with a bound offer to their variables and what
  is given, nothing else, and no offer is missing until its variable has a bound as low;
* `InOrder`, `Deep`: no offer is below a bound already taken, and the bounds taken so far are
  reached by chains no longer than their number. This is what makes the least offer exact:
  a cheaper chain would have an offer in the heap, from the first of its models all of whose
  parameters have bounds.

The heap enters only through three facts: insertion and removal keep the order, an ordered heap
has its least node first, and both keep the other nodes (`Ordered` and the lemmas around it,
about the loops of `heap_insert` and `heap_remove`). `IInv` says what each function of
`fhk_prune_run` starts from. In `mark_selects` that is `Exact`, from which follows that a model
that is worth selecting has parameters that can be computed, unless behind user maps, and
returns only such variables (`Visits`, `ReturnsReached`); `SelectedAreReachable` is the
consequence, both when the loop ends and when it fails. `PruningKeepsOptimum`, which quantifies
over scenarios, is only model-checked.

**SolverProofs.** That a root is answered with values looks like a matter of the four passes of
`S_solve` only, but a pass trusts the search and the computation below it, whatever the graph,
also with cycles, and whatever the driver does in a yield. `IInv` is `Answers`, which holds
also after an error, and as long as there is none `RunInv`, whose parts are:

* `Where`: which of the two stacks is in use at each program counter;
* `StackInv`: every frame of the work stack but the top sleeps where it asked for the variable
  of the next one (`Sleeps`), no variable is searched for twice, and all parameters that a
  frame has left behind have chains (`InParam`). A model that is tried by two frames at once
  would break this, when the upper frame solves it while the lower one is still in the
  middle of it. It can not happen, since the upper frame never overtakes the lower one
  (`Behind`): it would first have to search for the variable for which the lower one waits,
  which is on the stack, and the search for it ends in an error;
* `ChainInv` and `RankInv`: a solved model has chains for all its parameters, and these are
  acyclic, as models can be ranked by the order in which they were solved. The activations of
  `S_compute_value` therefore have strictly decreasing ranks and no model is entered again
  while its arguments are being computed;
* `ValueInv`: what each activation has computed already (`Argued`), and that the mark on a
  model which is set before its arguments are computed is made good by a call;
* `RootInv`: what each pass has established for the roots before its position.

Each action has a lemma (`DoXSolve`, `DoCandidate`, ... `DoCollect`) and `Preserved` collects
them. The assumptions are `SolverAssumption`: graphs are well-formed (`IsGraph`, what the
builder makes) and `MAX_COST` is below infinity. That initial costs are low bounds, also
assumed there, is not used: the two theorems do not depend on the search finding the cheapest
chain, which `SolverOptimal` shows. The finding at `solve.c:788` does not contradict them, as a value without a chain is an
error in the model.

`ValuesFromChain` is not true of every graph: see the finding at `build.c:705`, where a model
without a return buffer overwrites what another instance computed. `ValuesFromOwnModels` proves
it for every state in which `DirectModelsAlwaysChosen` holds, the condition that the comment of
`g_mretbuf` states and `solver_direct` violates; so this is the only way for a value to come from a
wrong model. `ValuesWhereDirectAlone` gives a condition on the graph alone: a direct model returns
one instance, or instances that nothing else returns. The invariant `OwnInv` says of every stored value
that it is of the model of the variable's chain, or of a direct model that is in the chain of
something else that it returns.

**SolverOptimal.** What the solver records is compared with `TrueCosts`, which knows the graph
only: start with infinity everywhere and let every variable take the cost of its cheapest model,
for more rounds than there are variables. The proof has two halves.

*The reference settles* (`TruthFixed`). A variable whose cost falls in some round owes this to one
whose cost fell the round before and is not dearer (costs are not negative and factors not below
one, `Cheaper`); such a sequence of falls never repeats a variable (`DropsDiffer`), and so has no
more steps than there are variables (`Pigeons`). `Computable` and `Depends` settle by counting
(`Settles`).

*The search follows it* (`SearchInvariant`). `OptInv` says what is true between any two steps:

* `VarCosts`, `ModCosts`: recorded costs are at most the least costs, and equal to them once there
  is a chain; a variable that is known to have none is not computable. A pruning bound in `cmin`
  that was not low would break this, hence the assumption on it;
* `CostStack` with `TopCost`: for each frame of the work stack, the costs of the shadows and
  parameters that it has left behind are exactly those of the reference (`ShadowCosted`,
  `ParamCosted`), its bound leaves room for no more than the cheapest other candidate costs
  (`Knows`, `Aimed`), and the bound of the frame above is what remains of its own (`Allowed`). A
  frame that comes back over its bound therefore shows that the candidate costs more than
  another one (`Overspent`), a search that fails shows that the variable costs more than was
  allowed (`NotFound`), and a chain that is found is the cheapest (`GotChain`). The bound that
  `costf_invS` computes rounds down, and decides as the exact one would (`Quotient`,
  `WithinBound`);
* `Marked`: the negative cost that marks a variable as being searched for is there only while it
  is on the stack, so that meeting it means that the variable depends on itself;
* `Guarded`: a marked shadow was judged by a value, or its variable has no chain of finite cost.

Besides `SolverAssumption` (here with its bound on `cmin`), `RangeAssumption` is needed: what can
be computed at a finite cost costs at most `MaxCost`. `MAX_COST` is `FLT_MAX` (`solve.c:18`), so it
says that no sum of finite costs overflows a float; if one did, the search would take a computable
variable for one that is not. Infinite penalties are not excluded: a variable all of whose chains
fail a check with such a penalty is not `Computable`, and the least cost of what is not is `Inf` in
the reference and in the search alike. TLC evaluates both assumptions for the graphs of every run
of the solver, and `OptInv` was checked on the graphs of `solver` before it was proved.

Inductions over numbers and sequences are done by a least counterexample (`LeastNatural`, from
the library's `WFMin`), and recursively defined functions are shown to exist in the same way,
since the library's induction theorems take an operator as a parameter, which the installed
provers can not instantiate. The modules of proofs that need these few lemmas begin with them.

Only model-checked: `PruningKeepsOptimum`, everything about `Builder` and `Instances`; termination, answered
roots and ended requests (liveness under fairness is out of the prover's reach); agreement of the
leaves with the recursively defined outcomes of a graph (`LeavesAreOutcomes`, a `RECURSIVE`
operator).

## Plan

Done: the core and its proof, the structures on it, control flow, the pruning and the
construction of fhk graphs, the solver's search, and its instances down to bitmaps and
iterators. Next, in this order:

1. Proofs: that collected instances have values (`Instances`), and `PruningKeepsOptimum` under
   the exceptions that it names.
2. The root queue and scratch buffers of the solver, and values returned through subsets of
   several intervals.
3. The frontend's transformation of graphs between pruning and building, on `Prune` and
   `Builder`.

## Not modelled

* Root queue storage, scratch buffers, and results scattered through subsets of several
  intervals in the fhk solver; type inference, rewriting of tables and generated driver code
  in the fhk frontend. The first are planned, see above.
* Code generation as text (`code.lua`), ctypes, metatypes, reflection: layout and wording.
* `fff/` and R, `vmath.c`: stateless calls into foreign code and floating-point loops.
* Option parsing, file formats, tracing and debug printing: I/O.
* Coroutine switching in assembly: visible only as yield and resume.

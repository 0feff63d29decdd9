# Verification of the DHIR compiler

The compiler takes an affine function, finds its parallel loops, cuts each into
one task per cluster node, orders the tasks, and emits one MPI program that
every rank runs. What makes it hard is that the emitted program has distributed
memory: each rank has its own copy of every memref, and the compiler decides at
compile time which rows travel, when, and to whom. A wrong decision shows up as
a wrong number on some ranks, for some sizes and weights, or as a job that hangs.

## Inventory

| Component | State | Operations | Correct when |
|---|---|---|---|
| Affine analysis (`conversions/affinetodhir.h`, `analysis/insoutAnalysis.h`) | IR attributes: replicate ids, reads, writes, stencil pattern | wrap parallel loops, wrap a time loop | ids follow execution order within a block, reads and writes are complete |
| Array partition analysis (`analysis/arrayPartitionAnalysis.h`) | none | classify the accesses to a memref, follow index expressions, decide row slab or whole | offsets are exact; a slab holds every row its task touches |
| Replicate lowering (`conversions/lowerReplicateOp.h`) | chunk sizes, running start, list of operands to rebase | check the loop and the outputs, compute shares, create tasks and views, rebase bounds and accesses | the shards tile the loop; a task does what the iterations of its shard do |
| Broadcast analysis, converge lowering (`analysis/broadcastAnalysis.h`, `conversions/lowerConvergeOp.h`) | `needBroadcast` flags | look for later readers, flag the last replicate of a time loop | every later reader has fresh data |
| Dependency graph (`analysis/depGraph.h`) | emission groups, edges, in-degrees, levels | group, test for conflicts, sort | tasks that share a cell are ordered, others are not; the sort takes each task once |
| Schedule lowering (`conversions/dhirtompi.h`, `libs/utils.cc`) | counters of tasks left per level, next level | release levels in order, emit bodies, barrier, gathers, broadcast | program order is kept, all is emitted once, each level's results reach the root |
| MPI to LLVM lowering (`conversions/MPIToLLVM.cc`) | none | decide whether a memref is contiguous, compute pointer and count, call MPI | a transfer moves the memref's cells and no others |
| Emitted program (text of the two above) | memory and position of each rank, messages under way | compute, barrier, send, receive | sequential result at the root, no deadlock, no mismatched message |
| Rank mapping (`libs/runtimeHardwareMapping.cc`) | two tables per rank | gather, match, two broadcasts, abort | tables are inverse to each other, agreed on, and respect the hardware |

The passes of the compiler run one after the other in one thread and share the
IR. Concurrency is in what is emitted: the ranks interact by messages and
barriers only. `buildRankNodeMaps` runs first on every rank, and its table
`nodeToRank` tells every later send and receive who the other side is.

The hard behaviours: interleaving of ranks and the two ways `MPI_Send` may
behave (return at once or wait for the receiver), matching of messages that all
carry tag 0, staleness of a rank's copies across the turns of a time loop, rows
that travel whole although a loop stored a part of them, the
release of levels that complete out of order, two passes that must come to the
same verdict about one memref, the bookkeeping of a loop moved to start at 0,
rounding in the shares, and aborts that strike while others are inside a
collective. Nothing is persisted; a rank that dies ends the job, so there is no
recovery to model.

## Modules

    Assignment <- RankMapping <- RankMappingProofs, MCRankMapping
    Chunks <- Sharding (INSTANCE), DependencyGraph
    Sharding + Transfers <- ShardingProofs, MCSharding
    TaskBody <- TaskBodyProofs, MCTaskBody, MCTaskClaims
    ViewAnalysis <- ViewAnalysisProofs, MCViewAnalysis
    ScheduleBody <- ProgramOrder, LevelEmission
    TopologicalLevels <- LevelEmission, DependencyGraph
    LevelEmission <- LevelEmissionProofs, MCLevelEmission
    AffineProgram <- PartitionAnalysis <- DependencyGraph <- ScheduleEmission <- Coverage
    ScheduleText <- ScheduleRun, Lockstep
    ScheduleRun <- Claims, MCProtocol
    ScheduleRun + Lockstep <- ScheduleRunProofs
    ScheduleEmission + Lockstep <- PipelineProofs
    Coverage + PipelineProofs + ScheduleRunProofs <- CompilerProofs
    Coverage + ScheduleRun + Kernels <- MCKernels
    ScheduleEmission + ScheduleRun + Kernels <- MCClaims
    Coverage + Lockstep + Kernels <- MCFamily

Four modules model one step of the compiler each, in the detail of the code:

- **Sharding** is the part of `ConvertReplicateOp` that computes the shards, one
  action per loop turn: the sum of the weights, the shares, the remainder, the
  walk. The double arithmetic is the nondeterministic choice of `Shares`: any
  value within `Slack` of the exact truncated share. `prefix` is a history
  variable. **Chunks** is what comes out when nothing is rounded, in closed form.
- **TaskBody** is the rest of a task: the walk over index expressions
  (`getOffsetFromIV`, `isDerivedFromValue`), the decision which operands become
  row slabs, the walk over the uses of the induction variable
  (`supportedIVUse`), and the rebasing of the accesses that keep whole operands.
  A behaviour writes a loop body one operation at a time; after each operation
  the invariants judge what the lowering makes of the body so far. A value
  carries what it is in each iteration, in the source (`plain`) and in the task
  that counts from 0 (`moved`), as words that wrap, so that the analysis (a
  statement about operations) is judged by the numbers.
- **ViewAnalysis** is `getMemRefAccess` and `checkMemoryDependency`: the root and
  the known row range of an operand that is a view of a view, next to the set of
  cells the view really has.
- **LevelEmission** is `DependencyGraph::build` and `schedule` and `emitBody`: the
  walk that puts tasks into emission groups, the conflict tests, the
  level-by-level sort with its in-degrees, and the second walk that counts the
  tasks of each level down and releases levels. Its abstract specification is
  **ProgramOrder**: operations are emitted in groups, each once, after all that
  the source orders before it. **ScheduleBody** is the body both talk about.

Two model what surrounds a transfer:

- **Transfers** has the two walks that decide about contiguity:
  `supportsContiguousRowTransfer` on the type of an output, in the replicate
  lowering, and `isProvablyContiguous` on the slab cut from it, two passes later;
  then pointer and count as `getRawPtrAndSize` emits them. A type is built from
  the innermost dimension outwards, the order of both walks; `reached` is the set
  of cells the memref has in memory.
- **ScheduleText** is a text, a sequence of instructions, and what each does to
  memory: for each cell on each rank, the step whose value it holds, or `Garbage`
  when it was computed from wrong inputs. A cell is `<<memref, row, column>>`.
  A task changes the cells it stores and no others; a gather or broadcast moves
  whole rows. Each task carries what the sequential program would have read, so
  that a rank's reads can be judged where they happen, and in `keeps` what the
  cells that it leaves alone in the rows it stores to should hold. **ScheduleRun** runs a text on `NumRanks` processes. `ip`, `mode`,
  `target` (the root's broadcast loop) and `barriers` are control; `channel` has
  the messages between each pair; `copy` is the ranks' memory. A message's
  `place`, the position of the transfer it belongs to, is history that no action
  reads. **Lockstep** is the abstract specification of what a run computes: all
  ranks take one instruction after the other together, and a transfer is one
  step.

The passes as functions from programs to texts:

- **AffineProgram** is the source program at the grain the analyses see: items
  (parallel loops with classified accesses, serial host code), at most one time
  loop. What the passes look at in an access is its form and its offset in
  dimension 0. What they do not look at is `part`, the cells that its trailing
  indices, inner bounds and `affine.if` let it touch: a loop may store one
  column, or the inner ones only. `Columns` gives the columns of each memref, as
  many as the accesses tell apart; `Dynamic` names the memrefs with a dynamic
  trailing dimension. The module also holds the meaning of a program: which step
  of the sequential execution wrote each cell last (`VersionBefore`). `WellFormed` says what the
  passes start from: the fields of an item, a loop within the body, accesses
  within their memrefs, and what `isLoopIndependent` has found of a parallel item
  (`Independent`: no iteration loads what another stores).
- **PartitionAnalysis**, **DependencyGraph**, **ScheduleEmission** are partition and
  broadcast decisions; tasks with their operand views, conflicts, levels; the
  emitted text. `EmittedProgram` unrolls the time loop, which in the code is an
  `scf.for` around the same text. Where a detailed module exists they use its
  closed form, and the two agree (`MatchesClosedForm` for the ranges of shards in
  **Chunks**, `LevelsMatchClosedForm` for **TopologicalLevels**).
- **Coverage** states as a condition on the program what the passes assume when
  they plan gathers and broadcasts. **Kernels** are files of `tests/polybench`.
  **Claims** are sentences from comments, as properties.

And the run-time library:

- **RankMapping** models `buildRankNodeMaps`: one program counter per rank,
  `gathered` for the gather, `wire` for the payloads of the broadcasts, the
  tables of each rank. A non-root rank leaves the gather as soon as it has
  contributed; the root leaves a broadcast before the others have received.
  After an abort other ranks may take steps before they are killed.
  **Assignment** is its contract: pair ranks with nodes one to one if that is
  possible, abort otherwise. The refinement maps `outcome` to the table of any
  returned rank and lets an abort outweigh it.

A name with a "Mutant of" comment is a faulty variant of the definition after
it, kept to show that the properties notice it; no specification uses it.

## Runs

| Run | Instance | Shows |
|---|---|---|
| `rank_mapping` | 3 nodes, 1..4 ranks, 3 kinds of hardware, every topology and discovery | types, tables pair up, ranks agree, refinement of `Assignment`, everyone returns |
| `kernels` | 9 polybench kernels, 3 ranks, weights 2:1:1, node 0 on rank 1 | memory as in lockstep, all reads fresh, sequential result at the root, the root's rows never go back in time |
| `family` | 2054 programs of two or three items that are accepted and covered, run in lockstep | computations that clash run in the order of the source, fresh reads, result at the root, a root that only gains, over bounds, access kinds, stores to whole rows and to one column, host code and loops |
| `protocol` | all texts of up to two levels on 4 ranks, node 0 on rank 1, buffered and blocking sends | message matching, nothing left under way, somebody can move, steps run out, every rank returns |
| `sharding` | 3 devices, five weightings, bounds in -1..7, shares off by up to 1; then slabs out of memrefs of any layout | shards tile the loop or the lowering fails, exact shares are never refused, the closed form agrees; pointer and count stand for the memref's cells, and accepted outputs can be sent |
| `level_emission` | all bodies of up to 5 operations, any conflicts, at most one loop and one replicate of two shards | errors unreachable, levels agree with the closed form, released exactly when complete, refinement of `ProgramOrder` with its liveness |
| `view_analysis` | operands that are a 2x2 matrix or a 3-vector under up to two views | no conflict missed, none invented between views of known range |
| `task_body` | all bodies of up to 4 operations and 3 accesses, shard `[1, 3)` | offsets exact, accesses inside the slab, a task does its iterations |
| `offset_broadcast`, `missed_consumer`, `partial_rows` | one or two small programs each | disagreements, see below |
| `diagonal_access` | loop bodies with up to two additions of a constant, one load and one store, shard `[1, 3)` | disagreements, see below |

Bounds.

- `rank_mapping`: three nodes of three kinds give all of: a perfect match,
  several of a kind, no match, match out of order; a job one larger and one or
  two smaller than the topology covers the size check.
- `family`: all two-item programs over a matrix and a vector, two bounds, every
  access kind and host code; three items only for loops over all rows with one
  load, which is enough for a producer, an overwriting loop or host code between,
  and a reader. The matrix has two columns: loops store both or the first, host
  code too, and load both or the second, which is all that can happen between
  what is stored and what else is in its row. A third memref has a dynamic
  trailing dimension; host code writes it and loops read it.
  Lockstep has one behaviour per text, and `InterleavingDoesNotMatter` carries
  the result to concurrent ranks.
- `kernels`, `family`: three ranks are the fewest with a root, two other owners
  and a broadcast loop that has to skip the root in the middle. Six rows with
  weights 2:1:1 give shards of different size; jacobi gets ten rows so that the
  last shard has two, see the first disagreement. A and B have two columns, of
  which the loops of jacobi2d store the inner one; no access of the other kernels
  tells columns apart. Two turns of a time loop show
  every effect of one turn on the next; a third sees the same relations between
  neighbours.
- `protocol`: two levels show each pair of neighbouring transfers, and a barrier
  separates levels. Up to four gathers per level, in the two orders the code can
  list them; the root has ranks before and after it in its loop, and one rank
  may own nothing. ScheduleRunProofs covers longer texts and more ranks.
- `sharding`: the weightings have equal, unequal and unusable costs and a device
  with almost all of the weight. MaxInt is 7, so that the check of the iteration count is met; the
  bounds include empty and reversed loops and loops with fewer iterations than
  devices. Types have up to four dimensions (the limit of the slab lowering is
  three, so refusal is met), extents 0..3, distances 1..3, each known or not;
  Int64Max 9 and MaxCount 3 make both overflow checks bite. To keep the product
  small slabs are cut only from the loop `[0, 7)` with exact shares, which has a
  shard of one row and larger ones.
- `level_emission`: five operations hold a loop around two tasks with something
  between them, or three tasks and two fences. Levels that complete out of order
  need three tasks, which fit with any two further operations.
- `view_analysis`: two views on an operand give every pair of kinds of view one
  on top of the other (slices known and dynamic, strided, rank-reducing, empty,
  outside of their source, reshapes); the two operands are independent.
- `task_body`: MaxInt 3, so sums of two operands overflow; maxDepth 2 instead of 5,
  so that a chain of three additions is deeper than the walk goes. Of bodies
  that differ only in the order of independent operations one is kept.

Deadlock is checked in `rank_mapping`, `kernels`, `family`, `sharding` and
`level_emission`, with an explicit stuttering step once the work is done. It is
off in `protocol`, where the liveness property states that every rank returns
and a hang is reported as its violation, and in `view_analysis`, `task_body` and
`diagonal_access`, where a behaviour builds an operand or a loop body and stops
at the bound on its size.

Fairness. Weak fairness of each rank's steps: ranks are operating-system
processes that keep being scheduled, and an MPI call that can complete does. In
RankMapping the root's steps and each rank's steps are fair separately, and an
abort reaches every rank. No fairness is assumed of the choice between a
buffered and a blocking send, so progress holds whichever the library makes. In
LevelEmission the compiler's next step is weakly fair: it is one thread that runs
until it is done. Sharding, TaskBody, ViewAnalysis and Transfers state safety
only, so they need none.

## Disagreements between code and comments

- `offset_broadcast`: the combined subview of rank-1 buffers starts at element
  0 whatever the buffers' offset (`libs/utils.cc:291`, against the comment at
  258). In jacobi the last row written is not broadcast. The kernel still
  computes the right result when the last device has at least two rows, because
  no other device reads that row; `kernels` runs it in that shape. On four
  devices with the first twice as fast the last shard has one row, which its
  neighbour reads, and the result is wrong.
- `missed_consumer`: two kinds of reader that `broadcastAnalysis.h` does not serve
  (84-86), one program each: one partitioned by rows over other bounds than the
  producer, and one earlier in the body of a time loop. `Coverage` excludes both
  from `family`, together with broadcasts of buffers that are not contiguous,
  which `utils.cc:259` states as an assumption.
- `partial_rows`: an output is accepted if its stores have the partitioned
  induction variable on dimension 0 (`lowerReplicateOp.h:394`); which part of the
  row they write nobody asks, and the gather sends whole rows
  (`dhirtompi.h:748-814`). A loop over rows 0..3 stores both columns of a matrix,
  one over rows 2..3 the first only: a device that has a row in the second loop
  and had not in the first sends its old second column over the root's new one.
  This is what the comment at 365-367 says must be rejected.
- `diagonal_access`: an access to a whole operand with the induction variable in
  two of its indices is accepted and then not rebased (`lowerReplicateOp.h:773`).
  The run reads `A[a][b]` where a and b are two additions that compute i + 1 each,
  which is what lowering `affine.load A[i + 1, i + 1]` leaves behind. With one
  addition used twice, or one computed from the other, `supportedIVUse` refuses.

`diagonal_access` is one of three shapes of body that `Regular` in TaskBody
excludes, and `TaskDoesItsIterations` is false without any of its conjuncts: that
property is about the other bodies and does not catch these. The other two, which
`MCDeepIndex.cfg` and `MCStoredIndex.cfg` show on the module of `diagonal_access`
beside the runs:

- An index six additions away from the induction variable is too deep for the walk
  that lists operands to rebase (`isDerivedFromValue`, limit 5) and not for the one
  that accepts the body; nobody rebases it. With five additions nothing is wrong.
- In `x[i] = i` the walk over uses finds i among the indices of the store and asks
  no further (`lowerReplicateOp.h:459`), so x is sliced and the shard stores its
  own count.

None of the shapes occurs in the repository's kernels.

Four more observations, which no property states. Results are gathered on the rank
matched to node 0 (`dhirtompi.h:819`), while the benchmark harness checks rank 0
(`tests/bench/dhir_bench.h:140`); the two agree when all nodes are alike, and
`kernels` runs with node 0 on rank 1. The gather takes the rows of
the base memref even when the output is itself a view with an offset
(`dhirtompi.h:748`). The replicate lowering accepts outputs of any rank, and the
schedule lowering refuses slabs of more than three dimensions as unsupported. An
output without cells whose strides are odd is accepted early and refused late;
`AcceptedSlabsAreSent` therefore speaks of slabs with cells, of up to three
dimensions.

## Proofs

`tlapm` checks eight proof modules completely.

**ShardingProofs** proves, for any number of devices, any weights, any bounds and
any rounding (`Slack` is arbitrary), `TypeCorrect` and `ShardsTileTheLoop`. The
invariant adds to the types: `Summing` (`prefix` holds running sums of the
shares), `Checked` (what the early returns have excluded), `Spread` (exactly the
first `remainder` devices got one more), and `Walked` (the ranges handed out tile
`[lb, current)`). `Checked` is why the result does not depend on how doubles
round: if the remainder check passes, the sizes add up to the iteration count,
whatever the shares were. `ExactSharesAreAccepted` is the converse for shares
that were not rounded: the truncated shares of n devices leave a remainder in
`0 .. n - 1`. `SharesFallShort` sums shares and weights together: the shares of n
devices fall short of the loop by fewer than n iterations. `WalkMatchesClosedForm`
compares the loops with `Chunks`, and `ExactArithmeticIsAccepted` puts the two together when `Slack` is 0.

Its second half is about Transfers: `TransfersAreExact` and
`AcceptedOutputsAreGathered`, for memrefs of any rank, extents and strides. The invariant: as long as a walk has not
refused, the cells reached are a run without gaps as long as the number of
elements, and a stride the walk still knows to expect equals that number. The
second theorem compares the two walks: what the first accepted leaves the second
nothing to refuse on a slab.

**RankMappingProofs** proves `TypeCorrect`, `TablesAlwaysPairUp`,
`RanksAlwaysAgree` and `RefinesAssignment` (the safety part of the refinement) for any number of nodes, any bound on the job size and any
kinds of hardware. `Matched` says that the ranks scanned so far and the nodes
taken are in bijection; `Sized` that past the first check the job has as many
ranks as nodes; `Complete`, `Posted` and `Taken` carry the root's finished tables
through the wire to each rank. That no node is left over once all ranks are
matched is a pigeonhole argument (`NoNodeLeft`). For the refinement an abort needs
a reason: a job of another size than the topology has no pairing
(`SizesMustAgree`), and when the first free node of a rank's kind does not exist
no other choice for the ranks before would have helped (`FirstFitIsEnough`).

**LevelEmissionProofs** proves, for every body and every set of conflicts,
`TypeCorrect`, `ErrorPathsUnreachable`, `LevelsGoOutInTime`,
`RefinesProgramOrder` (the safety part of the refinement) and
`SortMatchesClosedForm`. The invariant: a fence
between two tasks puts them into different groups (`Grouped`); after the second
phase a task waits for exactly those it depends on (`Waiting`); scheduled tasks
have all they wait for in earlier levels (`Sorted`), and in-degrees count those
not scheduled yet (`Counted`); when the walk starts every task is in a level, for
the first one that is not would have in-degree zero (`AllScheduled`); each counter
is the number of tasks of its level the walk has not counted, and the levels
released lie behind the walk (`Walked`); what is out is what the walk has passed
plus the released levels (`Emitted`). The closed form needs one more invariant,
`Early`: a task beyond the first level waits for one of the level just before.
Then, task by task in program order, the closed form puts each where the sort has
it (`PlacedAtItsLevel`).

**ViewAnalysisProofs** proves `NoConflictMissed` and `NoConflictInvented` for
memrefs of any shape and views nested to any depth. The invariant
(`Faithful`): the cells of an operand with a known range are those of the range,
and as long as no dimension was dropped the range also says which index is which
cell, so that the range of a view taken of it is known too.

**TaskBodyProofs** proves `OffsetsAreExact`, `TasksStayInside` and
`TasksDoTheirIterations` for bodies of any length over operands of any rank, any
shard, any width of an index and any limit of the walk. Word arithmetic (`Wrap`
is additive, and the identity on words) is proved once; the invariant says that
offsets are exact (`OffsetsExact`), that values the walk does not track are the
same in source and task (`Steady`), and that accesses use values of the body. The
theorems then follow from the invariant for whatever body has been written.

**ScheduleRunProofs** proves `RunTypeCorrect`, `ReceivesAreMatched`,
`AllIsDelivered`, `DeadlockFree` and `RunsAreFinite` for every text of gathers, broadcasts, barriers and tasks that
ends in its only return, any number of ranks, any rank table and any mix of
buffered and blocking sends. The invariant: the channel from s to d holds exactly
the transfers of the text that s has sent and d has not reached, in the order of
the text (`InOrder`); a rank stands at an instruction that concerns it and passes
only what does not (`Standing`, `Busy`); and no rank is past a transfer its sender
has not sent (`NotAhead`). All five parts were model-checked as well. That a
rank's next instruction exists is a least-member argument over the positions of
the text. `DeadlockFree` looks at a rank that is furthest behind: whatever it
waits for, a message, the other side of a send or of a barrier, is with a rank
not ahead of it, so it can move itself or one beside it can. `RunsAreFinite`
gives each rank a bound on its steps that every step of its own lowers and no
step of another changes. The two together leave fairness as the only ingredient
missing from `EveryRankReturns`.

The second half of the module is about memory. `InterleavingDoesNotMatter`: a
rank reaches each instruction with the memory Lockstep has there, for every text
and every interleaving. The invariant adds to the one above that a message under way
carries what its sender's memory was in lockstep at the message's place. That
`MemoryBefore`, a recursive definition, has a solution is a least-counterexample
argument. It follows that three judgements about a concurrent program are
judgements about its text: `ReadsStayFresh`, `ResultReachesRoot` and
`RootOnlyGains` assume of the texts `ReadsFreshInLockstep`, `ResultInLockstep` and
`RootGainsInLockstep`, which speak of `MemoryBefore` alone. These are what `family`
checks of its 2054 texts, for by `LockstepComputesMemory` a run of Lockstep shows
exactly that memory, position by position; `kernels` checks the conclusions
themselves. The assumptions cannot be dropped: a text may well be wrong, and
`missed_consumer` has two that are. `SuppliedTextsAreRight` brings the three down to
a condition on each instruction by itself (`Supplied`): the rank that runs it has the
cells it takes, those of a task's `keeps` among them, and what a task takes was last written, in the text, by the step
that the sequential program names. CompilerProofs shows this of compiled texts.

**PipelineProofs** is about the passes: from a `WellFormed` program to its text, for
any number of devices, any costs, any memrefs and any program that is
`Accepted`, whatever parts of rows its loops store. `EmittedTextIsWellFormed`: the text is of the form that
`ProgramsAssumption` asks for, so that every theorem of ScheduleRunProofs holds of
compiled code. `ClashesKeepSourceOrder`: of two computations of a text one of
which writes a cell that the other writes, reads or keeps, that of the earlier item, or of the earlier
round of the time loop, comes first; `CompiledCodeKeepsSourceOrder` states it of
the runs of Lockstep. This is the reason for the dependency graph: tasks are
sorted into levels, and levels wait for others, so that a text does run
computations in another order than the source. The argument:

- `Layout`: a text is made of one piece per item that is run, and a piece is
  either one stretch of host code or the levels released there. So two
  computations out of order come from one group of tasks (`ReleasedInGroup`,
  `BlockRuns`, `BodyOrigin`): a level is released at the latest item of its tasks
  and of those of the levels before it, and a group ends at host code and at the
  ends of the time loop.
- `OvertakenIsNotAwaited`: of the two, the later item's task is in a level not
  above the other's. `LevelsInOrder` says that a task that waits for another is in
  a level above it. So it did not wait for it.
- `TaskCells`, `ClashIsDependence`: a task touches no cells but those of its operand
  views, whether sliced or whole. If two tasks clash then two of their operands
  overlap, one of which is written, and the later task waits.

The three cases of the last step, a write against a read, a read against a
write, and two writes, are all needed; without the second (`readsAreForgotten`)
`family` finds a program that is reordered.

**CompilerProofs** puts the passes and the run together. For all programs that are
`WellFormed`, `Accepted` and `Covered`, any number of devices, any costs and any
table of ranks: every task reads fresh cells (`CompiledReadsAreFresh`), the root
returns with the sequential result (`CompiledCodeLeavesResult`) and never goes back
(`CompiledCodeGoesForward`), on concurrent ranks and with either kind of send; the
same three of Lockstep. All follow from `CoveredTextsAreSupplied`, whose argument
takes one cell from its last writer to a reader:

- `TextInBlocks`: a text is made of blocks, one for each level that is released:
  the task bodies, a barrier, the gathers and the broadcast of what they have
  written. Host code is a block of its own.
- `ShardsTile`, `SameShards`: the shards of a loop tile it, and two loops with the
  same bounds are cut alike; so in a text a computation of an item is done on all
  devices, each cell of it on one. Shards of one loop run at the same time;
  `Independent` says that they do not clash (`ShardsAgree`).
- `NowIs`: the last computation of the text that writes a cell before a reader is
  the step that the sequential program has there, for computations that clash
  are in the order of the source. This uses PipelineProofs.
- `RowsTravel`, `CellParts`: a transfer moves whole rows, so it brings cells that the
  task did not store. Those are the `keeps` of the task, which are fresh on its
  device because a task takes them like what it loads (`Takes` in Coverage);
  `LastInBlock` says that a cell nobody stores in a block has passed through it
  unchanged in age, and `NothingBeyond` that nothing but such rows is sent.
- `Reaches`: once the block of the writer is over, the root has the cell, and if
  the item was flagged for a broadcast so has every rank. A combined broadcast is
  all of its buffers because `Covered` says they are contiguous.
- `ReaderIsServed`: a reader that no broadcast reaches has the same bounds as the
  writer and touches row i in iteration i, so it is on the device of the writer.

The hypotheses (`CompiledFrom`) are those under which `family` makes its programs.
All kernels but jacobi satisfy them (`SuiteAssumption`, which TLC evaluates in
`kernels`). `Covered` does not ask that loops store whole rows. It asks that what a
loop takes, a kept cell included, is where the loop runs: by a broadcast, or
because it was written under the same bounds. The code checks none of this.
`Covered` cannot be dropped: `missed_consumer` and `partial_rows` are what happens
without its first conjunct, the one for what is loaded and the other for what is
kept, and `offset_broadcast` without its second.

Assumptions. Each is stated where its constant is declared, and TLC evaluates it:

- `NumNodesAssumption`, `MaxWorldAssumption`: at least one node and one rank.
- `HardwareAssumption`: two hardware records the comparison equates are equal, for
  a record has no field the comparison overlooks.
- Sharding: at least one device, bounds that are integers, weights that are
  natural numbers (0 stands for a cost that is not finite and positive).
- `NodeToRankAssumption`: the table pairs nodes with ranks one to one; this is
  what RankMapping establishes.
- `ProgramsAssumption`: a text ends in its only return, and nothing is gathered
  from node 0. `EmittedTextIsWellFormed` proves that compiled texts are such.
- `WeightAssumption`: at least one device, costs above zero. The lowering refuses
  others, as ShardingProofs shows.
- `NumRanks = NumNodes`, a hypothesis of `EmittedTextIsWellFormed` and of
  `CompiledFrom`: a job of another size is aborted by `buildRankNodeMaps`.
- `BodiesAssumption`, `ViewsAssumption`, `TaskAssumption`, `TransferAssumption`: the
  types of the inputs; a shard lies within the range of an index; extents and
  distances are natural numbers.

Only model-checked: liveness under fairness (`EveryRankReturns`, and the liveness
parts of `ImplementsAssignment` and `ImplementsProgramOrder`), which is out of the
prover's reach. Every invariant and action property of a passing run is a theorem.

## Not modelled

Discovery of hardware, reading of the configuration, wrapping of a function into
a schedule, dialect definitions and the driver are straight-line or I/O, and
`includes/json.hpp`, three quarters of the lines under `src/`, is a vendored
parser. Also outside:

- The polyhedral dependence test and the syntactic tests for a parallel loop are
  taken as given: an item is parallel or serial, and of a parallel one `Independent`
  states the outcome.
- The forms of the partition analysis and of the rebasing for `affine.load` and
  `affine.store`; the driver lowers affine before these passes run. Block
  arguments carried by an inner loop.
- Roots that are different values but the same buffer: the dependency analysis
  assumes they do not exist, and so does ViewAnalysis.
- GPU selection, and GPU staging, which copies a task's operands in, also those it
  writes, and its outputs back, and changes no communication. One of its hazards
  is listed without a property: staging buffers are not freed.
- Which cells a store under a condition on data writes: `part` and the bounds say
  it for all iterations, as an `affine.if` on indices does. Loads may be listed
  with more cells than they touch, which makes `Covered` ask for more.
- The conversion from double to integer at 2^63: shares are integers without a
  largest value.
- Handle constants and types of the MPI implementations, and in-place collectives
  of the input program.

## Plan

1. Core: rank mapping, sharding, the passes, the emitted program; proofs of
   sharding and rank mapping. *Done.*
2. LevelEmission against ProgramOrder, with its proof. *Done.*
3. TaskBody: index expressions, uses of the induction variable, rebasing, with
   proof. *Done.*
4. ViewAnalysis: conflicts against shared cells, with proof. *Done.*
5. ScheduleRunProofs for texts of any length; Lockstep, the abstract
   specification of what a text computes, with proof. *Done.*
6. Transfers: contiguity, element count, agreement of the two walks, with
   proof. *Done.*
7. Refinement of Assignment, closed forms of the shards and of the levels, with
   proof. *Done.*
8. PipelineProofs: compiled texts have the form the other proofs assume, and keep
   the source's order where it matters. *Done.*
9. CompilerProofs: the texts of covered programs are right. *Done.*
10. Cells in place of rows, loops that store part of a row, through all the
    modules and proofs of the passes. *Done.*
11. Left: staging of buffers for a GPU task, the conversion at 2^63.

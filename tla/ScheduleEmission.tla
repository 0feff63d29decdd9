-------------------------- MODULE ScheduleEmission --------------------------
(***************************************************************************)
(* ConvertScheduleOp (dhirtompi.h) and generateBroadcastCommunication      *)
(* (utils.cc): the MPI program emitted for a schedule.  Every rank runs    *)
(* the same text; an instruction is                                        *)
(*                                                                         *)
(*   [op |-> "compute", nodes, effect, keeps, version]                     *)
(*        run by the ranks of these nodes; effect pairs each cell written  *)
(*        with the cells read for it, dated by the version they should be; *)
(*        keeps has the rest of the rows that will be sent off, dated      *)
(*   [op |-> "barrier"]                                                    *)
(*   [op |-> "gather", owner, slab]     the owner's slab goes to the root  *)
(*   [op |-> "broadcast", slab, buffers]  the root's slab goes to all      *)
(*        others; buffers: the outputs it was emitted for                  *)
(*   [op |-> "return", result]          result: what memory should hold    *)
(***************************************************************************)
EXTENDS DependencyGraph

Barrier == [op |-> "barrier"]

Return(prog) == [op |-> "return", result |-> SequentialResult(prog)]

Slab(m, lo, len) == [mem |-> m, lo |-> lo, len |-> len]

Dated(prog, s, cells) == {[cell |-> c, version |-> VersionBefore(prog, s, c)] : c \in cells}

Body(nodes, effect, keeps, s) ==
  [op |-> "compute", nodes |-> nodes, effect |-> effect, keeps |-> keeps, version |-> s]

(* The iterations a task has been given.                                   *)
Iterations(task) == task.outRanges[1] .. task.outRanges[2] - 1

(* What the body leaves alone in the rows its loop stores to: it has the   *)
(* value it had on the device, and travels with the row.                   *)
Kept(prog, task) ==
  LET item == prog.items[task.item]
  IN  {c \in Cells : /\ \E a \in Stores(item) : a.mem = c[1]
                     /\ c[2] \in Iterations(task)
                     /\ c \notin StoresOf(item, c[2])}

(* The body of a task run at step s of the trace.                          *)
TaskBody(prog, task, s) ==
  LET item == prog.items[task.item]
      iteration(i) == LET needs == Dated(prog, s, LoadsOf(item, i))
                      IN  {[cell |-> c, needs |-> needs] : c \in StoresOf(item, i)}
  IN  Body({task.target}, UNION {iteration(i) : i \in Iterations(task)},
           Dated(prog, s, Kept(prog, task)), s)

(* Host code between the tasks is cloned: every rank runs it.              *)
SerialBody(prog, k, s) ==
  LET item == prog.items[k]
      needs == Dated(prog, s, item.reads)
  IN  Body(Nodes, {[cell |-> c, needs |-> needs] : c \in item.writes}, {}, s)

(* The slabs of a task's outputs in the base memrefs.                      *)
OutSlabs(task) ==
  [i \in 1 .. Len(task.outputs) |->
     Slab(task.outputs[i].mem, task.outRanges[1],
          task.outRanges[2] - task.outRanges[1])]

(* Mutants of Gathers: the base memrefs whole; the first output only; only *)
(* what will be broadcast.                                                 *)
GathersWhole(task) ==
  IF task.target = 0
    THEN <<>>
    ELSE [i \in 1 .. Len(task.outputs) |->
            [op |-> "gather", owner |-> task.target,
             slab |-> Slab(task.outputs[i].mem, 0, Extent[task.outputs[i].mem])]]

GathersFirst(task) ==
  IF task.target = 0
    THEN <<>>
    ELSE <<[op |-> "gather", owner |-> task.target, slab |-> OutSlabs(task)[1]]>>

GathersForBroadcast(task) ==
  IF task.target = 0 \/ ~task.needBroadcast
    THEN <<>>
    ELSE [i \in 1 .. Len(task.outputs) |->
            [op |-> "gather", owner |-> task.target, slab |-> OutSlabs(task)[i]]]

Gathers(task) ==
  IF task.target = 0
    THEN <<>>
    ELSE [i \in 1 .. Len(task.outputs) |->
            [op |-> "gather", owner |-> task.target, slab |-> OutSlabs(task)[i]]]

(* One subview of the first buffer's memref stands for all the buffers:    *)
(* its length is their total; its offset is the first buffer's, or 0 when  *)
(* every buffer has rank 1.                                                *)
CombinedSlab(slabs) ==
  LET upTo[n \in 0 .. Len(slabs)] == IF n = 0 THEN 0 ELSE upTo[n - 1] + slabs[n].len
      total == upTo[Len(slabs)]
      secondDim == \E b \in ToSet(slabs) : RankOf[b.mem] >= 2
  IN  Slab(slabs[1].mem, IF secondDim THEN slabs[1].lo ELSE 0, total)

toBroadcast(level) ==
  FlattenSeq([i \in 1 .. Len(level) |->
                IF level[i].needBroadcast THEN OutSlabs(level[i]) ELSE <<>>])

generateBroadcastCommunication(slabs) ==
  IF slabs = <<>>
    THEN <<>>
    ELSE <<[op |-> "broadcast", slab |-> CombinedSlab(slabs),
           buffers |-> ToSet(slabs)]>>

(* Mutant of emitLevel: the broadcast goes out before the gathers.          *)
emitLevelBroadcastFirst(prog, level, k, s) ==
  [i \in 1 .. Len(level) |-> TaskBody(prog, level[i], s - (k - level[i].item))]
  \o <<Barrier>>
  \o generateBroadcastCommunication(toBroadcast(level))
  \o FlattenSeq([i \in 1 .. Len(level) |-> Gathers(level[i])])

(* A level released when the walk is at item k, step s of the trace: task  *)
(* bodies, barrier, gathers, one broadcast.                                *)
emitLevel(prog, level, k, s) ==
  [i \in 1 .. Len(level) |-> TaskBody(prog, level[i], s - (k - level[i].item))]
  \o <<Barrier>>
  \o FlattenSeq([i \in 1 .. Len(level) |-> Gathers(level[i])])
  \o generateBroadcastCommunication(toBroadcast(level))

(* emitBody: the item at which the walk releases level l, the last of the  *)
(* items of its tasks and of those of all levels before it.                *)
ReleasedAt(levels, l) ==
  Max({t.item : t \in UNION {ToSet(levels[j]) : j \in 1 .. l}})

EmittedAt(prog, levels, k, s) ==
  IF k \in Parallel(prog)
    THEN FlattenSeq([l \in 1 .. Len(levels) |->
                       IF ReleasedAt(levels, l) = k THEN emitLevel(prog, levels[l], k, s)
                       ELSE <<>>])
    ELSE <<SerialBody(prog, k, s)>>

EmittedProgram(prog) ==
  LET levels == LevelVector(prog)
      trace == Trace(prog)
  IN  FlattenSeq([s \in 1 .. Len(trace) |-> EmittedAt(prog, levels, trace[s], s)])
      \o <<Barrier, Return(prog)>>

(* A broadcast of rank-3 buffers, or of a rank-1 buffer together with one  *)
(* of rank 2, asks for a subview with as many offsets as the first buffer  *)
(* has dimensions but two sizes, which the IR verifier rejects.            *)
WellFormedBroadcast(slabs) ==
  (\E b \in ToSet(slabs) : RankOf[b.mem] >= 2) => RankOf[slabs[1].mem] = 2

Accepted(prog) ==
  /\ \A k \in Parallel(prog) : Lowerable(prog.items[k])
  /\ \A level \in ToSet(LevelVector(prog)) :
       toBroadcast(level) # <<>> => WellFormedBroadcast(toBroadcast(level))
=============================================================================

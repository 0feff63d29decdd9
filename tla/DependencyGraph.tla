--------------------------- MODULE DependencyGraph ---------------------------
(***************************************************************************)
(* lowerReplicateOp.h and depGraph.h: a parallel item becomes one task per *)
(* device, each with a row range and operand slices; tasks are ordered by  *)
(* emission groups and by conflicts between slices, and scheduled level by *)
(* level.                                                                  *)
(***************************************************************************)
EXTENDS PartitionAnalysis, TopologicalLevels, Chunks

ASSUME WeightAssumption == NumNodes \in Nat \ {0} /\ Weight \in [Nodes -> Nat \ {0}]

(* An operand of a task: a whole memref or a row subview of it.            *)
Whole(m) == [mem |-> m, view |-> FALSE, lo |-> 0, len |-> Extent[m]]

SubView(m, start, chunk) ==
  [mem |-> m, view |-> TRUE, lo |-> Max({0, start}), len |-> chunk]

Operands(prog, k, n, mems) ==
  LET item == prog.items[k]
      operand(m) == IF Sliced(prog, k, m)
                      THEN SubView(m, Start(item, n), Chunk(item, n))
                      ELSE Whole(m)
  IN  [i \in 1 .. Len(mems) |-> operand(mems[i])]

Task(prog, k, n) ==
  LET item == prog.items[k]
  IN  [item          |-> k,
       target        |-> n,
       inputs        |-> Operands(prog, k, n, Reads(item)),
       outputs       |-> Operands(prog, k, n, Writes(item)),
       outRanges     |-> <<Start(item, n), Start(item, n) + Chunk(item, n)>>,
       needBroadcast |-> needBroadcast(prog, k)]

(* Tasks in the order the walk over the schedule meets them.               *)
Tasks(prog) ==
  FlattenSeq([i \in 1 .. Len(prog.items) |->
                IF i \in Parallel(prog)
                  THEN [n \in 1 .. NumNodes |-> Task(prog, i, n - 1)]
                  ELSE <<>>])

rangesOverlap(a, b) ==
  /\ a.len > 0 /\ b.len > 0
  /\ a.lo < b.lo + b.len
  /\ b.lo < a.lo + a.len

memoryAccessesConflict(a, b) ==
  /\ a.mem = b.mem
  /\ a.view /\ b.view => rangesOverlap(a, b)

(* Mutant of checkMemoryDependency: a write need not wait for a read.       *)
readsAreForgotten(t, u) ==
  \E a \in ToSet(t.outputs), b \in ToSet(u.inputs) \cup ToSet(u.outputs) :
    memoryAccessesConflict(a, b)

checkMemoryDependency(t, u) ==
  LET conflict(s1, s2) ==
        \E a \in ToSet(s1), b \in ToSet(s2) : memoryAccessesConflict(a, b)
  IN  \/ conflict(t.outputs, u.inputs)    \* read after write
      \/ conflict(t.outputs, u.outputs)   \* write after write
      \/ conflict(t.inputs, u.outputs)    \* write after read

(* Consecutive parallel items of one block share an emission group, named  *)
(* here by its first item.                                                 *)
EmissionGroup(prog, k) ==
  Min({j \in 1 .. k : \A i \in j .. k : /\ i \in Parallel(prog)
                                        /\ InLoop(prog, i) = InLoop(prog, k)})

(* Task u waits for the earlier task t; shards of one replicate never do.  *)
DependsOn(prog, t, u) ==
  \/ EmissionGroup(prog, t.item) # EmissionGroup(prog, u.item)
  \/ t.item # u.item /\ checkMemoryDependency(t, u)

LevelVector(prog) ==
  LET tasks == ToSet(Tasks(prog))
  IN  PlaceInLevels(Tasks(prog), [u \in tasks |-> {t \in tasks : DependsOn(prog, t, u)}])
=============================================================================

-------------------------- MODULE PartitionAnalysis --------------------------
(***************************************************************************)
(* arrayPartitionAnalysis.h: may an operand of a parallel loop be cut      *)
(* into row slabs, one per device?  And the two passes that use it to      *)
(* decide what is cut (lowerReplicateOp.h) and what must be broadcast      *)
(* (broadcastAnalysis.h).                                                  *)
(***************************************************************************)
EXTENDS AffineProgram

AccessesTo(item, m) == {a \in AccessSet(item) : a.mem = m}

Exact(item, m) == {a \in AccessesTo(item, m) : a.form = "exact"}

(* computeHaloForAccesses, run for rank-1 memrefs only.                    *)
HasHalo(item, m) ==
  RankOf[m] = 1 /\ \E a \in Exact(item, m) : a.dim = 0 /\ a.off # 0

(* analyzeArray: every other outcome is NO_PARTITION.                      *)
RowPartition(item, m) ==
  /\ RankOf[m] \in 1 .. 3
  /\ m \notin Dynamic
  /\ AccessesTo(item, m) # {}
  /\ \A a \in AccessesTo(item, m) : a.form = "exact" /\ a.off = 0 /\ a.dim = 0
  /\ ~HasHalo(item, m)

(* The "pattern" attribute, set only on replicates inside a ConvergeOp.    *)
IsStencil(prog, k) ==
  /\ InLoop(prog, k)
  /\ \E m \in Mems : HasHalo(prog.items[k], m)

(* supportedIVUse fails: the loop keeps absolute bounds and whole operands. *)
ForceAbsoluteBounds(item) ==
  item.escapes \/ \E a \in AccessSet(item) : a.form = "unsupported"

(* The lowering hands the operand to its tasks as a row subview.           *)
Sliced(prog, k, m) ==
  /\ RowPartition(prog.items[k], m)
  /\ ~ForceAbsoluteBounds(prog.items[k])
  /\ ~IsStencil(prog, k)

(* Conditions under which a parallel item is lowered at all.  Nothing asks *)
(* which part of its row a store writes.                                   *)
Lowerable(item) ==
  /\ item.lb <= item.ub
  /\ \A a \in Stores(item) :
       a.mem \notin Dynamic /\ a.form = "exact" /\ a.dim = 0 /\ a.off = 0

(* findSubsequentReplicates: the walk starts at the replicate's parent, so *)
(* from inside the loop only later replicates of the loop body are seen.   *)
SubsequentReaders(prog, k, m) ==
  {j \in Parallel(prog) : /\ j > k
                          /\ InLoop(prog, k) => InLoop(prog, j)
                          /\ Contains(Reads(prog.items[j]), m)}

doesOutputNeedBroadcast(prog, k, m) ==
  \E j \in SubsequentReaders(prog, k, m) : ~RowPartition(prog.items[j], m)

(* ConvertConvergeOp: the tasks with the highest repId of the loop body    *)
(* are broadcast whatever the analysis said.                               *)
ClosesConverge(prog, k) ==
  /\ InLoop(prog, k)
  /\ \A j \in Parallel(prog) :
       InLoop(prog, j) => ReplicateId(prog, j) <= ReplicateId(prog, k)

needBroadcast(prog, k) ==
  \/ \E m \in ToSet(Writes(prog.items[k])) : doesOutputNeedBroadcast(prog, k, m)
  \/ ClosesConverge(prog, k)
=============================================================================

----------------------------- MODULE ScheduleBody -----------------------------
(***************************************************************************)
(* The body of a ScheduleOp as the dependency graph and the MPI lowering   *)
(* walk it: one entry per operation, in program order.                     *)
(*                                                                         *)
(*   "task"           a TaskOp                                             *)
(*   "setup"          without memory effects, or an allocation             *)
(*   "enter", "exit"  the ends of an scf.for that wraps tasks              *)
(*   "serial"         anything else, loops without tasks included          *)
(*                                                                         *)
(* A body also says which tasks are shards of one replicate and for which  *)
(* pairs checkMemoryDependency finds a conflict.                           *)
(***************************************************************************)
EXTENDS Integers, Sequences, FiniteSets

CONSTANT Bodies   \* records [ops, shard, conflicts]

Operations(b) == 1 .. Len(b.ops)

Tasks(b) == {i \in Operations(b) : b.ops[i] = "task"}

Setups(b) == {i \in Operations(b) : b.ops[i] = "setup"}

Others(b) == Operations(b) \ Tasks(b)

(* Serial work and the ends of loops order everything around them.         *)
Fences(b) == Operations(b) \ (Tasks(b) \cup Setups(b))

ASSUME BodiesAssumption ==
  \A b \in Bodies : /\ b.ops \in Seq({"task", "setup", "enter", "exit", "serial"})
                    /\ b.shard \in [Tasks(b) -> Int]
                    /\ b.conflicts \subseteq Tasks(b) \X Tasks(b)

Fenced(b, i, j) == \E k \in Fences(b) : i < k /\ k < j

(* The code of taskI and the code of taskJ may not be swapped or run side  *)
(* by side.                                                                *)
Conflicting(b, i, j) == <<i, j>> \in b.conflicts /\ b.shard[i] # b.shard[j]
=============================================================================

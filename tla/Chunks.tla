------------------------------- MODULE Chunks -------------------------------
(***************************************************************************)
(* In closed form, the contiguous chunk of a parallel loop that            *)
(* lowerReplicateOp.h gives each device when shares are computed exactly.  *)
(* Sharding models the loops that compute it.                              *)
(***************************************************************************)
EXTENDS Integers

CONSTANTS
  NumNodes,  \* number of target devices
  Weight     \* 1/cost of each device, scaled to integers

Nodes == 0 .. NumNodes - 1

(* RunningSums(f)[n] is what the devices before n have together.           *)
RunningSums(f) ==
  LET sum[n \in 0 .. NumNodes] == IF n = 0 THEN 0 ELSE sum[n - 1] + f[n - 1]
  IN  sum

WeightSum == RunningSums(Weight)[NumNodes]

(* Truncated share of a device, then one more iteration for each of the    *)
(* first `remainder` devices.                                              *)
BaseChunk(loop, n) == (Weight[n] * (loop.ub - loop.lb)) \div WeightSum

Remainder(loop) ==
  (loop.ub - loop.lb) - RunningSums([n \in Nodes |-> BaseChunk(loop, n)])[NumNodes]

Chunk(loop, n) == BaseChunk(loop, n) + (IF n < Remainder(loop) THEN 1 ELSE 0)

Start(loop, n) == loop.lb + RunningSums([m \in Nodes |-> Chunk(loop, m)])[n]
=============================================================================

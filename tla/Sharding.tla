------------------------------ MODULE Sharding ------------------------------
(***************************************************************************)
(* How ReplicateOpLowering (lowerReplicateOp.h) cuts the iterations        *)
(* [lb, ub) of a parallel loop into one contiguous shard per device:       *)
(* the weights of the devices, truncated weighted shares, the remainder    *)
(* handed to the first devices, then a walk that turns chunk sizes into    *)
(* the outRanges of the tasks.                                             *)
(*                                                                         *)
(* Shares are computed in doubles.  A share may come out up to Slack away  *)
(* from the exact truncated value; the checks that follow must catch every *)
(* case in which the shares do not add up.                                 *)
(***************************************************************************)
EXTENDS Integers

CONSTANTS
  num_devices,  \* deviceVec.size()
  Weightings,   \* weights of the devices: 1/cost, scaled to integers, or 0
                \* for a cost that is not finite and positive
  Slack,        \* rounding of the double computation
  Bounds,       \* loop bounds that occur
  MaxInt        \* std::numeric_limits<int64_t>::max()

Devices == 0 .. num_devices - 1

ASSUME DevicesAssumption == num_devices \in Nat \ {0}
ASSUME BoundsAssumption == Bounds \subseteq Int /\ MaxInt \in Nat
ASSUME WeightingsAssumption == Weightings \subseteq [Devices -> Nat] /\ Slack \in Nat

VARIABLES
  lb, ub,          \* constlowerBound, constupperBound
  weights,         \* of the devices
  pc,
  i,               \* the index of the loop in progress
  weight_sum,
  chunk_sizes,
  assigned_iters,
  remainder,
  current,
  outRanges,       \* the range of each task
  prefix           \* history: assigned_iters before each device

vars == <<lb, ub, weights, pc, i, weight_sum, chunk_sizes, assigned_iters, remainder, current,
          outRanges, prefix>>

total_iters == ub - lb

Init ==
  /\ lb \in Bounds /\ ub \in Bounds /\ weights \in Weightings
  /\ pc = "check"
  /\ i = 0
  /\ weight_sum = 0
  /\ chunk_sizes = [d \in Devices |-> 0]
  /\ assigned_iters = 0
  /\ remainder = 0
  /\ current = 0
  /\ outRanges = [d \in Devices |-> <<0, 0>>]
  /\ prefix = [d \in 0 .. num_devices |-> 0]

CheckBounds ==
  /\ pc = "check"
  /\ pc' = IF ub < lb \/ total_iters > MaxInt THEN "failed" ELSE "weights"
  /\ UNCHANGED <<lb, ub, weights, weight_sum, i, chunk_sizes, assigned_iters, remainder,
                 current, outRanges, prefix>>

AddWeight ==
  /\ pc = "weights" /\ i < num_devices
  /\ IF weights[i] = 0
       THEN pc' = "failed" /\ UNCHANGED <<i, weight_sum>>
       ELSE /\ weight_sum' = weight_sum + weights[i]
            /\ i' = i + 1
            /\ UNCHANGED pc
  /\ UNCHANGED <<lb, ub, weights, chunk_sizes, assigned_iters, remainder, current,
                 outRanges, prefix>>

CheckWeights ==
  /\ pc = "weights" /\ i = num_devices
  /\ pc' = IF weight_sum = 0 THEN "failed" ELSE "chunks"
  /\ i' = 0
  /\ UNCHANGED <<lb, ub, weights, weight_sum, chunk_sizes, assigned_iters, remainder,
                 current, outRanges, prefix>>

(* What (weights[d] / weight_sum) * total_iters may come to, truncated.    *)
Shares(d) ==
  LET exact == (weights[d] * total_iters) \div weight_sum
  IN  {c \in exact - Slack .. exact + Slack : c >= 0}

AssignChunk ==
  /\ pc = "chunks" /\ i < num_devices
  /\ \E chunk \in Shares(i) :
       /\ chunk_sizes' = [chunk_sizes EXCEPT ![i] = chunk]
       /\ assigned_iters' = assigned_iters + chunk
       /\ prefix' = [prefix EXCEPT ![i + 1] = assigned_iters + chunk]
  /\ i' = i + 1
  /\ UNCHANGED <<lb, ub, weights, weight_sum, pc, remainder, current, outRanges>>

(* Mutants of CheckRemainder: a bound of lines 235-239 forgotten or off by  *)
(* one.                                                                     *)
JudgeRemainder(bad(_)) ==
  /\ pc = "chunks" /\ i = num_devices
  /\ remainder' = total_iters - assigned_iters
  /\ pc' = IF bad(remainder') THEN "failed" ELSE "spread"
  /\ i' = 0
  /\ UNCHANGED <<lb, ub, weights, weight_sum, chunk_sizes, assigned_iters, current, outRanges, prefix>>

CheckRemainderNoUpperBound == JudgeRemainder(LAMBDA n : n < 0)
CheckRemainderNoLowerBound == JudgeRemainder(LAMBDA n : n >= num_devices)
CheckRemainderTooStrict == JudgeRemainder(LAMBDA n : n < 0 \/ n >= num_devices - 1)

CheckRemainder ==
  /\ pc = "chunks" /\ i = num_devices
  /\ remainder' = total_iters - assigned_iters
  /\ pc' = IF remainder' < 0 \/ remainder' >= num_devices THEN "failed" ELSE "spread"
  /\ i' = 0
  /\ UNCHANGED <<lb, ub, weights, weight_sum, chunk_sizes, assigned_iters, current, outRanges, prefix>>

(* Mutant of SpreadRemainder: the extra iterations go to the last devices.  *)
SpreadRemainderBackwards ==
  /\ pc = "spread" /\ i < remainder
  /\ chunk_sizes' = [chunk_sizes EXCEPT ![num_devices - 1 - (i % num_devices)] = @ + 1]
  /\ i' = i + 1
  /\ UNCHANGED <<lb, ub, weights, weight_sum, pc, assigned_iters, remainder, current, outRanges, prefix>>

SpreadRemainder ==
  /\ pc = "spread" /\ i < remainder
  /\ chunk_sizes' = [chunk_sizes EXCEPT ![i % num_devices] = @ + 1]
  /\ i' = i + 1
  /\ UNCHANGED <<lb, ub, weights, weight_sum, pc, assigned_iters, remainder, current, outRanges, prefix>>

StartLowering ==
  /\ pc = "spread" /\ ~(i < remainder)
  /\ current' = lb
  /\ i' = 0
  /\ pc' = "lower"
  /\ UNCHANGED <<lb, ub, weights, weight_sum, chunk_sizes, assigned_iters, remainder, outRanges, prefix>>

LowerShard ==
  /\ pc = "lower" /\ i < num_devices
  /\ outRanges' = [outRanges EXCEPT ![i] = <<current, current + chunk_sizes[i]>>]
  /\ current' = current + chunk_sizes[i]
  /\ i' = i + 1
  /\ UNCHANGED <<lb, ub, weights, weight_sum, pc, chunk_sizes, assigned_iters, remainder, prefix>>

EraseReplicate ==
  /\ pc = "lower" /\ i = num_devices
  /\ pc' = "lowered"
  /\ UNCHANGED <<lb, ub, weights, weight_sum, i, chunk_sizes, assigned_iters, remainder, current,
                 outRanges, prefix>>

Finished == pc \in {"lowered", "failed"} /\ UNCHANGED vars

Next ==
  \/ CheckBounds \/ AddWeight \/ CheckWeights \/ AssignChunk \/ CheckRemainder
  \/ SpreadRemainder \/ StartLowering \/ LowerShard \/ EraseReplicate \/ Finished

Spec == Init /\ [][Next]_vars

-----------------------------------------------------------------------------
TypeOK ==
  /\ lb \in Bounds /\ ub \in Bounds /\ weights \in Weightings
  /\ weight_sum \in Nat
  /\ pc \in {"check", "weights", "chunks", "spread", "lower", "lowered", "failed"}
  /\ i \in 0 .. num_devices
  /\ chunk_sizes \in [Devices -> Nat]
  /\ assigned_iters \in Nat
  /\ remainder \in Int
  /\ current \in Int
  /\ outRanges \in [Devices -> Int \X Int]
  /\ prefix \in [0 .. num_devices -> Nat]

Within(x, range) == range[1] <= x /\ x < range[2]

InShard(x, d) == Within(x, outRanges[d])

(* However the doubles were rounded, a loop that is lowered has each of    *)
(* its iterations on exactly one device, and no device runs an iteration   *)
(* outside the loop (lines 221-243 and 539-545).                           *)
ShardsTile ==
  pc = "lowered" =>
    /\ \A x \in lb .. ub - 1 :
         \E d \in Devices : InShard(x, d) /\ \A e \in Devices : InShard(x, e) => e = d
    /\ \A d \in Devices : lb <= outRanges[d][1] /\ outRanges[d][2] <= ub

-----------------------------------------------------------------------------
S == INSTANCE Chunks WITH NumNodes <- num_devices, Weight <- weights

loop == [lb |-> lb, ub |-> ub]

SharesExact == \A d \in Devices : prefix[d + 1] - prefix[d] = S!BaseChunk(loop, d)

(* When the shares came out exact, the lowering does not give up on a loop *)
(* it could cut: the remainder of truncated shares is never negative and   *)
(* always smaller than the number of devices (the check of lines 235-239). *)
ExactSharesAccepted ==
  pc = "failed" =>
    \/ ub < lb \/ total_iters > MaxInt
    \/ \E d \in Devices : weights[d] = 0
    \/ ~SharesExact

(* From exact shares the walk yields the ranges the dependency graph is    *)
(* told in closed form (lines 221-243 and 539-545).                        *)
MatchesClosedForm ==
  pc = "lowered" /\ SharesExact =>
    \A d \in Devices :
      outRanges[d] = <<S!Start(loop, d), S!Start(loop, d) + S!Chunk(loop, d)>>
=============================================================================

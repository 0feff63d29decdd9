--------------------------- MODULE ShardingProofs ---------------------------
(***************************************************************************)
(* For every number of devices, every weighting and every rounding of the  *)
(* shares, a loop that is lowered is cut into shards that tile it.         *)
(*                                                                         *)
(* For all sizes, steps, ranks and limits, what is then sent of an output  *)
(* is the memref or its slab, and the check on outputs promises what the   *)
(* later pass asks of their slabs.                                         *)
(***************************************************************************)
EXTENDS Sharding, Transfers, WellFoundedInduction, TLAPS

Extra(d, n) == IF d < n THEN 1 ELSE 0
Lesser(a, b) == IF a < b THEN a ELSE b

(* Weights are added up before shares are computed; then prefix holds the  *)
(* running sums of the shares.                                             *)
Summing ==
  /\ prefix[0] = 0
  /\ pc = "check" => i = 0
  /\ pc \in {"check", "weights"} => assigned_iters = 0
  /\ pc = "weights" => /\ i > 0 => weight_sum > 0
                       /\ \A d \in 0 .. i - 1 : weights[d] > 0
  /\ pc = "chunks" =>
       /\ weight_sum > 0
       /\ assigned_iters = prefix[i]
       /\ \A d \in 0 .. i - 1 : chunk_sizes[d] = prefix[d + 1] - prefix[d]

(* The checks that were passed.                                            *)
Checked ==
  /\ pc \in {"weights", "chunks", "spread", "lower", "lowered"} => lb <= ub
  /\ pc \in {"spread", "lower", "lowered"} =>
       remainder = ub - lb - prefix[num_devices] /\ remainder \in 0 .. num_devices - 1
  /\ pc = "failed" =>
       \/ ub < lb \/ total_iters > MaxInt
       \/ \E d \in Devices : weights[d] = 0
       \/ lb <= ub /\ ub - lb - prefix[num_devices] \notin 0 .. num_devices - 1

(* The first devices have one iteration more than their share.             *)
Spread ==
  /\ pc = "spread" =>
       /\ i <= remainder
       /\ \A d \in Devices : chunk_sizes[d] = prefix[d + 1] - prefix[d] + Extra(d, i)
  /\ pc \in {"lower", "lowered"} =>
       \A d \in Devices : chunk_sizes[d] = prefix[d + 1] - prefix[d] + Extra(d, remainder)

(* The ranges handed out so far tile [lb, current).                        *)
Walked ==
  pc \in {"lower", "lowered"} =>
    /\ pc = "lowered" => i = num_devices
    /\ current = lb + prefix[i] + Lesser(i, remainder)
    /\ lb <= current
    /\ \A d \in 0 .. i - 1 :
         /\ lb <= outRanges[d][1] /\ outRanges[d][2] <= current
         /\ outRanges[d] = <<lb + prefix[d] + Lesser(d, remainder),
                             lb + prefix[d + 1] + Lesser(d + 1, remainder)>>
    /\ \A x \in lb .. current - 1 :
         \E d \in 0 .. i - 1 : InShard(x, d) /\ \A e \in 0 .. i - 1 : InShard(x, e) => e = d

Inv == TypeOK /\ Summing /\ Checked /\ Spread /\ Walked

LEMMA InitInv == Init => Inv
  BY DevicesAssumption, BoundsAssumption
  DEF Init, Inv, TypeOK, Summing, Checked, Spread, Walked, Devices

LEMMA CheckBoundsInv == Inv /\ CheckBounds => Inv'
  BY DevicesAssumption, BoundsAssumption
  DEF CheckBounds, Inv, TypeOK, Summing, Checked, Spread, Walked, Devices, total_iters

LEMMA AddWeightInv == Inv /\ AddWeight => Inv'
  <1> SUFFICES ASSUME Inv, AddWeight PROVE Inv'
    OBVIOUS
  <1> USE DevicesAssumption, BoundsAssumption
  <1>1. /\ pc = "weights" /\ i \in Devices
        /\ UNCHANGED <<lb, ub, weights, chunk_sizes, assigned_iters, remainder, current,
                       outRanges, prefix>>
    BY DEF AddWeight, Inv, TypeOK, Devices
  <1>2. /\ weights[i] \in Nat /\ weight_sum \in Nat /\ i \in 0 .. num_devices - 1
        /\ num_devices \in Nat
    BY <1>1, WeightingsAssumption DEF Inv, TypeOK, Devices
  <1>3. CASE weights[i] = 0
    <2>1. pc' = "failed" /\ i' = i /\ weight_sum' = weight_sum
      BY <1>3 DEF AddWeight
    <2>2. QED
      BY <1>1, <1>2, <1>3, <2>1 DEF Inv, TypeOK, Summing, Checked, Spread, Walked, total_iters
  <1>4. CASE weights[i] # 0
    <2>1. pc' = pc /\ i' = i + 1 /\ weight_sum' = weight_sum + weights[i]
      BY <1>4 DEF AddWeight
    <2>2. TypeOK'
      <3>1. i' \in 0 .. num_devices /\ weight_sum' \in Nat
        BY <1>2, <2>1
      <3>2. QED
        BY <1>1, <2>1, <3>1 DEF Inv, TypeOK
    <2>3. Summing'
      <3>1. \A d \in 0 .. i : weights[d] > 0
        BY <1>1, <1>2, <1>4 DEF Inv, Summing
      <3>2. QED
        BY <1>1, <1>2, <1>4, <2>1, <3>1 DEF Inv, Summing
    <2>4. (Checked /\ Spread /\ Walked)'
      BY <1>1, <2>1 DEF Inv, Checked, Spread, Walked
    <2>5. QED
      BY <2>2, <2>3, <2>4 DEF Inv
  <1>5. QED
    BY <1>3, <1>4

LEMMA CheckWeightsInv == Inv /\ CheckWeights => Inv'
  <1> SUFFICES ASSUME Inv, CheckWeights PROVE Inv'
    OBVIOUS
  <1> USE DevicesAssumption, BoundsAssumption
  <1>1. /\ pc = "weights" /\ i = num_devices /\ i' = 0 /\ pc' = "chunks" /\ weight_sum > 0
        /\ UNCHANGED <<lb, ub, weights, weight_sum, chunk_sizes, assigned_iters, remainder,
                       current, outRanges, prefix>>
    BY DEF CheckWeights, Inv, TypeOK, Summing
  <1>2. QED
    BY <1>1 DEF Inv, TypeOK, Summing, Checked, Spread, Walked

LEMMA AssignChunkInv == Inv /\ AssignChunk => Inv'
  <1> SUFFICES ASSUME Inv, AssignChunk PROVE Inv'
    OBVIOUS
  <1> USE DevicesAssumption, BoundsAssumption
  <1>1. PICK chunk \in Shares(i) :
          /\ chunk_sizes' = [chunk_sizes EXCEPT ![i] = chunk]
          /\ assigned_iters' = assigned_iters + chunk
          /\ prefix' = [prefix EXCEPT ![i + 1] = assigned_iters + chunk]
    BY DEF AssignChunk
  <1>2. /\ pc = "chunks" /\ i \in Devices /\ i' = i + 1
        /\ UNCHANGED <<lb, ub, weights, weight_sum, pc, remainder, current, outRanges>>
    BY DEF AssignChunk, Inv, TypeOK, Devices
  <1>3. chunk \in Nat
    <2>1. ub - lb \in Nat /\ weights[i] \in Nat /\ weight_sum \in Nat \ {0}
      BY <1>2, WeightingsAssumption DEF Inv, TypeOK, Checked, Summing
    <2> DEFINE exact == (weights[i] * (ub - lb)) \div weight_sum
    <2>2. exact \in Int
      BY <2>1
    <2>3. chunk \in {c \in exact - Slack .. exact + Slack : c >= 0}
      BY DEF Shares, total_iters
    <2> HIDE DEF exact
    <2>4. QED
      BY <2>2, <2>3, WeightingsAssumption
  <1>4. /\ num_devices \in Nat /\ i \in 0 .. num_devices - 1
        /\ i + 1 \in 0 .. num_devices /\ assigned_iters + chunk \in Nat
        /\ prefix \in [0 .. num_devices -> Nat]
        /\ chunk_sizes \in [0 .. num_devices - 1 -> Nat]
    BY <1>2, <1>3 DEF Inv, TypeOK, Devices
  <1>5. TypeOK'
    <2>1. chunk_sizes' \in [Devices -> Nat] /\ prefix' \in [0 .. num_devices -> Nat]
      BY <1>1, <1>3, <1>4 DEF Devices
    <2>2. i' \in 0 .. num_devices /\ assigned_iters' \in Nat
      BY <1>1, <1>2, <1>4
    <2>3. QED
      BY <1>2, <2>1, <2>2 DEF Inv, TypeOK
  <1>6. Summing'
    <2>1. prefix'[0] = 0
      BY <1>1, <1>4 DEF Inv, Summing
    <2>2. assigned_iters' = prefix'[i']
      BY <1>1, <1>2, <1>4
    <2>3. \A d \in 0 .. i' - 1 : chunk_sizes'[d] = prefix'[d + 1] - prefix'[d]
      <3> SUFFICES ASSUME NEW d \in 0 .. i
                   PROVE  chunk_sizes'[d] = prefix'[d + 1] - prefix'[d]
        BY <1>2, <1>4
      <3>1. CASE d = i
        <4>1. assigned_iters = prefix[i]
          BY <1>2 DEF Inv, Summing
        <4>2. QED
          BY <1>1, <1>3, <1>4, <3>1, <4>1
      <3>2. CASE d # i
        <4>1. chunk_sizes[d] = prefix[d + 1] - prefix[d]
          BY <1>2, <1>4, <3>2 DEF Inv, Summing
        <4>2. QED
          BY <1>1, <1>4, <3>2, <4>1
      <3>3. QED
        BY <3>1, <3>2
    <2>4. weight_sum > 0
      BY <1>2 DEF Inv, Summing
    <2>5. QED
      BY <1>2, <2>1, <2>2, <2>3, <2>4 DEF Summing
  <1>7. (Checked /\ Spread /\ Walked)'
    BY <1>2 DEF Inv, Checked, Spread, Walked
  <1>8. QED
    BY <1>5, <1>6, <1>7 DEF Inv

LEMMA CheckRemainderInv == Inv /\ CheckRemainder => Inv'
  <1> SUFFICES ASSUME Inv, CheckRemainder PROVE Inv'
    OBVIOUS
  <1> USE DevicesAssumption, BoundsAssumption
  <1>1. TypeOK'
    BY DEF CheckRemainder, Inv, TypeOK, total_iters
  <1>2. /\ pc = "chunks" /\ i = num_devices /\ i' = 0
        /\ remainder' = ub - lb - prefix[num_devices]
        /\ \/ pc' = "failed" /\ (remainder' < 0 \/ remainder' >= num_devices)
           \/ pc' = "spread" /\ remainder' >= 0 /\ remainder' < num_devices
        /\ UNCHANGED <<lb, ub, weights, weight_sum, chunk_sizes, assigned_iters, current, outRanges, prefix>>
    BY DEF CheckRemainder, Inv, Summing, total_iters
  <1>3. remainder' \in Int /\ num_devices \in Nat
    BY <1>1 DEF TypeOK
  <1>4. Summing' /\ Checked' /\ Walked'
    <2>1. lb <= ub
      BY <1>2 DEF Inv, Checked
    <2>2. remainder' \in 0 .. num_devices - 1 <=> remainder' >= 0 /\ remainder' < num_devices
      BY <1>3
    <2>3. Checked'
      BY <1>2, <2>1, <2>2 DEF Checked
    <2>4. Summing' /\ Walked'
      BY <1>2 DEF Inv, Summing, Walked
    <2>5. QED
      BY <2>3, <2>4
  <1>5. Spread'
    <2>1. \A d \in Devices : chunk_sizes[d] = prefix[d + 1] - prefix[d]
      BY <1>2 DEF Inv, Summing, Devices
    <2>2. \A d \in Devices : chunk_sizes[d] \in Nat /\ Extra(d, 0) = 0
      BY DEF Inv, TypeOK, Extra, Devices
    <2>3. \A d \in Devices : chunk_sizes[d] = prefix[d + 1] - prefix[d] + Extra(d, 0)
      BY <2>1, <2>2
    <2>4. QED
      BY <1>2, <1>3, <2>3 DEF Spread
  <1>6. QED
    BY <1>1, <1>4, <1>5 DEF Inv

LEMMA SpreadRemainderInv == Inv /\ SpreadRemainder => Inv'
  <1> SUFFICES ASSUME Inv, SpreadRemainder PROVE Inv'
    OBVIOUS
  <1> USE DevicesAssumption, BoundsAssumption
  <1>1. /\ pc = "spread" /\ pc' = pc /\ i' = i + 1 /\ i < remainder
        /\ chunk_sizes' = [chunk_sizes EXCEPT ![i % num_devices] = @ + 1]
        /\ UNCHANGED <<lb, ub, weights, weight_sum, assigned_iters, remainder, current, outRanges, prefix>>
    BY DEF SpreadRemainder
  <1>2. i \in Nat /\ remainder \in Nat /\ num_devices \in Nat /\ remainder < num_devices
    BY <1>1 DEF Inv, TypeOK, Checked
  <1>3. i \in Devices /\ i % num_devices = i
    BY <1>1, <1>2 DEF Devices
  <1>4. /\ chunk_sizes \in [Devices -> Nat]
        /\ chunk_sizes' = [chunk_sizes EXCEPT ![i] = @ + 1]
    BY <1>1, <1>3 DEF Inv, TypeOK
  <1>5. TypeOK'
    <2>1. chunk_sizes' \in [Devices -> Nat] /\ i' \in 0 .. num_devices
      BY <1>1, <1>2, <1>3, <1>4
    <2>2. QED
      BY <1>1, <2>1 DEF Inv, TypeOK
  <1>6. Summing' /\ Checked' /\ Walked'
    BY <1>1 DEF Inv, Summing, Checked, Walked
  <1>7. Spread'
    <2>1. \A d \in Devices : chunk_sizes[d] = prefix[d + 1] - prefix[d] + Extra(d, i)
      BY <1>1 DEF Inv, Spread
    <2>2. \A d \in Devices : chunk_sizes'[d] = prefix[d + 1] - prefix[d] + Extra(d, i + 1)
      <3> SUFFICES ASSUME NEW d \in Devices
                   PROVE  chunk_sizes'[d] = prefix[d + 1] - prefix[d] + Extra(d, i + 1)
        OBVIOUS
      <3>1. /\ d \in Int /\ chunk_sizes[d] \in Nat
            /\ prefix[d + 1] \in Nat /\ prefix[d] \in Nat
        BY DEF Inv, TypeOK, Devices
      <3>2. chunk_sizes'[d] = IF d = i THEN chunk_sizes[d] + 1 ELSE chunk_sizes[d]
        BY <1>4
      <3>3. QED
        BY <1>2, <2>1, <3>1, <3>2 DEF Extra
    <2>3. QED
      BY <1>1, <1>2, <2>2 DEF Spread
  <1>8. QED
    BY <1>5, <1>6, <1>7 DEF Inv

LEMMA StartLoweringInv == Inv /\ StartLowering => Inv'
  <1> SUFFICES ASSUME Inv, StartLowering PROVE Inv'
    OBVIOUS
  <1> USE DevicesAssumption, BoundsAssumption
  <1>0. i = remainder
    BY DEF StartLowering, Inv, TypeOK, Checked, Spread
  <1>1. TypeOK'
    BY DEF StartLowering, Inv, TypeOK
  <1>2. Summing' /\ Checked' /\ Spread'
    BY <1>0 DEF StartLowering, Inv, Summing, Checked, Spread
  <1>3. Walked'
    BY DEF StartLowering, Inv, TypeOK, Summing, Checked, Walked, Lesser
  <1>4. QED
    BY <1>1, <1>2, <1>3 DEF Inv

LEMMA LowerShardInv == Inv /\ LowerShard => Inv'
  <1> SUFFICES ASSUME Inv, LowerShard PROVE Inv'
    OBVIOUS
  <1> USE DevicesAssumption, BoundsAssumption
  <1>1. /\ pc = "lower" /\ pc' = pc /\ i \in Devices /\ i' = i + 1
        /\ UNCHANGED <<lb, ub, weights, weight_sum, chunk_sizes, assigned_iters, remainder, prefix>>
        /\ outRanges' = [outRanges EXCEPT ![i] = <<current, current + chunk_sizes[i]>>]
        /\ current' = current + chunk_sizes[i]
    BY DEF LowerShard, Inv, TypeOK, Devices
  <1>2. /\ lb \in Int /\ current \in Int /\ remainder \in Int
        /\ prefix[i] \in Int /\ prefix[i + 1] \in Int
        /\ chunk_sizes[i] \in Nat
    BY <1>1 DEF Inv, TypeOK, Devices
  <1>a. /\ num_devices \in Nat /\ i \in 0 .. num_devices - 1
        /\ outRanges \in [Devices -> Int \X Int]
    BY <1>1 DEF Inv, TypeOK, Devices
  <1>b. \A d \in 0 .. i : d \in Devices /\ (d # i => d \in 0 .. i - 1)
    BY <1>a DEF Devices
  <1>c. \A d \in 0 .. i - 1 : d \in 0 .. i /\ d # i
    BY <1>a
  <1>d. \A d \in Devices : outRanges[d][1] \in Int /\ outRanges[d][2] \in Int
    BY <1>a
  <1>e. i \in 0 .. i
    BY <1>a
  <1>3. TypeOK'
    <2>1. outRanges' \in [Devices -> Int \X Int]
      BY <1>1, <1>2, <1>a
    <2>2. i' \in 0 .. num_devices /\ current' \in Int
      BY <1>1, <1>2, <1>a
    <2>3. QED
      BY <1>1, <2>1, <2>2 DEF Inv, TypeOK
  <1>4. Summing' /\ Checked' /\ Spread'
    BY <1>1 DEF Inv, Summing, Checked, Spread
  <1>5. Walked'
    <2>1. current' = lb + prefix[i + 1] + Lesser(i + 1, remainder)
      BY <1>1, <1>2 DEF Inv, Spread, Walked, Extra, Lesser, Devices
    <2>2. lb <= current /\ lb <= current'
      BY <1>1, <1>2 DEF Inv, Walked
    <2>3. /\ outRanges'[i] = <<current, current'>>
          /\ \A d \in 0 .. i - 1 : outRanges'[d] = outRanges[d]
      BY <1>1 DEF Inv, TypeOK, Devices
    <2>4. \A d \in 0 .. i : lb <= outRanges'[d][1] /\ outRanges'[d][2] <= current'
      <3> SUFFICES ASSUME NEW d \in 0 .. i
                   PROVE  lb <= outRanges'[d][1] /\ outRanges'[d][2] <= current'
        OBVIOUS
      <3>1. CASE d = i
        BY <3>1, <2>2, <2>3, <1>1, <1>2
      <3>2. CASE d # i
        <4>1. d \in 0 .. i - 1 /\ outRanges[d][1] \in Int /\ outRanges[d][2] \in Int
          BY <3>2, <1>b, <1>d
        <4>2. lb <= outRanges[d][1] /\ outRanges[d][2] <= current
          BY <4>1, <1>1 DEF Inv, Walked
        <4>3. QED
          BY <4>1, <4>2, <2>3, <1>1, <1>2
      <3>3. QED
        BY <3>1, <3>2
    <2>5. \A x \in lb .. current' - 1 :
            \E d \in 0 .. i : Within(x, outRanges'[d]) /\ \A e \in 0 .. i : Within(x, outRanges'[e]) => e = d
      <3> SUFFICES ASSUME NEW x \in lb .. current' - 1
                   PROVE  \E d \in 0 .. i :
                            Within(x, outRanges'[d]) /\ \A e \in 0 .. i : Within(x, outRanges'[e]) => e = d
        OBVIOUS
      <3>1. x \in Int
        BY <1>1, <1>2
      <3>2. Within(x, outRanges'[i]) <=> (current <= x /\ x < current')
        BY <2>3 DEF Within, InShard
      <3>3. \A e \in 0 .. i - 1 : Within(x, outRanges'[e]) <=> InShard(x, e)
        BY <2>3, <1>c, <1>b DEF Within, InShard
      <3>4. CASE current <= x
        <4>1. \A e \in 0 .. i - 1 : ~InShard(x, e)
          <5> SUFFICES ASSUME NEW e \in 0 .. i - 1 PROVE ~InShard(x, e)
            OBVIOUS
          <5>1. outRanges[e][2] \in Int /\ outRanges[e][2] <= current
            BY <1>1, <1>b, <1>c, <1>d DEF Inv, Walked
          <5>2. QED
            BY <5>1, <3>4, <3>1, <1>2 DEF Within, InShard
        <4>2. Within(x, outRanges'[i])
          BY <3>2, <3>4, <1>1, <1>2
        <4>3. \A e \in 0 .. i : Within(x, outRanges'[e]) => e = i
          BY <4>1, <3>3, <1>b
        <4>4. QED
          BY <4>2, <4>3, <1>e
      <3>5. CASE x < current
        <4>1. PICK d \in 0 .. i - 1 :
                InShard(x, d) /\ \A e \in 0 .. i - 1 : InShard(x, e) => e = d
          BY <3>5, <3>1, <1>1, <1>2 DEF Inv, Walked
        <4>2. ~Within(x, outRanges'[i])
          BY <3>2, <3>5, <3>1, <1>2
        <4>3. \A e \in 0 .. i : Within(x, outRanges'[e]) => e = d
          BY <4>1, <4>2, <3>3, <1>b
        <4>4. QED
          BY <4>1, <4>3, <3>3, <1>c
      <3>6. QED
        BY <3>1, <3>4, <3>5, <1>2
    <2>6. \A d \in 0 .. i :
            outRanges'[d] = <<lb + prefix[d] + Lesser(d, remainder),
                              lb + prefix[d + 1] + Lesser(d + 1, remainder)>>
      <3> SUFFICES ASSUME NEW d \in 0 .. i
                   PROVE  outRanges'[d] = <<lb + prefix[d] + Lesser(d, remainder),
                                            lb + prefix[d + 1] + Lesser(d + 1, remainder)>>
        OBVIOUS
      <3>1. CASE d = i
        BY <1>1, <2>1, <2>3, <3>1 DEF Inv, Walked
      <3>2. CASE d # i
        BY <1>1, <1>b, <2>3, <3>2 DEF Inv, Walked
      <3>3. QED
        BY <3>1, <3>2
    <2>7. QED
      BY <1>1, <1>a, <2>1, <2>2, <2>4, <2>5, <2>6 DEF Walked, InShard
  <1>6. QED
    BY <1>3, <1>4, <1>5 DEF Inv

LEMMA EraseReplicateInv == Inv /\ EraseReplicate => Inv'
  BY DEF EraseReplicate, Inv, TypeOK, Summing, Checked, Spread, Walked, InShard, total_iters

LEMMA StutterInv == Inv /\ UNCHANGED vars => Inv'
  BY DEF vars, Inv, TypeOK, Summing, Checked, Spread, Walked, InShard, total_iters

LEMMA StepInv == Inv /\ [Next]_vars => Inv'
  BY CheckBoundsInv, AddWeightInv, CheckWeightsInv, AssignChunkInv, CheckRemainderInv, SpreadRemainderInv,
     StartLoweringInv, LowerShardInv, EraseReplicateInv, StutterInv
  DEF Next, Finished

LEMMA InvHolds == Spec => []Inv
  BY InitInv, StepInv, PTL DEF Spec

(* The loop index, the chunk sizes and the ranges stay within their types  *)
(* through the whole lowering (lowerReplicateOp.h:168-243, 539-545).       *)
THEOREM TypeCorrect == Spec => []TypeOK
  <1>1. Inv => TypeOK
    BY DEF Inv
  <1>2. QED
    BY <1>1, InvHolds, PTL

(* Whatever the costs of the devices and the rounding of the doubles, a    *)
(* loop that gets past the checks has every iteration on exactly one       *)
(* device (lowerReplicateOp.h:221-243, 539-545).                           *)
THEOREM ShardsTileTheLoop == Spec => []ShardsTile
  <1>1. Inv => ShardsTile
    <2> SUFFICES ASSUME Inv, pc = "lowered" PROVE ShardsTile
      BY DEF ShardsTile
    <2>1. i = num_devices /\ current = ub
      BY DevicesAssumption, BoundsAssumption
      DEF Inv, TypeOK, Checked, Walked, Lesser
    <2>2. 0 .. i - 1 = Devices
      BY <2>1 DEF Devices
    <2>3. QED
      BY <2>1, <2>2 DEF Inv, Walked, ShardsTile
  <1>2. QED
    BY <1>1, InvHolds, PTL

-----------------------------------------------------------------------------
(* The recursive definition of the running sums has a solution, and one    *)
(* only: every set of counterexamples would have a least member.           *)
LEMMA LeastMember ==
  ASSUME NEW C \in SUBSET Nat, C # {}
  PROVE  \E x \in C : \A y \in C : x <= y
  <1>1. PICK x \in C : \A y \in C : ~ (<<y, x>> \in OpToRel(<, Nat))
    BY NatLessThanWellFounded, WFMin
  <1>2. OpToRel(<, Nat) = {p \in Nat \X Nat : p[1] < p[2]}
    BY DEF OpToRel
  <1>3. ASSUME NEW y \in C PROVE x <= y
    <2>1. ~ (<<y, x>> \in {p \in Nat \X Nat : p[1] < p[2]})
      BY <1>1, <1>2, Zenon
    <2>2. QED
      BY <2>1
  <1>4. QED
    BY <1>3

Summed(sum, f, m) == sum = [n \in 0 .. m |-> IF n = 0 THEN 0 ELSE sum[n - 1] + f[n - 1]]

LEMMA SumsExist ==
  ASSUME NEW f, NEW m \in Nat
  PROVE  \E sum : Summed(sum, f, m)
  <1> DEFINE bad == {n \in Nat : ~ \E sum : Summed(sum, f, n)}
  <1> SUFFICES ASSUME bad # {} PROVE FALSE
    OBVIOUS
  <1>1. PICK k \in bad : \A y \in bad : k <= y
    <2>1. bad \in SUBSET Nat
      OBVIOUS
    <2> HIDE DEF bad
    <2>2. QED
      BY <2>1, LeastMember
  <1>2. k # 0
    <2>1. Summed([n \in 0 .. 0 |-> 0], f, 0)
      BY DEF Summed
    <2>2. QED
      BY <2>1
  <1>3. k - 1 \in Nat /\ k - 1 \notin bad
    BY <1>1, <1>2
  <1>4. PICK sum : Summed(sum, f, k - 1)
    BY <1>3
  <1> DEFINE more == [n \in 0 .. k |-> IF n = k THEN sum[k - 1] + f[k - 1] ELSE sum[n]]
  <1>5. ASSUME NEW n \in 0 .. k
        PROVE  more[n] = IF n = 0 THEN 0 ELSE more[n - 1] + f[n - 1]
    <2>1. n # 0 => n - 1 \in 0 .. k /\ n - 1 # k
      BY <1>3
    <2>2. n # 0 => more[n - 1] = sum[n - 1]
      BY <2>1
    <2>3. CASE n = k
      BY <1>2, <2>2, <2>3
    <2>4. CASE n # k
      <3>1. n \in 0 .. k - 1
        BY <1>3, <2>4
      <3>2. sum[n] = IF n = 0 THEN 0 ELSE sum[n - 1] + f[n - 1]
        BY <1>4, <3>1 DEF Summed
      <3>3. QED
        BY <2>2, <2>4, <3>2
    <2>5. QED
      BY <2>3, <2>4
  <1>6. Summed(more, f, k)
    <2>1. more = [n \in 0 .. k |-> more[n]]
      OBVIOUS
    <2> HIDE DEF more
    <2>2. QED
      BY <1>5, <2>1 DEF Summed
  <1>7. QED
    BY <1>1, <1>6

LEMMA SumsStep ==
  ASSUME NEW f
  PROVE  /\ S!RunningSums(f)[0] = 0
         /\ \A d \in Devices : S!RunningSums(f)[d + 1] = S!RunningSums(f)[d] + f[d]
  <1> DEFINE sum == S!RunningSums(f)
  <1>1. num_devices \in Nat
    BY DevicesAssumption
  <1>2. \E s : Summed(s, f, num_devices)
    BY <1>1, SumsExist
  <1>3. sum = CHOOSE s : Summed(s, f, num_devices)
    BY DEF S!RunningSums, Summed
  <1> HIDE DEF sum
  <1>4. sum = [n \in 0 .. num_devices |-> IF n = 0 THEN 0 ELSE sum[n - 1] + f[n - 1]]
    BY <1>2, <1>3 DEF Summed
  <1>5. sum[0] = 0
    BY <1>1, <1>4
  <1>6. ASSUME NEW d \in Devices PROVE sum[d + 1] = sum[d] + f[d]
    <2>1. d + 1 \in 0 .. num_devices /\ d + 1 # 0 /\ (d + 1) - 1 = d
      BY <1>1 DEF Devices
    <2>2. QED
      BY <1>4, <2>1
  <1>7. QED
    BY <1>5, <1>6 DEF sum

(* Whatever grows like the running sums equals them.                       *)
LEMMA SumsAreUnique ==
  ASSUME NEW f, NEW p, p[0] = 0, \A d \in Devices : p[d + 1] = p[d] + f[d]
  PROVE  \A n \in 0 .. num_devices : S!RunningSums(f)[n] = p[n]
  <1> DEFINE sum == S!RunningSums(f)
             bad == {n \in 0 .. num_devices : sum[n] # p[n]}
  <1>1. sum[0] = 0 /\ \A d \in Devices : sum[d + 1] = sum[d] + f[d]
    BY SumsStep
  <1> HIDE DEF sum
  <1> SUFFICES ASSUME bad # {} PROVE FALSE
    BY DEF sum
  <1>2. num_devices \in Nat
    BY DevicesAssumption
  <1>3. PICK k \in bad : \A y \in bad : k <= y
    <2>1. bad \in SUBSET Nat
      BY <1>2
    <2> HIDE DEF bad
    <2>2. QED
      BY <2>1, LeastMember
  <1>4. k - 1 \in Devices /\ k = (k - 1) + 1
    BY <1>1, <1>2, <1>3 DEF Devices
  <1>5. sum[k - 1] = p[k - 1]
    <2>1. k - 1 \in 0 .. num_devices /\ ~ (k <= k - 1)
      BY <1>2, <1>4 DEF Devices
    <2>2. QED
      BY <1>3, <2>1
  <1>6. sum[k] = p[k]
    BY <1>1, <1>4, <1>5
  <1>7. QED
    BY <1>3, <1>6

(* Positive weights add up to a positive sum.                              *)
LEMMA WeightsAddUp ==
  ASSUME NEW w \in [Devices -> Nat \ {0}]
  PROVE  \A n \in 0 .. num_devices : /\ S!RunningSums(w)[n] \in Nat
                                     /\ n > 0 => S!RunningSums(w)[n] > 0
  <1> DEFINE sum == S!RunningSums(w)
             good(n) == sum[n] \in Nat /\ (n > 0 => sum[n] > 0)
             bad == {n \in 0 .. num_devices : ~ good(n)}
  <1>1. sum[0] = 0 /\ \A d \in Devices : sum[d + 1] = sum[d] + w[d]
    BY SumsStep
  <1> HIDE DEF sum
  <1> SUFFICES ASSUME bad # {} PROVE FALSE
    BY DEF sum
  <1>2. num_devices \in Nat
    BY DevicesAssumption
  <1>3. PICK k \in bad : \A y \in bad : k <= y
    <2>1. bad \in SUBSET Nat
      BY <1>2
    <2> HIDE DEF bad
    <2>2. QED
      BY <2>1, LeastMember
  <1>4. k - 1 \in Devices /\ k = (k - 1) + 1
    BY <1>1, <1>2, <1>3 DEF Devices
  <1>5. sum[k - 1] \in Nat
    <2>1. k - 1 \in 0 .. num_devices /\ ~ (k <= k - 1)
      BY <1>2, <1>4 DEF Devices
    <2>2. QED
      BY <1>3, <2>1
  <1>6. sum[k] = sum[k - 1] + w[k - 1] /\ w[k - 1] \in Nat \ {0}
    BY <1>1, <1>4
  <1>7. good(k)
    BY <1>5, <1>6
  <1>8. QED
    BY <1>3, <1>7

-----------------------------------------------------------------------------
(* A truncated share falls short of the exact one by less than an          *)
(* iteration; in units of 1/W of an iteration, by W - 1 at most.           *)
LEMMA ShareIsTruncated ==
  ASSUME NEW a \in Nat, NEW W \in Nat \ {0}
  PROVE  /\ a \div W \in Nat
         /\ W * (a \div W) <= a /\ a <= W * (a \div W) + (W - 1)
  OBVIOUS

(* The first k shares together fall short by k * (W - 1) at most.          *)
LEMMA SharesFallShort ==
  ASSUME NEW W \in Nat \ {0}, NEW total \in Nat, NEW w \in [Devices -> Nat],
         NEW T, \A n \in 0 .. num_devices : T[n] \in Nat,
         NEW p, \A n \in 0 .. num_devices : p[n] \in Nat,
         T[0] = 0, \A d \in Devices : T[d + 1] = T[d] + w[d],
         p[0] = 0, \A d \in Devices : p[d + 1] = p[d] + ((w[d] * total) \div W)
  PROVE  \A n \in 0 .. num_devices :
           /\ W * p[n] <= total * T[n]
           /\ total * T[n] <= W * p[n] + n * (W - 1)
  <1> DEFINE good(n) == /\ W * p[n] <= total * T[n]
                        /\ total * T[n] <= W * p[n] + n * (W - 1)
             bad == {n \in 0 .. num_devices : ~ good(n)}
  <1> SUFFICES ASSUME bad # {} PROVE FALSE
    OBVIOUS
  <1>1. num_devices \in Nat
    BY DevicesAssumption
  <1>2. PICK k \in bad : \A y \in bad : k <= y
    <2>1. bad \in SUBSET Nat
      BY <1>1
    <2> HIDE DEF bad
    <2>2. QED
      BY <2>1, LeastMember
  <1>3. k \in 0 .. num_devices /\ k # 0
    <2>1. good(0)
      BY <1>1
    <2>2. QED
      BY <1>2, <2>1
  <1> DEFINE d == k - 1
             share == (w[d] * total) \div W
  <1>4. d \in Devices /\ k = d + 1 /\ d \in 0 .. num_devices /\ d \in Nat /\ ~ (k <= d)
    BY <1>1, <1>2, <1>3 DEF Devices
  <1>5. good(d)
    BY <1>2, <1>4
  <1>6. /\ share \in Nat /\ W * share <= w[d] * total
        /\ w[d] * total <= W * share + (W - 1)
    <2>1. w[d] * total \in Nat
      BY <1>4
    <2>2. QED
      BY <2>1, ShareIsTruncated
  <1>7. T[k] = T[d] + w[d] /\ p[k] = p[d] + share
    BY <1>4
  <1>8. T[d] \in Nat /\ p[d] \in Nat /\ w[d] \in Nat
    BY <1>4
  <1> HIDE DEF d, share
  <1>9. /\ W * p[k] = W * p[d] + W * share
        /\ total * T[k] = total * T[d] + w[d] * total
        /\ k * (W - 1) = d * (W - 1) + (W - 1)
    BY <1>4, <1>6, <1>7, <1>8
  <1>10. /\ W * p[d] \in Nat /\ W * share \in Nat /\ total * T[d] \in Nat
         /\ w[d] * total \in Nat /\ d * (W - 1) \in Nat
    BY <1>4, <1>6, <1>8
  <1>11. good(k)
    BY <1>5, <1>6, <1>9, <1>10
  <1>12. QED
    BY <1>2, <1>11

(* ... so less than num_devices iterations are left over.                  *)
LEMMA RemainderIsSmall ==
  ASSUME Inv, lb <= ub, \A d \in Devices : weights[d] # 0, SharesExact
  PROVE  ub - lb - prefix[num_devices] \in 0 .. num_devices - 1
  <1> DEFINE T == S!RunningSums(weights)
             W == S!WeightSum
             total == ub - lb
  <1>1. /\ total \in Nat /\ num_devices \in Nat \ {0} /\ weights \in [Devices -> Nat \ {0}]
        /\ prefix \in [0 .. num_devices -> Nat] /\ prefix[0] = 0
    BY DevicesAssumption, BoundsAssumption, WeightingsAssumption DEF Inv, TypeOK, Summing
  <1>2. /\ \A n \in 0 .. num_devices : T[n] \in Nat
        /\ T[num_devices] > 0
    BY <1>1, WeightsAddUp
  <1>3. T[0] = 0 /\ \A d \in Devices : T[d + 1] = T[d] + weights[d]
    BY SumsStep
  <1>4. W = T[num_devices] /\ W \in Nat \ {0}
    BY <1>1, <1>2 DEF S!WeightSum
  <1>5. \A d \in Devices : prefix[d + 1] = prefix[d] + ((weights[d] * total) \div W)
    <2> SUFFICES ASSUME NEW d \in Devices
                 PROVE  prefix[d + 1] = prefix[d] + ((weights[d] * total) \div W)
      OBVIOUS
    <2>1. prefix[d + 1] - prefix[d] = (weights[d] * total) \div W
      BY DEF SharesExact, S!BaseChunk, loop
    <2>2. prefix[d + 1] \in Nat /\ prefix[d] \in Nat
      BY <1>1 DEF Devices
    <2> HIDE DEF W, total
    <2>3. QED
      BY <2>1, <2>2
  <1> HIDE DEF T, W, total
  <1>6. \A n \in 0 .. num_devices :
          /\ W * prefix[n] <= total * T[n]
          /\ total * T[n] <= W * prefix[n] + n * (W - 1)
    BY <1>1, <1>2, <1>3, <1>4, <1>5, SharesFallShort
  <1> DEFINE p == prefix[num_devices]
  <1>7. p \in Nat /\ W * p <= total * W /\ total * W <= W * p + num_devices * (W - 1)
    BY <1>1, <1>4, <1>6
  <1> HIDE DEF p
  <1>8. p <= total
    BY <1>1, <1>4, <1>7
  <1>9. total - p < num_devices
    <2> DEFINE left == total - p
    <2>1. left \in Nat /\ total = p + left
      BY <1>1, <1>7, <1>8 DEF total
    <2>2. W * left <= num_devices * (W - 1)
      BY <1>1, <1>4, <1>7, <2>1
    <2>3. num_devices * (W - 1) < num_devices * W
      BY <1>1, <1>4
    <2> HIDE DEF left
    <2>4. ASSUME num_devices <= left PROVE num_devices * W <= W * left
      BY <1>1, <1>4, <2>1, <2>4
    <2>5. /\ W * left \in Nat /\ num_devices * W \in Nat /\ num_devices * (W - 1) \in Nat
      BY <1>1, <1>4, <2>1
    <2>6. left < num_devices
      BY <1>1, <2>1, <2>2, <2>3, <2>4, <2>5
    <2>7. QED
      BY <2>6 DEF left
  <1>10. QED
    BY <1>1, <1>7, <1>8, <1>9 DEF p, total

(* A loop is given up only for its bounds, for a cost that is unusable, or *)
(* because the doubles were off (lowerReplicateOp.h:176-190, 204-219,      *)
(* 233-239).                                                               *)
THEOREM ExactSharesAreAccepted == Spec => []ExactSharesAccepted
  <1>1. Inv => ExactSharesAccepted
    BY RemainderIsSmall DEF Inv, Checked, ExactSharesAccepted
  <1>2. QED
    BY <1>1, InvHolds, PTL

(* The walk over the chunk sizes arrives at the ranges the dependency      *)
(* graph works with in closed form (lowerReplicateOp.h:221-243, 539-545).  *)
THEOREM WalkMatchesClosedForm == Spec => []MatchesClosedForm
  <1>1. ASSUME Inv, pc = "lowered", SharesExact, NEW e \in Devices
        PROVE  outRanges[e] = <<S!Start(loop, e), S!Start(loop, e) + S!Chunk(loop, e)>>
    <2> DEFINE b == [d \in Devices |-> S!BaseChunk(loop, d)]
               c == [d \in Devices |-> S!Chunk(loop, d)]
               q == [n \in 0 .. num_devices |-> prefix[n] + Lesser(n, remainder)]
    <2>1. /\ num_devices \in Nat \ {0} /\ lb \in Int /\ ub \in Int /\ i = num_devices
          /\ prefix \in [0 .. num_devices -> Nat] /\ prefix[0] = 0
          /\ remainder \in Nat /\ remainder = ub - lb - prefix[num_devices]
      <3>1. /\ num_devices \in Nat \ {0} /\ lb \in Int /\ ub \in Int
            /\ prefix \in [0 .. num_devices -> Nat] /\ prefix[0] = 0
        BY <1>1, DevicesAssumption, BoundsAssumption DEF Inv, TypeOK, Summing
      <3>2. i = num_devices
        BY <1>1 DEF Inv, Walked
      <3>3. remainder = ub - lb - prefix[num_devices] /\ remainder \in 0 .. num_devices - 1
        BY <1>1 DEF Inv, Checked
      <3>4. QED
        BY <3>1, <3>2, <3>3
    <2>2. \A d \in Devices :
            /\ d \in Nat /\ d \in 0 .. num_devices /\ d + 1 \in 0 .. num_devices
            /\ prefix[d] \in Nat /\ prefix[d + 1] \in Nat
      BY <2>1 DEF Devices
    <2>3. S!Nodes = Devices
      BY DEF S!Nodes, Devices
    <2>4. \A d \in Devices : prefix[d + 1] - prefix[d] = b[d]
      BY <1>1 DEF SharesExact
    <2>5. ASSUME NEW d \in Devices PROVE prefix[d + 1] = prefix[d] + b[d]
      <3>1. prefix[d + 1] - prefix[d] = b[d]
        BY <2>4
      <3> HIDE DEF b
      <3>2. QED
        BY <2>2, <3>1
    <2>6. \A n \in 0 .. num_devices : S!RunningSums(b)[n] = prefix[n]
      <3> HIDE DEF b
      <3>1. QED
        BY <2>1, <2>5, SumsAreUnique
    <2>7. S!Remainder(loop) = remainder
      <3>1. S!Remainder(loop) = (ub - lb) - S!RunningSums(b)[num_devices]
        BY <2>3 DEF S!Remainder, loop
      <3>2. num_devices \in 0 .. num_devices
        BY <2>1
      <3>3. QED
        BY <2>1, <2>6, <3>1, <3>2
    <2>8. \A d \in Devices : c[d] = b[d] + Extra(d, remainder)
      BY <2>7 DEF S!Chunk, Extra
    <2>9. ASSUME NEW d \in Devices PROVE q[d + 1] = q[d] + c[d]
      <3>1. /\ q[d] = prefix[d] + Lesser(d, remainder)
            /\ q[d + 1] = prefix[d + 1] + Lesser(d + 1, remainder)
        BY <2>2
      <3>2. prefix[d + 1] = prefix[d] + b[d] /\ c[d] = b[d] + Extra(d, remainder)
        BY <2>5, <2>8
      <3>3. b[d] \in Int
        BY <2>2, <2>4
      <3>4. Lesser(d + 1, remainder) = Lesser(d, remainder) + Extra(d, remainder)
        BY <2>1, <2>2 DEF Lesser, Extra
      <3>5. Lesser(d, remainder) \in Int /\ Extra(d, remainder) \in Int
        BY <2>1, <2>2 DEF Lesser, Extra
      <3> HIDE DEF b, c, q
      <3>6. QED
        BY <2>2, <3>1, <3>2, <3>3, <3>4, <3>5
    <2>10. q[0] = 0
      BY <2>1 DEF Lesser
    <2>11. \A n \in 0 .. num_devices : S!RunningSums(c)[n] = q[n]
      <3> HIDE DEF c, q
      <3>1. QED
        BY <2>9, <2>10, SumsAreUnique
    <2>12. S!Start(loop, e) = lb + S!RunningSums(c)[e]
      BY <2>3 DEF S!Start, loop
    <2>13. S!Start(loop, e) = lb + q[e] /\ S!Chunk(loop, e) = c[e]
      BY <2>2, <2>11, <2>12
    <2>14. outRanges[e] = <<lb + prefix[e] + Lesser(e, remainder),
                            lb + prefix[e + 1] + Lesser(e + 1, remainder)>>
      BY <1>1, <2>1 DEF Inv, Walked, Devices
    <2>15. /\ lb + prefix[e] + Lesser(e, remainder) = lb + q[e]
           /\ lb + prefix[e + 1] + Lesser(e + 1, remainder) = lb + q[e + 1]
      <3>1. Lesser(e, remainder) \in Int /\ Lesser(e + 1, remainder) \in Int
        BY <2>1, <2>2 DEF Lesser
      <3>2. QED
        BY <2>1, <2>2, <3>1
    <2>16. lb + q[e + 1] = (lb + q[e]) + c[e]
      <3>1. q[e] \in Int /\ q[e + 1] \in Int
        BY <2>1, <2>2 DEF Lesser
      <3>2. q[e + 1] = q[e] + c[e]
        BY <2>9
      <3>3. c[e] \in Int
        <4>1. b[e] \in Int
          BY <2>2, <2>4
        <4>2. c[e] = b[e] + Extra(e, remainder)
          BY <2>8
        <4> HIDE DEF b, c
        <4>3. QED
          BY <4>1, <4>2 DEF Extra
      <3> HIDE DEF b, c, q
      <3>4. QED
        BY <2>1, <3>1, <3>2, <3>3
    <2> HIDE DEF b, c, q
    <2>17. QED
      BY <2>13, <2>14, <2>15, <2>16
  <1>2. Inv => MatchesClosedForm
    BY <1>1 DEF MatchesClosedForm
  <1>3. QED
    BY <1>2, InvHolds, PTL

-----------------------------------------------------------------------------
(* Were the shares computed without rounding, they would be the exact ones *)
(* of the closed form: the weights have been added up by then.             *)
RunningSumsOf(T, f) == T[0] = 0 /\ \A d \in Devices : T[d + 1] = T[d] + f[d]

Counted ==
  \A T \in [0 .. num_devices -> Nat] : RunningSumsOf(T, weights) =>
    /\ pc = "check" => weight_sum = 0
    /\ pc = "weights" => weight_sum = T[i]
    /\ pc \in {"chunks", "spread", "lower", "lowered"} => weight_sum = T[num_devices]

TruncatedBelow(n) ==
  \A d \in 0 .. n - 1 : prefix[d + 1] - prefix[d] = (weights[d] * (ub - lb)) \div weight_sum

TruncatesShares ==
  /\ pc = "chunks" => TruncatedBelow(i)
  /\ pc = "failed" =>
       \/ ub < lb \/ total_iters > MaxInt
       \/ \E d \in Devices : weights[d] = 0
       \/ /\ TruncatedBelow(num_devices)
          /\ \A T \in [0 .. num_devices -> Nat] :
               RunningSumsOf(T, weights) => weight_sum = T[num_devices]

LEMMA CountedStep == Inv /\ Counted /\ [Next]_vars => Counted'
  <1> SUFFICES ASSUME Inv, Counted, [Next]_vars,
                      NEW T \in [0 .. num_devices -> Nat], RunningSumsOf(T, weights')
               PROVE  /\ pc' = "check" => weight_sum' = 0
                      /\ pc' = "weights" => weight_sum' = T[i']
                      /\ pc' \in {"chunks", "spread", "lower", "lowered"}
                           => weight_sum' = T[num_devices]
    BY DEF Counted, RunningSumsOf
  <1>1. weights' = weights
    BY DEF Next, Finished, vars, CheckBounds, AddWeight, CheckWeights, AssignChunk, CheckRemainder,
           SpreadRemainder, StartLowering, LowerShard, EraseReplicate
  <1>2. RunningSumsOf(T, weights)
    BY <1>1
  <1>3. /\ pc = "check" => weight_sum = 0
        /\ pc = "weights" => weight_sum = T[i]
        /\ pc \in {"chunks", "spread", "lower", "lowered"} => weight_sum = T[num_devices]
    BY <1>2 DEF Counted
  <1>4. CASE AddWeight
    <2>1. i \in Devices
      BY <1>4, DevicesAssumption DEF AddWeight, Inv, TypeOK, Devices
    <2>2. T[i + 1] = T[i] + weights[i] /\ weight_sum = T[i] /\ pc = "weights"
      BY <1>2, <1>3, <1>4, <2>1 DEF AddWeight, RunningSumsOf
    <2>3. CASE weights[i] = 0
      BY <1>4, <2>3 DEF AddWeight
    <2>4. CASE weights[i] # 0
      BY <1>4, <2>2, <2>4 DEF AddWeight
    <2>5. QED
      BY <2>3, <2>4
  <1>5. CASE CheckBounds
    BY <1>2, <1>3, <1>5 DEF CheckBounds, Inv, Summing, RunningSumsOf
  <1>6. CASE UNCHANGED <<weight_sum, pc>> /\ (pc = "weights" => UNCHANGED i)
    BY <1>3, <1>6
  <1>7. CASE CheckWeights \/ AssignChunk \/ CheckRemainder \/ SpreadRemainder \/ StartLowering
             \/ LowerShard \/ EraseReplicate
    BY <1>3, <1>7 DEF CheckWeights, AssignChunk, CheckRemainder, SpreadRemainder, StartLowering,
                      LowerShard, EraseReplicate
  <1>8. QED
    BY <1>4, <1>5, <1>6, <1>7 DEF Next, Finished, vars

LEMMA TruncatedStep ==
  ASSUME Slack = 0
  PROVE  Inv /\ Counted /\ TruncatesShares /\ [Next]_vars => TruncatesShares'
  <1> SUFFICES ASSUME Inv, Counted, TruncatesShares, [Next]_vars PROVE TruncatesShares'
    OBVIOUS
  <1>1. num_devices \in Nat \ {0} /\ i \in 0 .. num_devices
    BY DevicesAssumption DEF Inv, TypeOK
  <1>2. CASE CheckBounds
    BY <1>2 DEF CheckBounds, TruncatesShares, total_iters
  <1>3. CASE AddWeight
    <2>1. i \in Devices
      BY <1>1, <1>3 DEF AddWeight, Devices
    <2>2. QED
      BY <1>3, <2>1 DEF AddWeight, TruncatesShares
  <1>4. CASE CheckWeights
    <2>1. pc' = "chunks" /\ i' = 0
      BY <1>1, <1>4 DEF CheckWeights, Inv, Summing
    <2>2. QED
      BY <2>1 DEF TruncatesShares, TruncatedBelow
  <1>5. CASE AssignChunk
    <2>1. PICK chunk \in Shares(i) : prefix' = [prefix EXCEPT ![i + 1] = assigned_iters + chunk]
      BY <1>5 DEF AssignChunk
    <2>2. /\ pc = "chunks" /\ pc' = pc /\ i \in Devices /\ i' = i + 1
          /\ UNCHANGED <<lb, ub, weights, weight_sum>>
      BY <1>1, <1>5 DEF AssignChunk, Devices
    <2>3. /\ weights[i] \in Nat /\ ub - lb \in Nat /\ weight_sum \in Nat \ {0}
          /\ assigned_iters = prefix[i] /\ prefix \in [0 .. num_devices -> Nat]
      BY <2>2, BoundsAssumption, WeightingsAssumption DEF Inv, TypeOK, Checked, Summing
    <2>4. chunk = (weights[i] * (ub - lb)) \div weight_sum
      <3> DEFINE exact == (weights[i] * (ub - lb)) \div weight_sum
      <3>1. exact \in Int
        BY <2>3
      <3>2. chunk \in {c \in exact - Slack .. exact + Slack : c >= 0}
        BY DEF Shares, total_iters
      <3> HIDE DEF exact
      <3>3. chunk = exact
        BY <3>1, <3>2
      <3>4. QED
        BY <3>3 DEF exact
    <2>5. /\ prefix'[i + 1] - prefix'[i] = (weights[i] * (ub - lb)) \div weight_sum
          /\ \A d \in 0 .. i - 1 : prefix'[d + 1] = prefix[d + 1] /\ prefix'[d] = prefix[d]
      <3> DEFINE exact == (weights[i] * (ub - lb)) \div weight_sum
      <3>1. chunk = exact /\ exact \in Int
        BY <2>3, <2>4
      <3> HIDE DEF exact
      <3>2. /\ prefix'[i + 1] = prefix[i] + exact /\ prefix'[i] = prefix[i] /\ prefix[i] \in Nat
            /\ \A d \in 0 .. i - 1 : prefix'[d + 1] = prefix[d + 1] /\ prefix'[d] = prefix[d]
        BY <1>1, <2>1, <2>2, <2>3, <3>1 DEF Devices
      <3>3. prefix'[i + 1] - prefix'[i] = exact
        BY <3>1, <3>2
      <3>4. QED
        BY <3>2, <3>3 DEF exact
    <2>6. \A d \in 0 .. i : d = i \/ d \in 0 .. i - 1
      BY <1>1
    <2>7. \A d \in 0 .. i : prefix'[d + 1] - prefix'[d] = (weights[d] * (ub - lb)) \div weight_sum
      BY <2>2, <2>5, <2>6 DEF TruncatesShares, TruncatedBelow
    <2>8. (i + 1) - 1 = i
      BY <1>1
    <2>9. QED
      BY <2>2, <2>7, <2>8 DEF TruncatesShares, TruncatedBelow
  <1>6. CASE CheckRemainder
    <2>1. /\ pc = "chunks" /\ i = num_devices /\ pc' \in {"failed", "spread"}
          /\ UNCHANGED <<lb, ub, weights, weight_sum, prefix>>
      BY <1>6 DEF CheckRemainder
    <2>2. TruncatedBelow(num_devices)
      BY <2>1 DEF TruncatesShares
    <2>3. \A T \in [0 .. num_devices -> Nat] :
            RunningSumsOf(T, weights) => weight_sum = T[num_devices]
      BY <2>1 DEF Counted
    <2>4. QED
      BY <2>1, <2>2, <2>3 DEF TruncatesShares, TruncatedBelow, RunningSumsOf
  <1>7. CASE SpreadRemainder \/ StartLowering \/ LowerShard \/ EraseReplicate
    BY <1>7 DEF SpreadRemainder, StartLowering, LowerShard, EraseReplicate, TruncatesShares
  <1>8. CASE UNCHANGED vars
    BY <1>8 DEF vars, TruncatesShares, TruncatedBelow, RunningSumsOf, total_iters
  <1>9. QED
    BY <1>2, <1>3, <1>4, <1>5, <1>6, <1>7, <1>8 DEF Next, Finished

(* With exact arithmetic, every loop with an iteration count that fits and *)
(* devices of usable cost is cut: the check of the remainder never fires   *)
(* (lowerReplicateOp.h:192-239).                                           *)
THEOREM ExactArithmeticIsAccepted ==
  ASSUME Slack = 0
  PROVE  Spec => [](pc = "failed" => \/ ub < lb \/ total_iters > MaxInt
                                     \/ \E d \in Devices : weights[d] = 0)
  <1>1. Init => Counted /\ TruncatesShares
    BY DEF Init, Counted, TruncatesShares
  <1>2. Spec => []TruncatesShares
    BY <1>1, InvHolds, CountedStep, TruncatedStep, PTL DEF Spec
  <1>3. ASSUME Inv, TruncatesShares, pc = "failed"
        PROVE  \/ ub < lb \/ total_iters > MaxInt
               \/ \E d \in Devices : weights[d] = 0
    <2> SUFFICES ASSUME ~ (ub < lb), ~ (total_iters > MaxInt), \A d \in Devices : weights[d] # 0
                 PROVE  FALSE
      OBVIOUS
    <2> DEFINE T == [n \in 0 .. num_devices |-> S!RunningSums(weights)[n]]
    <2>1. num_devices \in Nat \ {0} /\ weights \in [Devices -> Nat \ {0}]
      BY <1>3, DevicesAssumption, WeightingsAssumption DEF Inv, TypeOK
    <2>2. T \in [0 .. num_devices -> Nat] /\ T[num_devices] = S!WeightSum
      BY <2>1, WeightsAddUp DEF S!WeightSum
    <2>3. RunningSumsOf(T, weights)
      <3>1. \A d \in Devices : d \in 0 .. num_devices /\ d + 1 \in 0 .. num_devices
        BY <2>1 DEF Devices
      <3>2. /\ S!RunningSums(weights)[0] = 0
            /\ \A d \in Devices :
                 S!RunningSums(weights)[d + 1] = S!RunningSums(weights)[d] + weights[d]
        BY SumsStep
      <3>3. 0 \in 0 .. num_devices
        BY <2>1
      <3>4. QED
        BY <3>1, <3>2, <3>3 DEF RunningSumsOf
    <2> HIDE DEF T
    <2>4. TruncatedBelow(num_devices) /\ weight_sum = S!WeightSum
      BY <1>3, <2>2, <2>3 DEF TruncatesShares
    <2>5. SharesExact
      BY <2>4 DEF SharesExact, S!BaseChunk, loop, TruncatedBelow, Devices
    <2>6. ExactSharesAccepted
      BY <1>3, RemainderIsSmall DEF Inv, Checked, ExactSharesAccepted
    <2>7. QED
      BY <1>3, <2>5, <2>6 DEF ExactSharesAccepted
  <1>4. QED
    BY <1>2, <1>3, InvHolds, PTL
-----------------------------------------------------------------------------
(* What is transferred.  The argument is what the walks know on their way   *)
(* outwards.  While the verdict is open the cells reached are a run without *)
(* gaps, as long as the elements; when the expected stride is known it is   *)
(* that length, and a dimension whose step is the length continues the run. *)

TransferTypeOK ==
  /\ stage \in {"typing", "walked", "sent", "refused", "failed"}
  /\ identity \in BOOLEAN /\ slab \in BOOLEAN
  /\ rank \in Nat
  /\ static \in BOOLEAN /\ empty \in BOOLEAN
  /\ rowsOK \in BOOLEAN /\ rowStride \in Nat
  /\ verdict \in {"walking", "contiguous", "strided"}
  /\ expectedStride \in Nat \cup {kDynamic}
  /\ elements \in Nat /\ reached \subseteq Int
  /\ count \in Int

Run == reached = 0 .. elements - 1

(* What the walk of isProvablyContiguous knows.                             *)
WalkInv ==
  /\ verdict = "walking" => Run
  /\ verdict = "walking" /\ expectedStride # kDynamic =>
       expectedStride = elements /\ elements > 0
  /\ verdict = "contiguous" => elements = 0 /\ reached = {}

IdentityInv == identity /\ ~slab => Run

(* What the walk of supportsContiguousRowTransfer knows, and that the other *)
(* one then knows it too.                                                   *)
TypingInv ==
  stage = "typing" =>
    /\ ~slab
    /\ rowsOK => rowStride = elements /\ static /\ ~empty
    /\ static /\ ~empty => elements > 0
    /\ static /\ ~empty /\ (identity \/ rowsOK) =>
         \/ verdict = "walking" /\ expectedStride = elements
         \/ identity /\ elements > Int64Max

WalkedInv == stage = "walked" /\ slab /\ ~empty => verdict # "strided" /\ static

TransferInv ==
  /\ TransferTypeOK /\ WalkInv /\ IdentityInv /\ TypingInv /\ WalkedInv
  /\ SentCells /\ AcceptedSlabsAreSent

-----------------------------------------------------------------------------
(* Rows of n cells, one after the other, fill an interval.                  *)
LEMMA RowsFill ==
  ASSUME NEW n \in Nat, NEW size \in Nat
  PROVE  Along(0 .. n - 1, size, n) = 0 .. (n * size) - 1
<1> DEFINE Cells == Along(0 .. n - 1, size, n)
<1>1. ASSUME NEW x \in Cells PROVE x \in 0 .. (n * size) - 1
  <2>1. PICK c \in 0 .. n - 1, j \in 0 .. size - 1 : x = c + n * j
    BY DEF Along
  <2>2. n * j + n <= n * size
    <3>1. n * (j + 1) <= n * size
      <4>1. PICK k \in Nat : size = (j + 1) + k
        BY size - (j + 1) \in Nat, size = (j + 1) + (size - (j + 1))
      <4>2. n * size = n * (j + 1) + n * k /\ n * k \in Nat
        BY <4>1
      <4> QED
        BY <4>2
    <3> QED
      BY <3>1
  <2>3. n * j \in Nat /\ n * size \in Nat
    OBVIOUS
  <2> QED
    BY <2>1, <2>2, <2>3
<1>2. ASSUME NEW x \in 0 .. (n * size) - 1 PROVE x \in Cells
  <2>1. n > 0
    <3>1. CASE n = 0
      BY <3>1
    <3> QED
      BY <3>1
  <2>2. PICK c \in 0 .. n - 1, q \in Nat : x = c + n * q
    <3>1. x = (x % n) + n * (x \div n) /\ x % n \in 0 .. n - 1 /\ x \div n \in Nat
      BY <2>1
    <3> QED
      BY <3>1
  <2>3. q < size
    <3> SUFFICES ASSUME q >= size PROVE FALSE
      BY <2>2
    <3>1. PICK k \in Nat : q = size + k
      BY <2>2, q - size \in Nat, q = size + (q - size)
    <3>2. n * q = n * size + n * k /\ n * k \in Nat /\ n * size \in Nat
      BY <3>1
    <3> QED
      BY <2>2, <3>2
  <2>4. q \in 0 .. size - 1
    BY <2>3
  <2>5. \E b \in 0 .. n - 1, j \in 0 .. size - 1 : x = b + n * j
    BY <2>2, <2>4, Zenon
  <2> QED
    BY <2>5 DEF Along
<1> DEFINE Interval == 0 .. (n * size) - 1
<1> HIDE DEF Cells, Interval
<1>3. Cells = Interval
  <2>1. \A x \in Cells : x \in Interval
    BY <1>1 DEF Interval
  <2>2. \A x \in Interval : x \in Cells
    BY <1>2 DEF Interval
  <2> QED
    BY <2>1, <2>2
<1> QED
  BY <1>3 DEF Cells, Interval

(* A dimension with one cell or none reaches what was reached, or nothing.  *)
LEMMA OneCell ==
  ASSUME NEW R \in SUBSET Int, NEW step \in Nat
  PROVE  Along(R, 1, step) = R /\ Along(R, 0, step) = {}
<1> DEFINE One == Along(R, 1, step)
<1>1. \A c \in R : c + step * 0 = c
  OBVIOUS
<1>2. \A j : j \in 0 .. 1 - 1 <=> j = 0
  OBVIOUS
<1>3. ASSUME NEW x \in One PROVE x \in R
  <2>1. PICK c \in R, j \in 0 .. 1 - 1 : x = c + step * j
    BY DEF Along
  <2> QED
    BY <1>1, <1>2, <2>1
<1>4. ASSUME NEW x \in R PROVE x \in One
  BY <1>1, <1>2 DEF Along
<1>5. 0 .. 0 - 1 = {}
  OBVIOUS
<1>6. Along(R, 0, step) = {}
  BY <1>5 DEF Along
<1> HIDE DEF One
<1>7. One = R
  BY <1>3, <1>4
<1> QED
  BY <1>6, <1>7 DEF One

LEMMA Dynamic == kDynamic \in Int /\ kDynamic < 0
<1>1. Int64Max \in Nat
  BY TransferAssumption
<1> QED
  BY <1>1 DEF kDynamic

(* Occupying a dimension in which the run continues.                        *)
LEMMA RunContinues ==
  ASSUME TransferTypeOK, Run,
         NEW size \in Nat, NEW step \in Nat,
         size = 1 \/ step = elements,
         Occupy(size, step)
  PROVE  reached' = 0 .. elements' - 1 /\ elements' = elements * size
<1>1. elements \in Nat /\ reached \in SUBSET Int
  BY DEF TransferTypeOK
<1>2. CASE size = 1
  <2>1. reached' = reached
    BY <1>1, <1>2, OneCell DEF Occupy
  <2>2. elements' = elements
    BY <1>1, <1>2 DEF Occupy
  <2> QED
    BY <1>2, <2>1, <2>2 DEF Run, Occupy
<1>3. CASE step = elements
  <2>1. reached' = Along(0 .. elements - 1, size, elements)
    BY <1>3 DEF Occupy, Run
  <2>2. reached' = 0 .. (elements * size) - 1
    BY <1>1, <2>1, RowsFill
  <2> QED
    BY <2>2 DEF Occupy
<1> QED
  BY <1>2, <1>3

LEMMA OccupyType ==
  ASSUME TransferTypeOK, NEW size \in Nat, NEW step \in Nat, Occupy(size, step)
  PROVE  elements' \in Nat /\ reached' \subseteq Int
<1>1. elements \in Nat /\ reached \subseteq Int
  BY DEF TransferTypeOK
<1>2. \A c \in reached, j \in 0 .. size - 1 : c + step * j \in Int
  BY <1>1
<1> QED
  BY <1>1, <1>2 DEF Occupy, Along

(* One dimension of the walk of isProvablyContiguous.                       *)
LEMMA WalkKeepsRun ==
  ASSUME TransferTypeOK, WalkInv,
         NEW size \in Nat, NEW step \in Nat,
         NEW extent \in {size, kDynamic}, NEW stride \in {step, kDynamic},
         ContiguousWalk(extent, stride), Occupy(size, step)
  PROVE  /\ WalkInv'
         /\ verdict' \in {"walking", "contiguous", "strided"}
         /\ expectedStride' \in Nat \cup {kDynamic}
<1> USE Dynamic
<1>1. elements \in Nat /\ reached \in SUBSET Int /\ expectedStride \in Nat \cup {kDynamic}
      /\ verdict \in {"walking", "contiguous", "strided"}
  BY DEF TransferTypeOK
<1>2. CASE verdict # "walking" /\ UNCHANGED late
  <2>1. UNCHANGED <<verdict, expectedStride>>
    BY <1>2 DEF late
  <2>2. CASE verdict = "strided"
    BY <1>1, <2>1, <2>2 DEF WalkInv
  <2>3. CASE verdict = "contiguous"
    <3>1. elements = 0 /\ reached = {}
      BY <2>3 DEF WalkInv
    <3>2. elements' = 0
      BY <3>1 DEF Occupy
    <3>3. reached' = {}
      BY <3>1 DEF Occupy, Along
    <3> QED
      BY <1>1, <2>1, <2>3, <3>2, <3>3 DEF WalkInv
  <2> QED
    BY <1>1, <1>2, <2>2, <2>3
<1>3. CASE verdict' = "strided" /\ UNCHANGED expectedStride
  BY <1>1, <1>3 DEF WalkInv
<1>4. CASE extent = 0 /\ verdict' = "contiguous" /\ UNCHANGED expectedStride
  <2>1. size = 0
    BY <1>4
  <2>2. elements' = 0
    BY <1>1, <2>1 DEF Occupy
  <2>3. reached' = {}
    BY <1>1, <2>1, OneCell DEF Occupy
  <2> QED
    BY <1>1, <1>4, <2>2, <2>3 DEF WalkInv
<1>5. CASE /\ verdict = "walking" /\ extent # 0
           /\ Follows(extent, stride, expectedStride)
           /\ UNCHANGED verdict
           /\ \/ kDynamic \in {extent, expectedStride} /\ expectedStride' = kDynamic
              \/ /\ kDynamic \notin {extent, expectedStride}
                 /\ expectedStride' = expectedStride * extent
  <2>1. Run
    BY <1>5 DEF WalkInv
  <2>2. size = 1 \/ step = elements
    <3>1. CASE extent = 1
      BY <3>1
    <3>2. CASE stride # kDynamic /\ expectedStride # kDynamic /\ stride = expectedStride
      BY <1>5, <3>2 DEF WalkInv
    <3> QED
      BY <1>5, <3>1, <3>2 DEF Follows
  <2>3. reached' = 0 .. elements' - 1 /\ elements' = elements * size
    BY <2>1, <2>2, RunContinues
  <2>4. CASE expectedStride' = kDynamic
    BY <1>5, <2>3, <2>4 DEF WalkInv, Run
  <2>5. CASE kDynamic \notin {extent, expectedStride} /\ expectedStride' = expectedStride * extent
    <3>1. extent = size /\ size > 0 /\ expectedStride = elements /\ elements > 0
      BY <1>5, <2>5 DEF WalkInv
    <3>2. elements * size > 0 /\ elements * size \in Nat
      BY <3>1, <1>1
    <3> QED
      BY <1>5, <2>3, <2>5, <3>1, <3>2 DEF WalkInv, Run
  <2> QED
    BY <1>5, <2>4, <2>5
<1> QED
  BY <1>2, <1>3, <1>4, <1>5 DEF ContiguousWalk, Extend

(* The identity layout has no gaps whatever its extents.                    *)
LEMMA IdentityKeepsRun ==
  ASSUME TransferTypeOK, identity, Run,
         NEW size \in Nat, NEW step \in Nat, NEW extent, NEW stride,
         Stated(size, step, extent, stride), Occupy(size, step)
  PROVE  reached' = 0 .. elements' - 1
BY RunContinues DEF Stated

LEMMA StepsAreNat ==
  ASSUME TransferTypeOK, NEW size \in Sizes, NEW step \in Steps \cup {elements}
  PROVE  size \in Nat /\ step \in Nat
BY TransferAssumption DEF TransferTypeOK

-----------------------------------------------------------------------------
LEMMA TransferStarts == TransferInit => TransferInv
<1> SUFFICES ASSUME TransferInit PROVE TransferInv
  OBVIOUS
<1>1. 0 .. 1 - 1 = {0}
  OBVIOUS
<1>2. TransferTypeOK
  <2>1. /\ identity \in BOOLEAN /\ slab \in BOOLEAN
        /\ static \in BOOLEAN /\ empty \in BOOLEAN /\ rowsOK \in BOOLEAN
    BY Zenon DEF TransferInit
  <2>2. /\ stage \in {"typing", "walked", "sent", "refused", "failed"}
        /\ verdict \in {"walking", "contiguous", "strided"}
        /\ rank \in Nat /\ rowStride \in Nat
        /\ expectedStride \in Nat \cup {kDynamic}
        /\ elements \in Nat /\ reached \subseteq Int /\ count \in Int
    BY DEF TransferInit
  <2> QED
    BY <2>1, <2>2, Zenon DEF TransferTypeOK
<1>3. WalkInv /\ IdentityInv /\ TypingInv /\ WalkedInv
  BY <1>1 DEF TransferInit, WalkInv, IdentityInv, TypingInv, WalkedInv, Run
<1>4. SentCells /\ AcceptedSlabsAreSent
  BY DEF TransferInit, SentCells, AcceptedSlabsAreSent
<1> QED
  BY <1>2, <1>3, <1>4 DEF TransferInv

(* A trailing dimension that the check on outputs accepts keeps the other   *)
(* walk open, or the identity layout too large for any buffer.              *)
LEMMA TrailingAgrees ==
  ASSUME TransferTypeOK, WalkInv, TypingInv, stage = "typing",
         static, ~empty, identity \/ rowsOK,
         NEW size \in Nat \ {0}, NEW step \in Nat, NEW stride,
         Stated(size, step, size, stride),
         identity \/ (Follows(size, stride, rowStride) /\ ~TooLarge(rowStride, size)),
         ContiguousWalk(size, stride),
         elements' = elements * size
  PROVE  \/ verdict' = "walking" /\ expectedStride' = elements'
         \/ identity /\ elements' > Int64Max
<1> USE Dynamic
<1>1. elements \in Nat \ {0} /\ Int64Max \in Nat
  BY TransferAssumption DEF TypingInv, TransferTypeOK
<1>2. CASE identity /\ elements > Int64Max
  <2>1. elements * size >= elements
    BY <1>1
  <2> QED
    BY <1>1, <1>2, <2>1
<1>3. CASE verdict = "walking" /\ expectedStride = elements
  <2>1. Follows(size, stride, expectedStride)
    <3>1. CASE identity
      <4>1. stride = step /\ step = elements
        BY <3>1 DEF Stated
      <4> QED
        BY <1>1, <1>3, <4>1 DEF Follows
    <3>2. CASE ~identity
      BY <3>2, <1>3 DEF TypingInv
    <3> QED
      BY <3>1, <3>2
  <2>2. Extend(size)
    BY <1>3, <2>1 DEF ContiguousWalk
  <2>3. expectedStride # kDynamic /\ size # kDynamic
    BY <1>1, <1>3
  <2>4. CASE TooLarge(expectedStride, size)
    <3>1. identity
      BY <1>3, <2>4 DEF TypingInv
    <3>2. elements > Int64Max \div size
      BY <1>3, <2>4 DEF TooLarge
    <3>3. elements * size > Int64Max
      <4>1. Int64Max = size * (Int64Max \div size) + (Int64Max % size)
            /\ Int64Max % size \in 0 .. size - 1 /\ Int64Max \div size \in Nat
        BY <1>1
      <4>2. PICK k \in Nat : elements = (Int64Max \div size) + 1 + k
        BY <1>1, <3>2, <4>1, elements - ((Int64Max \div size) + 1) \in Nat
      <4>3. elements * size = size * (Int64Max \div size) + size + k * size /\ k * size \in Nat
        BY <4>1, <4>2
      <4> QED
        BY <4>1, <4>3
    <3> QED
      BY <3>1, <3>3
  <2>5. CASE ~TooLarge(expectedStride, size)
    BY <1>3, <2>2, <2>3, <2>5 DEF Extend
  <2> QED
    BY <2>4, <2>5
<1> QED
  BY <1>2, <1>3 DEF TypingInv

LEMMA TrailingInv ==
  ASSUME TransferInv, TrailingDimension
  PROVE  TransferInv'
<1> USE Dynamic
<1>1. PICK size \in Sizes, step \in Steps \cup {elements} :
        \E extent \in {size, kDynamic}, stride \in {step, kDynamic} :
          /\ Stated(size, step, extent, stride)
          /\ RowWalk(extent, stride)
          /\ ContiguousWalk(extent, stride)
          /\ static' = (static /\ extent # kDynamic)
          /\ empty' = (empty \/ extent = 0)
          /\ Occupy(size, step)
  BY DEF TrailingDimension
<1>2. PICK extent \in {size, kDynamic}, stride \in {step, kDynamic} :
        /\ Stated(size, step, extent, stride)
        /\ RowWalk(extent, stride)
        /\ ContiguousWalk(extent, stride)
        /\ static' = (static /\ extent # kDynamic)
        /\ empty' = (empty \/ extent = 0)
        /\ Occupy(size, step)
  BY <1>1
<1>3. TransferTypeOK /\ WalkInv /\ IdentityInv /\ TypingInv /\ stage = "typing"
  BY DEF TransferInv, TrailingDimension
<1>4. size \in Nat /\ step \in Nat
  BY <1>3, StepsAreNat
<1>5. UNCHANGED <<stage, identity, slab, count>> /\ rank' = rank + 1
  BY DEF TrailingDimension
<1>6. elements' \in Nat /\ reached' \subseteq Int
  BY <1>2, <1>3, <1>4, OccupyType
<1>7. /\ WalkInv'
      /\ verdict' \in {"walking", "contiguous", "strided"}
      /\ expectedStride' \in Nat \cup {kDynamic}
  BY <1>2, <1>3, <1>4, WalkKeepsRun
<1>8. rowsOK' \in BOOLEAN /\ rowStride' \in Nat
  <2>1. rowStride \in Nat
    BY <1>3 DEF TransferTypeOK
  <2>2. CASE rowsOK'
    <3>1. extent > 0
      BY <1>2, <2>2, Zenon DEF RowWalk
    <3>2. extent \in Nat
      BY <1>4, <3>1
    <3>3. rowStride' = rowStride * extent
      BY <1>2, <2>2, Zenon DEF RowWalk
    <3> QED
      BY <2>1, <2>2, <3>2, <3>3
  <2>3. rowsOK' \in BOOLEAN
    BY <1>2, Zenon DEF RowWalk
  <2>4. ~rowsOK' => rowStride' = rowStride
    BY <1>2, Zenon DEF RowWalk
  <2> QED
    BY <2>1, <2>2, <2>3, <2>4
<1>9. TransferTypeOK'
  BY <1>2, <1>3, <1>5, <1>6, <1>7, <1>8 DEF TransferTypeOK
<1>10. IdentityInv'
  <2>1. CASE identity
    <3>1. Run
      BY <1>3, <2>1 DEF IdentityInv, TypingInv
    <3>2. reached' = 0 .. elements' - 1
      BY <1>2, <1>3, <1>4, <2>1, <3>1, IdentityKeepsRun
    <3> QED
      BY <3>2 DEF IdentityInv, Run
  <2> QED
    BY <1>5, <2>1 DEF IdentityInv
<1>11. TypingInv'
  <2>1. elements' = elements * size /\ elements \in Nat
    BY <1>2, <1>3 DEF Occupy, TransferTypeOK
  <2>2. ~slab'
    BY <1>3, <1>5 DEF TypingInv
  <2>3. ASSUME rowsOK' PROVE rowStride' = elements' /\ static' /\ ~empty'
    <3>1. rowsOK /\ extent > 0 /\ rowStride' = rowStride * extent
      BY <1>2, <2>3 DEF RowWalk
    <3>2. rowStride = elements /\ static /\ ~empty
      BY <1>3, <3>1 DEF TypingInv
    <3>3. extent = size /\ extent # kDynamic /\ extent # 0
      BY <1>2, <1>4, <3>1
    <3> QED
      BY <1>2, <2>1, <3>1, <3>2, <3>3
  <2>4. ASSUME static', ~empty'
        PROVE  extent = size /\ size > 0 /\ static /\ ~empty /\ elements > 0
    <3>1. static /\ extent # kDynamic /\ ~empty /\ extent # 0
      BY <1>2, <2>4, Zenon
    <3>2. elements > 0
      BY <1>3, <3>1 DEF TypingInv
    <3> QED
      BY <1>4, <3>1, <3>2
  <2>5. ASSUME static', ~empty' PROVE elements' > 0
    BY <2>1, <2>4, <2>5, <1>4
  <2>6. ASSUME static', ~empty', identity' \/ rowsOK'
        PROVE  \/ verdict' = "walking" /\ expectedStride' = elements'
               \/ identity' /\ elements' > Int64Max
    <3>1. extent = size /\ size \in Nat \ {0} /\ static /\ ~empty
      BY <1>4, <2>4, <2>6
    <3>2. identity \/ (rowsOK /\ Follows(size, stride, rowStride) /\ ~TooLarge(rowStride, size))
      BY <1>2, <1>5, <2>6, <3>1 DEF RowWalk
    <3>3. Stated(size, step, size, stride) /\ ContiguousWalk(size, stride)
      BY <1>2, <3>1
    <3> QED
      BY <1>3, <1>4, <1>5, <2>1, <3>1, <3>2, <3>3, TrailingAgrees
  <2> QED
    BY <2>2, <2>3, <2>5, <2>6 DEF TypingInv
<1>12. WalkedInv' /\ SentCells' /\ AcceptedSlabsAreSent'
  BY <1>3, <1>5 DEF WalkedInv, SentCells, AcceptedSlabsAreSent
<1> QED
  BY <1>7, <1>9, <1>10, <1>11, <1>12 DEF TransferInv

LEMMA WholeInv ==
  ASSUME TransferInv, WholeMemref
  PROVE  TransferInv'
<1>1. PICK size \in Sizes, step \in Steps \cup {elements} :
        \E extent \in {size, kDynamic}, stride \in {step, kDynamic} :
          /\ Stated(size, step, extent, stride)
          /\ ContiguousWalk(extent, stride)
          /\ static' = (static /\ extent # kDynamic)
          /\ empty' = (empty \/ extent = 0)
          /\ Occupy(size, step)
  BY DEF WholeMemref
<1>2. PICK extent \in {size, kDynamic}, stride \in {step, kDynamic} :
        /\ Stated(size, step, extent, stride)
        /\ ContiguousWalk(extent, stride)
        /\ static' = (static /\ extent # kDynamic)
        /\ empty' = (empty \/ extent = 0)
        /\ Occupy(size, step)
  BY <1>1
<1>3. TransferTypeOK /\ WalkInv /\ IdentityInv /\ TypingInv /\ stage = "typing"
  BY DEF TransferInv, WholeMemref
<1>4. size \in Nat /\ step \in Nat
  BY <1>3, StepsAreNat
<1>5. /\ UNCHANGED <<identity, slab, rowsOK, rowStride, count>>
      /\ rank' = rank + 1 /\ stage' = "walked" /\ ~slab
  BY <1>3 DEF WholeMemref, early, TypingInv
<1>6. elements' \in Nat /\ reached' \subseteq Int
  BY <1>2, <1>3, <1>4, OccupyType
<1>7. /\ WalkInv'
      /\ verdict' \in {"walking", "contiguous", "strided"}
      /\ expectedStride' \in Nat \cup {kDynamic}
  BY <1>2, <1>3, <1>4, WalkKeepsRun
<1>8. TransferTypeOK'
  BY <1>2, <1>3, <1>5, <1>6, <1>7 DEF TransferTypeOK
<1>9. IdentityInv'
  <2>1. CASE identity
    <3>1. Run
      BY <1>3, <1>5, <2>1 DEF IdentityInv
    <3>2. reached' = 0 .. elements' - 1
      BY <1>2, <1>3, <1>4, <2>1, <3>1, IdentityKeepsRun
    <3> QED
      BY <3>2 DEF IdentityInv, Run
  <2> QED
    BY <1>5, <2>1 DEF IdentityInv
<1>10. TypingInv' /\ WalkedInv' /\ SentCells' /\ AcceptedSlabsAreSent'
  BY <1>5 DEF TypingInv, WalkedInv, SentCells, AcceptedSlabsAreSent
<1> QED
  BY <1>7, <1>8, <1>9, <1>10 DEF TransferInv

(* Dimension 0 of a slab: what the check on outputs has accepted leaves the *)
(* other walk nothing to object to.                                         *)
LEMMA SlabContiguous ==
  ASSUME TransferTypeOK, WalkInv, TypingInv, stage = "typing",
         NEW size \in Nat, NEW step \in Nat,
         NEW extent \in {size, kDynamic}, NEW stride \in {step, kDynamic},
         NEW rows \in 0 .. size,
         Stated(size, step, extent, stride),
         elements <= Int64Max, elements * size <= Int64Max,
         supportsContiguousRowTransfer(extent, stride),
         ~empty, extent # 0,
         ContiguousWalk(rows, stride)
  PROVE  verdict' # "strided"
<1> USE Dynamic
<1>1. static /\ (identity \/ (rowsOK /\ Follows(extent, stride, rowStride)))
  BY DEF supportsContiguousRowTransfer
<1>2. elements \in Nat \ {0} /\ Int64Max \in Nat
  BY <1>1, TransferAssumption DEF TypingInv, TransferTypeOK
<1>3. CASE rows = 0
  <2>1. verdict = "walking"
    BY <1>1, <1>2 DEF TypingInv
  <2> QED
    BY <1>3, <2>1 DEF ContiguousWalk
<1>4. CASE rows > 0
  <2>1. elements * rows <= Int64Max /\ elements <= elements * rows
    <3>1. PICK k \in Nat : size = rows + k
      BY size - rows \in Nat, size = rows + (size - rows)
    <3>2. elements * size = elements * rows + elements * k /\ elements * k \in Nat
      BY <1>2, <3>1
    <3>3. elements <= elements * rows
      BY <1>2, <1>4
    <3> QED
      BY <1>2, <3>2, <3>3
  <2>2. verdict = "walking" /\ expectedStride = elements
    BY <1>1, <1>2, <2>1 DEF TypingInv
  <2>3. Follows(rows, stride, expectedStride)
    <3>1. CASE rows = 1
      BY <3>1 DEF Follows
    <3>2. CASE rows # 1
      <4>1. extent # 1
        BY <3>2, <1>4
      <4>2. CASE identity
        <5>1. stride = step /\ step = elements
          BY <1>1, <4>2 DEF Stated
        <5> QED
          BY <1>2, <2>2, <5>1 DEF Follows
      <4>3. CASE rowsOK /\ Follows(extent, stride, rowStride)
        <5>1. rowStride = elements
          BY <4>3 DEF TypingInv
        <5> QED
          BY <2>2, <4>1, <4>3, <5>1 DEF Follows
      <4> QED
        BY <1>1, <4>2, <4>3
    <3> QED
      BY <3>1, <3>2
  <2>4. ~TooLarge(expectedStride, rows)
    <3> SUFFICES ASSUME elements > Int64Max \div rows PROVE FALSE
      BY <2>2 DEF TooLarge
    <3>1. Int64Max = rows * (Int64Max \div rows) + (Int64Max % rows)
          /\ Int64Max % rows \in 0 .. rows - 1 /\ Int64Max \div rows \in Nat
      BY <1>2, <1>4
    <3>2. PICK k \in Nat : elements = (Int64Max \div rows) + 1 + k
      BY <1>2, <3>1, elements - ((Int64Max \div rows) + 1) \in Nat
    <3>3. elements * rows = rows * (Int64Max \div rows) + rows + k * rows /\ k * rows \in Nat
      BY <3>1, <3>2
    <3> QED
      BY <2>1, <3>1, <3>3
  <2>5. rows # kDynamic /\ expectedStride # kDynamic /\ rows # 0
    BY <1>2, <1>4, <2>2
  <2>6. Extend(rows)
    BY <2>2, <2>3, <2>5 DEF ContiguousWalk
  <2> QED
    BY <2>2, <2>4, <2>5, <2>6 DEF Extend
<1> QED
  BY <1>3, <1>4

LEMMA SlabInv ==
  ASSUME TransferInv, RowSlab
  PROVE  TransferInv'
<1>1. PICK size \in Sizes, step \in Steps \cup {elements} :
        \E extent \in {size, kDynamic}, stride \in {step, kDynamic}, rows \in 0 .. size :
          /\ Stated(size, step, extent, stride)
          /\ elements <= Int64Max /\ elements * size <= Int64Max
          /\ empty' = (empty \/ extent = 0)
          /\ \/ stage' = "refused" /\ UNCHANGED <<late, memory>>
             \/ rank' > 3 /\ stage' = "failed" /\ UNCHANGED <<late, memory>>
             \/ /\ supportsContiguousRowTransfer(extent, stride)
                /\ stage' = "walked"
                /\ ContiguousWalk(rows, stride)
                /\ Occupy(rows, step)
  BY DEF RowSlab
<1>2. PICK extent \in {size, kDynamic}, stride \in {step, kDynamic}, rows \in 0 .. size :
        /\ Stated(size, step, extent, stride)
        /\ elements <= Int64Max /\ elements * size <= Int64Max
        /\ empty' = (empty \/ extent = 0)
        /\ \/ stage' = "refused" /\ UNCHANGED <<late, memory>>
           \/ rank' > 3 /\ stage' = "failed" /\ UNCHANGED <<late, memory>>
           \/ /\ supportsContiguousRowTransfer(extent, stride)
              /\ stage' = "walked"
              /\ ContiguousWalk(rows, stride)
              /\ Occupy(rows, step)
  BY <1>1
<1>3. TransferTypeOK /\ WalkInv /\ TypingInv /\ stage = "typing"
  BY DEF TransferInv, RowSlab
<1>4. size \in Nat /\ step \in Nat /\ rows \in Nat
  BY <1>3, StepsAreNat
<1>5. /\ UNCHANGED <<identity, static, rowsOK, rowStride, count>>
      /\ rank' = rank + 1 /\ slab' = TRUE
  BY DEF RowSlab, early
<1>6. ASSUME UNCHANGED <<late, memory>>, stage' \in {"refused", "failed"},
             stage' = "failed" => rank' > 3
      PROVE  TransferInv'
  <2>1. UNCHANGED <<verdict, expectedStride, elements, reached>>
    BY <1>6 DEF late, memory
  <2>2. empty' \in BOOLEAN
    BY <1>2, Zenon
  <2>3. TransferTypeOK'
    BY <1>3, <1>5, <1>6, <2>1, <2>2 DEF TransferTypeOK
  <2>4. WalkInv' /\ IdentityInv'
    BY <1>3, <1>5, <2>1 DEF WalkInv, IdentityInv, Run
  <2>5. TypingInv' /\ WalkedInv' /\ SentCells' /\ AcceptedSlabsAreSent'
    BY <1>6 DEF TypingInv, WalkedInv, SentCells, AcceptedSlabsAreSent
  <2> QED
    BY <2>3, <2>4, <2>5 DEF TransferInv
<1>7. ASSUME stage' = "walked",
             supportsContiguousRowTransfer(extent, stride),
             ContiguousWalk(rows, stride), Occupy(rows, step)
      PROVE  TransferInv'
  <2>1. elements' \in Nat /\ reached' \subseteq Int
    BY <1>3, <1>4, <1>7, OccupyType
  <2>2. /\ WalkInv'
        /\ verdict' \in {"walking", "contiguous", "strided"}
        /\ expectedStride' \in Nat \cup {kDynamic}
    BY <1>3, <1>4, <1>7, WalkKeepsRun
  <2>3. empty' \in BOOLEAN
    BY <1>2, Zenon
  <2>4. TransferTypeOK'
    BY <1>3, <1>5, <1>7, <2>1, <2>2, <2>3 DEF TransferTypeOK
  <2>5. IdentityInv' /\ TypingInv' /\ SentCells' /\ AcceptedSlabsAreSent'
    BY <1>5, <1>7 DEF IdentityInv, TypingInv, SentCells, AcceptedSlabsAreSent
  <2>6. WalkedInv'
    <3> SUFFICES ASSUME ~empty' PROVE verdict' # "strided" /\ static'
      BY DEF WalkedInv
    <3>1. ~empty /\ extent # 0
      BY <1>2, Zenon
    <3>2. static
      BY <1>7 DEF supportsContiguousRowTransfer
    <3>3. Stated(size, step, extent, stride) /\ elements <= Int64Max /\ elements * size <= Int64Max
      BY <1>2
    <3>4. verdict' # "strided"
      BY <1>3, <1>4, <1>7, <3>1, <3>3, SlabContiguous
    <3> QED
      BY <1>5, <3>2, <3>4
  <2> QED
    BY <2>2, <2>4, <2>5, <2>6 DEF TransferInv
<1> QED
  BY <1>2, <1>6, <1>7

LEMMA SendInv ==
  ASSUME TransferInv, getRawPtrAndSize
  PROVE  TransferInv'
<1>1. /\ TransferTypeOK /\ WalkInv /\ IdentityInv /\ WalkedInv /\ stage = "walked"
  BY DEF TransferInv, getRawPtrAndSize
<1>2. UNCHANGED <<identity, slab, rank, static, empty, rowsOK, rowStride,
                  verdict, expectedStride, elements, reached>>
  BY DEF getRawPtrAndSize, early, late, memory
<1>3. WalkInv' /\ IdentityInv'
  BY <1>1, <1>2 DEF WalkInv, IdentityInv, Run
<1>4. /\ stage' \in {"failed", "sent"}
      /\ stage' = "failed" =>
           ~isProvablyContiguous \/ (static /\ elements > MaxCount)
      /\ stage' = "sent" =>
           /\ isProvablyContiguous
           /\ static => elements <= MaxCount /\ count' = elements
           /\ ~static => count' = Truncated(elements)
      /\ stage' = "failed" => count' = count
  BY DEF getRawPtrAndSize
<1>5. elements \in Nat /\ MaxCount \in Nat
  BY <1>1, TransferAssumption DEF TransferTypeOK
<1>6. /\ Truncated(elements) \in Int
      /\ elements <= MaxCount => Truncated(elements) = elements
  <2> DEFINE half == MaxCount + 1
  <2>1. (elements + half) % (2 * half) \in Int
    BY <1>5
  <2>2. elements <= MaxCount => (elements + half) % (2 * half) = elements + half
    BY <1>5
  <2> QED
    BY <1>5, <2>1, <2>2 DEF Truncated
<1>7. count' \in Int
  <2>1. count \in Int
    BY <1>1 DEF TransferTypeOK
  <2> QED
    BY <1>4, <1>5, <1>6, <2>1
<1>8. TransferTypeOK'
  BY <1>1, <1>2, <1>4, <1>7 DEF TransferTypeOK
<1>9. SentCells'
  <2> SUFFICES ASSUME stage' = "sent", static \/ elements <= MaxCount
               PROVE  reached = 0 .. count' - 1
    BY <1>2, <1>5 DEF SentCells
  <2>1. Run
    <3>1. CASE identity /\ ~slab
      BY <1>1, <3>1 DEF IdentityInv
    <3>2. CASE verdict = "walking"
      BY <1>1, <3>2 DEF WalkInv
    <3>3. CASE verdict = "contiguous"
      <4>1. 0 .. 0 - 1 = {}
        OBVIOUS
      <4> QED
        BY <1>1, <3>3, <4>1 DEF WalkInv, Run
    <3> QED
      BY <1>1, <1>4, <3>1, <3>2, <3>3 DEF isProvablyContiguous, TransferTypeOK
  <2>2. count' = elements
    BY <1>4, <1>6
  <2> QED
    BY <2>1, <2>2 DEF Run
<1>10. AcceptedSlabsAreSent'
  BY <1>1, <1>2, <1>4 DEF AcceptedSlabsAreSent, WalkedInv, isProvablyContiguous
<1>11. TypingInv' /\ WalkedInv'
  BY <1>4 DEF TypingInv, WalkedInv
<1> QED
  BY <1>3, <1>8, <1>9, <1>10, <1>11 DEF TransferInv

(* The invariant of the proofs: types, what each walk knows, and the two    *)
(* properties of what is sent (MPIToLLVM.cc 61-157).                        *)
THEOREM TransferInvariant == TransferSpec => []TransferInv
<1>1. TransferInv /\ [TransferNext]_transferVars => TransferInv'
  <2> SUFFICES ASSUME TransferInv, [TransferNext]_transferVars PROVE TransferInv'
    OBVIOUS
  <2>1. CASE TrailingDimension
    BY <2>1, TrailingInv
  <2>2. CASE WholeMemref
    BY <2>2, WholeInv
  <2>3. CASE RowSlab
    BY <2>3, SlabInv
  <2>4. CASE getRawPtrAndSize
    BY <2>4, SendInv
  <2>5. CASE UNCHANGED transferVars
    BY <2>5 DEF transferVars, early, late, memory, TransferInv, TransferTypeOK, WalkInv,
                IdentityInv, TypingInv, WalkedInv, SentCells, AcceptedSlabsAreSent, Run
  <2> QED
    BY <2>1, <2>2, <2>3, <2>4, <2>5 DEF TransferNext
<1> QED
  BY <1>1, TransferStarts, PTL DEF TransferSpec

(* A transfer moves the cells of its memref and no others, whatever its     *)
(* type leaves unknown (MPIToLLVM.cc 58-60).                                *)
THEOREM TransfersAreExact == TransferSpec => []SentCells
<1>1. TransferInv => SentCells
  BY DEF TransferInv
<1> QED
  BY <1>1, TransferInvariant, PTL

(* The check on outputs (lowerReplicateOp.h 326-361) promises what the      *)
(* lowering of their gathers asks (MPIToLLVM.cc 61-113).                    *)
THEOREM AcceptedOutputsAreGathered == TransferSpec => []AcceptedSlabsAreSent
<1>1. TransferInv => AcceptedSlabsAreSent
  BY DEF TransferInv
<1> QED
  BY <1>1, TransferInvariant, PTL
=============================================================================

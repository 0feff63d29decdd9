----------------------------- MODULE MCSharding -----------------------------
(* Three devices and all loops with bounds in SmallBounds, for devices of  *)
(* three speeds, with one that has most of the weight, alike, and with an  *)
(* unusable cost.  The slabs of one loop are then transferred, out of      *)
(* outputs of any type.                                                    *)
EXTENDS Sharding, Transfers

SmallBounds == -1 .. 7
weighting(a, b, c) == [d \in Devices |-> IF d = 0 THEN a ELSE IF d = 1 THEN b ELSE c]
SpreadApart == weighting(2, 1, 1)
SmallWeightings ==
  {SpreadApart, weighting(1, 2, 3), weighting(1, 9, 1), weighting(1, 1, 1), weighting(1, 0, 1)}

Cut == Next /\ UNCHANGED transferVars

Transfer ==
  /\ pc = "lowered" /\ lb = 0 /\ ub = 7 /\ weights = SpreadApart /\ SharesExact
  /\ TransferNext
  /\ UNCHANGED vars

CutAndTransferInit == Init /\ TransferInit

CutAndTransferSpec ==
  CutAndTransferInit /\ [][Cut \/ Transfer]_<<vars, transferVars>>
=============================================================================

------------------------------- MODULE Claims -------------------------------
(***************************************************************************)
(* What comments in the repository say of the emitted program, as          *)
(* properties of ScheduleRun.                                              *)
(***************************************************************************)
EXTENDS ScheduleRun

SlabRows(slab) == {<<slab.mem, slab.lo + k - 1>> : k \in 1 .. slab.len}

(* utils.cc:258 "Create a combined subview that covers all the buffers to  *)
(* broadcast".                                                             *)
BroadcastCoversBuffers ==
  \A r \in Ranks : Running(r, "broadcast") =>
    \A b \in instruction(r).buffers : SlabRows(b) \subseteq SlabRows(instruction(r).slab)

(* broadcastAnalysis.h:84 "Every later consumer must be able to see the    *)
(* producer's data": a loop about to run on a rank finds there the last    *)
(* value of every element it loads.                                        *)
ConsumersSeeProducers ==
  \A r \in Ranks : Running(r, "compute") =>
    \A e \in instruction(r).effect : Fresh(copy[r], e.needs)

(* lowerReplicateOp.h:366 "Reject output patterns that cannot be           *)
(* represented by that transfer; merely keeping the memref whole would     *)
(* still gather the wrong elements": of a program that is not rejected, a  *)
(* gather brings the root no element older than its own.                   *)
GathersRightElements ==
  LET r == rootRank
      arrived == channel[Source(r)][r]
  IN  Running(r, "gather") /\ arrived # <<>> =>
        \A c \in AllCells :
          Stored(copy[r], instruction(r).slab, Head(arrived).data)[c] >= copy[r][c]
=============================================================================

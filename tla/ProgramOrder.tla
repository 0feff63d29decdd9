----------------------------- MODULE ProgramOrder -----------------------------
(***************************************************************************)
(* What the schedule lowering promises: operations are emitted in groups   *)
(* that may run side by side; an operation is emitted once, after all that *)
(* the source orders before it.                                            *)
(***************************************************************************)
EXTENDS ScheduleBody

VARIABLES
  body,  \* the source, which does not change
  done   \* operations emitted

vars == <<body, done>>

(* Tasks may pass each other unless they conflict, and may be delayed past *)
(* setup code; nothing else moves.                                         *)
Ordered(b, i, j) ==
  /\ i < j
  /\ i \in Tasks(b) => /\ j \notin Setups(b)
                       /\ j \in Tasks(b) => Fenced(b, i, j) \/ Conflicting(b, i, j)

Ready(i) == \A j \in Operations(body) : Ordered(body, j, i) => j \in done

Init == done = {}

Emit ==
  \E group \in SUBSET (Operations(body) \ done) :
    /\ \A i \in group : Ready(i)
    /\ done' = done \cup group
    /\ UNCHANGED body

Complete == done = Operations(body)

Safety == Init /\ [][Emit]_vars

Spec == Safety /\ WF_vars(Emit)
=============================================================================

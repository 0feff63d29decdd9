------------------------------ MODULE Lockstep ------------------------------
(***************************************************************************)
(* A text as its author reads it: all ranks take one instruction after the *)
(* other together, a send and its receive are one step, and there is no    *)
(* message under way.  ScheduleRun, whatever its interleaving, gives each  *)
(* rank the memory this gives it (InStep).                                 *)
(***************************************************************************)
EXTENDS ScheduleText

VARIABLES
  text,      \* the program
  position,  \* the next instruction
  memory     \* the memory of each rank

lockstepVars == <<text, position, memory>>

LockstepInit ==
  /\ text \in Programs
  /\ position = 1
  /\ memory = Untouched

Take ==
  /\ position < Len(text)
  /\ memory' = Executed(text[position], memory)
  /\ position' = position + 1
  /\ UNCHANGED text

AtEnd == position = Len(text) /\ UNCHANGED lockstepVars

LockstepNext == Take \/ AtEnd

LockstepSpec == LockstepInit /\ [][LockstepNext]_lockstepVars

-----------------------------------------------------------------------------
(* Each task, and each clone of host code, reads from its own rank what    *)
(* the sequential program would read (dhirtompi.h:584-856).                *)
TasksReadFresh ==
  text[position].op = "compute" =>
    \A r \in Ranks : Concerns(text[position], r) =>
      \A e \in text[position].effect : Fresh(memory[r], e.needs)

(* The instruction about to be taken leaves no cell of the root older than *)
(* it is: no gather brings an overwritten version back, and no task whose  *)
(* inputs are stale spoils what the root holds (dhirtompi.h:714-842).      *)
RootGainsOnly ==
  position < Len(text) =>
    \A c \in AllCells :
      Executed(text[position], memory)[rootRank][c] >= memory[rootRank][c]

(* At the end the rank of node 0 has the sequential result.                *)
ResultAtRoot ==
  text[position].op = "return" => Fresh(memory[rootRank], text[position].result)

(* The task or host code about to run clashes with none that has run       *)
(* already and that the sequential program runs after it: sorting tasks    *)
(* into levels and releasing the levels between host code moves no task    *)
(* past one it conflicts with (depGraph.h:236-557, dhirtompi.h:871-940).   *)
InSourceOrder ==
  text[position].op = "compute" =>
    \A p \in 1 .. position - 1 :
      text[p].op = "compute" /\ text[p].version > text[position].version =>
        ~ Clash(text[p], text[position])
=============================================================================

--------------------------- MODULE MCLevelEmission ---------------------------
(***************************************************************************)
(* All bodies of up to MaxLength operations with at most one loop around   *)
(* tasks, all sets of conflicts between their tasks, and up to one         *)
(* replicate with two shards.                                              *)
(***************************************************************************)
EXTENDS LevelEmission

CONSTANT MaxLength

(* A loop that is entered is left, holds a task, and is the only one.      *)
WellNested(ops) ==
  LET marks == {i \in DOMAIN ops : ops[i] \in {"enter", "exit"}}
  IN  \/ marks = {}
      \/ \E i, j \in marks : /\ marks = {i, j} /\ ops[i] = "enter" /\ ops[j] = "exit"
                             /\ \E t \in i .. j : ops[t] = "task"

Texts == {ops \in UNION {[1 .. n -> {"task", "setup", "enter", "exit", "serial"}] :
                           n \in 1 .. MaxLength} : WellNested(ops)}

TasksOf(ops) == {i \in DOMAIN ops : ops[i] = "task"}

Pairs(ops) == {p \in TasksOf(ops) \X TasksOf(ops) : p[1] < p[2]}

(* Shards of one replicate are neighbours.                                 *)
Shardings(ops) ==
  {[t \in TasksOf(ops) |-> t]}
    \cup {[t \in TasksOf(ops) |-> IF t = first + 1 THEN first ELSE t] :
            first \in {i \in TasksOf(ops) : i + 1 \in TasksOf(ops)}}

AllBodies ==
  UNION {{[ops |-> ops, shard |-> s, conflicts |-> c] :
            s \in Shardings(ops), c \in SUBSET Pairs(ops)} : ops \in Texts}
=============================================================================

-------------------------- MODULE TopologicalLevels --------------------------
(***************************************************************************)
(* DependencyGraph::schedule (depGraph.h) in closed form: a task is in the *)
(* first level after those of all the tasks it waits for, and tasks keep   *)
(* their order within a level.  LevelEmission has the algorithm.           *)
(* waitsFor[u] are the tasks u waits for.                                  *)
(***************************************************************************)
EXTENDS Integers, Sequences, SequencesExt

(* The level a task belongs to, given those of the tasks before it.        *)
FirstLevelAfter(levels, waits) ==
  1 + Max({0} \cup {l \in 1 .. Len(levels) : \E t \in ToSet(levels[l]) : t \in waits})

Placed(levels, u, level) ==
  IF level > Len(levels)
    THEN Append(levels, <<u>>)
    ELSE [levels EXCEPT ![level] = Append(@, u)]

PlacedAfter(levels, u, waits) == Placed(levels, u, FirstLevelAfter(levels, waits))

PlaceInLevels(tasks, waitsFor) ==
  LET levels[n \in 0 .. Len(tasks)] ==
        IF n = 0 THEN <<>> ELSE PlacedAfter(levels[n - 1], tasks[n], waitsFor[tasks[n]])
  IN  levels[Len(tasks)]
=============================================================================

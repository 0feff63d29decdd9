---------------------------- MODULE LevelEmission ----------------------------
(***************************************************************************)
(* DependencyGraph::build and schedule (depGraph.h) and emitBody           *)
(* (dhirtompi.h): the walk that puts tasks into emission groups, the       *)
(* level-by-level topological sort, and the second walk, which releases a  *)
(* level when the last of its tasks, and of the tasks of all levels before *)
(* it, has been passed.                                                    *)
(***************************************************************************)
EXTENDS ScheduleBody, TopologicalLevels

None == -1

VARIABLES
  body,             \* the body being lowered
  phase,            \* "group", "depend", "schedule", "walk", "release", "done" or "failed"
  at,               \* the operation the walk is at
  activeGroup,      \* group of the tasks met since the last fence, or None
  nextGroup,        \* nextEmissionGroup
  group,            \* emission group of each task
  deps,             \* tasks each task waits for
  inDegree,         \* number of those not scheduled yet
  levelVector,      \* the levels, each a set of tasks
  remaining,        \* levelTasksRemaining
  nextLevelToEmit,
  emitted           \* operations emitted so far

vars == <<body, phase, at, activeGroup, nextGroup, group, deps, inDegree,
          levelVector, remaining, nextLevelToEmit, emitted>>

scheduled == UNION {levelVector[l] : l \in DOMAIN levelVector}

Init ==
  /\ body \in Bodies
  /\ phase = "group"
  /\ at = 1
  /\ activeGroup = None
  /\ nextGroup = 0
  /\ group = [t \in Tasks(body) |-> None]
  /\ deps = [t \in Tasks(body) |-> {}]
  /\ inDegree = [t \in Tasks(body) |-> 0]
  /\ levelVector = <<>>
  /\ remaining = <<>>
  /\ nextLevelToEmit = 1
  /\ emitted = {}

Walking(p) == phase = p /\ at \in Operations(body)

(* assignEmissionGroups at a task, a setup operation, a fence.             *)
GroupTask ==
  /\ Walking("group")
  /\ at \in Tasks(body)
  /\ LET g == IF activeGroup = None THEN nextGroup ELSE activeGroup
     IN  /\ activeGroup' = g
         /\ group' = [group EXCEPT ![at] = g]
         /\ nextGroup' = IF activeGroup = None THEN nextGroup + 1 ELSE nextGroup
  /\ at' = at + 1
  /\ UNCHANGED <<body, phase, deps, inDegree, levelVector, remaining,
                 nextLevelToEmit, emitted>>

GroupFence ==
  /\ Walking("group")
  /\ at \in Others(body)
  /\ activeGroup' = IF at \in Setups(body) THEN activeGroup ELSE None
  /\ at' = at + 1
  /\ UNCHANGED <<body, phase, nextGroup, group, deps, inDegree, levelVector,
                 remaining, nextLevelToEmit, emitted>>

GroupsAssigned ==
  /\ phase = "group" /\ at \notin Operations(body)
  /\ phase' = "depend"
  /\ UNCHANGED <<body, at, activeGroup, nextGroup, group, deps, inDegree,
                 levelVector, remaining, nextLevelToEmit, emitted>>

(* Mutant of Depends: emission groups are not compared.                     *)
DependsOnMemoryOnly(i, j) == i < j /\ Conflicting(body, i, j)

(* buildDependencies: task j waits for the earlier task i.                 *)
Depends(i, j) == i < j /\ (group[i] # group[j] \/ Conflicting(body, i, j))

BuildDependencies ==
  /\ phase = "depend"
  /\ deps' = [t \in Tasks(body) |-> {i \in Tasks(body) : Depends(i, t)}]
  /\ inDegree' = [t \in Tasks(body) |-> Cardinality({i \in Tasks(body) : Depends(i, t)})]
  /\ phase' = "schedule"
  /\ UNCHANGED <<body, at, activeGroup, nextGroup, group, levelVector,
                 remaining, nextLevelToEmit, emitted>>

(* Mutant of currentLevel: only the first ready task is taken.              *)
currentLevelFirst ==
  {t \in Tasks(body) \ scheduled :
     /\ inDegree[t] = 0
     /\ \A u \in Tasks(body) \ scheduled : u < t => inDegree[u] # 0}

currentLevel == {t \in Tasks(body) \ scheduled : inDegree[t] = 0}

(* Mutant of ScheduleLevel: every task of the level counts, waited for or   *)
(* not.                                                                     *)
ScheduleLevelCountsAll ==
  /\ phase = "schedule"
  /\ currentLevel # {}
  /\ levelVector' = Append(levelVector, currentLevel)
  /\ inDegree' = [t \in Tasks(body) |-> inDegree[t] - Cardinality(currentLevel)]
  /\ UNCHANGED <<body, phase, at, activeGroup, nextGroup, group, deps,
                 remaining, nextLevelToEmit, emitted>>

ScheduleLevel ==
  /\ phase = "schedule"
  /\ currentLevel # {}
  /\ levelVector' = Append(levelVector, currentLevel)
  /\ inDegree' = [t \in Tasks(body) |-> inDegree[t] - Cardinality(deps[t] \cap currentLevel)]
  /\ UNCHANGED <<body, phase, at, activeGroup, nextGroup, group, deps,
                 remaining, nextLevelToEmit, emitted>>

(* schedule returns, with all tasks scheduled or on a cycle; the lowering  *)
(* counts the tasks of each level and starts its walk.                     *)
LevelsBuilt ==
  /\ phase = "schedule"
  /\ currentLevel = {}
  /\ remaining' = [l \in DOMAIN levelVector |-> Cardinality(levelVector[l])]
  /\ phase' = "walk"
  /\ at' = 1
  /\ UNCHANGED <<body, activeGroup, nextGroup, group, deps, inDegree,
                 levelVector, nextLevelToEmit, emitted>>

LevelsOf(t) == {l \in DOMAIN levelVector : t \in levelVector[l]}

(* A task whose level is unknown or already out is passed over; one whose  *)
(* level has no task left to meet is an error.                             *)
VisitTask ==
  /\ Walking("walk")
  /\ at \in Tasks(body)
  /\ LET pending == {l \in LevelsOf(at) : l >= nextLevelToEmit}
     IN  /\ phase' = IF pending = {} THEN "walk"
                     ELSE IF \E l \in pending : remaining[l] = 0 THEN "failed"
                     ELSE "release"
         /\ at' = IF pending = {} THEN at + 1 ELSE at
         /\ remaining' = [l \in DOMAIN remaining |->
                            IF l \in pending /\ remaining[l] > 0
                              THEN remaining[l] - 1 ELSE remaining[l]]
  /\ UNCHANGED <<body, activeGroup, nextGroup, group, deps, inDegree,
                 levelVector, nextLevelToEmit, emitted>>

(* Mutant of LevelReady: a level goes out one task early.                   *)
LevelReadyEarly ==
  nextLevelToEmit \in DOMAIN levelVector /\ remaining[nextLevelToEmit] = 1

LevelReady ==
  nextLevelToEmit \in DOMAIN levelVector /\ remaining[nextLevelToEmit] = 0

ReleaseLevel ==
  /\ phase = "release"
  /\ LevelReady
  /\ emitted' = emitted \cup levelVector[nextLevelToEmit]
  /\ nextLevelToEmit' = nextLevelToEmit + 1
  /\ UNCHANGED <<body, phase, at, activeGroup, nextGroup, group, deps,
                 inDegree, levelVector, remaining>>

(* Mutant of ReleaseDone: the loop may stop with a level still ready.       *)
ReleaseDoneAnyTime ==
  /\ phase = "release"
  /\ phase' = "walk"
  /\ at' = at + 1
  /\ UNCHANGED <<body, activeGroup, nextGroup, group, deps, inDegree,
                 levelVector, remaining, nextLevelToEmit, emitted>>

ReleaseDone ==
  /\ phase = "release"
  /\ ~LevelReady
  /\ phase' = "walk"
  /\ at' = at + 1
  /\ UNCHANGED <<body, activeGroup, nextGroup, group, deps, inDegree,
                 levelVector, remaining, nextLevelToEmit, emitted>>

(* Anything but a task is cloned where it stands; a loop that wraps tasks  *)
(* is rebuilt around what its body emits.                                  *)
EmitInPlace ==
  /\ Walking("walk")
  /\ at \in Others(body)
  /\ emitted' = emitted \cup {at}
  /\ at' = at + 1
  /\ UNCHANGED <<body, phase, activeGroup, nextGroup, group, deps, inDegree,
                 levelVector, remaining, nextLevelToEmit>>

Return ==
  /\ phase = "walk" /\ at \notin Operations(body)
  /\ phase' = IF nextLevelToEmit = Len(levelVector) + 1 THEN "done" ELSE "failed"
  /\ UNCHANGED <<body, at, activeGroup, nextGroup, group, deps, inDegree,
                 levelVector, remaining, nextLevelToEmit, emitted>>

Ended == phase \in {"done", "failed"} /\ UNCHANGED vars

Step ==
  \/ GroupTask
  \/ GroupFence
  \/ GroupsAssigned
  \/ BuildDependencies
  \/ ScheduleLevel
  \/ LevelsBuilt
  \/ VisitTask
  \/ ReleaseLevel
  \/ ReleaseDone
  \/ EmitInPlace
  \/ Return

Next == Step \/ Ended

(* The compiler runs to its end.                                           *)
Spec == Init /\ [][Next]_vars /\ WF_vars(Step)

-----------------------------------------------------------------------------
Phases == {"group", "depend", "schedule", "walk", "release", "done", "failed"}

(* In-degrees and counters of levels are counts: the int and size_t of the *)
(* code never wrap below zero (depGraph.h:539, dhirtompi.h:891).           *)
TypeOK ==
  /\ phase \in Phases
  /\ at \in 1 .. Len(body.ops) + 1
  /\ nextGroup \in Nat
  /\ activeGroup \in Nat \cup {None}
  /\ group \in [Tasks(body) -> Nat \cup {None}]
  /\ deps \in [Tasks(body) -> SUBSET Tasks(body)]
  /\ inDegree \in [Tasks(body) -> Nat]
  /\ levelVector \in Seq(SUBSET Tasks(body))
  /\ remaining \in Seq(Nat)
  /\ nextLevelToEmit \in 1 .. Len(levelVector) + 1
  /\ emitted \subseteq Operations(body)

(* The error paths "visited more than once" and "not all levels emitted"   *)
(* are unreachable (dhirtompi.h:887-890, 944-947).                         *)
NeverFails == phase # "failed"

(* The tasks in program order.                                             *)
InOrder ==
  LET met[n \in 0 .. Len(body.ops)] ==
        IF n = 0 THEN <<>>
        ELSE IF n \in Tasks(body) THEN Append(met[n - 1], n) ELSE met[n - 1]
  IN  met[Len(body.ops)]

(* The sort by in-degrees puts each task right after the last level it has *)
(* to wait for: it agrees with the closed form that emission works with    *)
(* (depGraph.h:488-557).                                                   *)
LevelsMatchClosedForm ==
  phase = "done" =>
    LET placed == PlaceInLevels(InOrder, deps)
    IN  levelVector = [l \in DOMAIN placed |-> ToSet(placed[l])]

(* A level is released at the last task of it and of all levels before,    *)
(* neither earlier nor later (dhirtompi.h:893-904).                        *)
ReleasedWhenReady ==
  [][nextLevelToEmit' # nextLevelToEmit =>
       LET out == UNION {levelVector[l] : l \in 1 .. nextLevelToEmit}
       IN  at \in out /\ \A t \in out : t <= at]_vars

Order == INSTANCE ProgramOrder WITH done <- emitted

(* Whatever the fences, conflicts and shards, every operation is emitted   *)
(* once, after all that the source orders before it: no task overtakes     *)
(* serial code, leaves its loop, or runs beside one it conflicts with      *)
(* (depGraph.h:321-376, 488-557; dhirtompi.h:871-948).                     *)
ImplementsProgramOrder == Order!Spec
=============================================================================

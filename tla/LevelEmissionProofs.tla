------------------------- MODULE LevelEmissionProofs -------------------------
(***************************************************************************)
(* For every schedule body, whatever its loops, conflicts and shards: the  *)
(* error paths of the level walk are unreachable, and operations come out  *)
(* in an order the source allows.                                          *)
(***************************************************************************)
EXTENDS LevelEmission, FiniteSetTheorems, WellFoundedInduction, TLAPS

(* Tasks the first walk has passed.                                        *)
Met == IF phase = "group" THEN {t \in Tasks(body) : t < at} ELSE Tasks(body)

(* A fence between two tasks puts them into different groups.              *)
Grouped ==
  /\ \A t \in Met : group[t] \in Nat /\ group[t] < nextGroup
  /\ \A t, u \in Met : t < u /\ Fenced(body, t, u) => group[t] # group[u]
  /\ phase = "group" /\ activeGroup # None =>
       /\ activeGroup < nextGroup
       /\ \A t \in Met : Fenced(body, t, at) => group[t] # activeGroup

Waiting ==
  phase \notin {"group", "depend"} =>
    \A t \in Tasks(body) : deps[t] = {i \in Tasks(body) : Depends(i, t)}

LevelOfEarlier(u, l) == \E k \in DOMAIN levelVector : k < l /\ u \in levelVector[k]

(* The levels are not empty and disjoint, and a task is in a later level   *)
(* than all it waits for.                                                  *)
Sorted ==
  /\ phase \in {"group", "depend"} => levelVector = <<>>
  /\ \A l \in DOMAIN levelVector : levelVector[l] # {}
  /\ \A k, l \in DOMAIN levelVector : k # l => levelVector[k] \cap levelVector[l] = {}
  /\ \A l \in DOMAIN levelVector : \A t \in levelVector[l] : \A u \in deps[t] : LevelOfEarlier(u, l)

Counted ==
  phase = "schedule" =>
    \A t \in Tasks(body) : inDegree[t] = Cardinality(deps[t] \ scheduled)

AllScheduled ==
  phase \in {"walk", "release", "done", "failed"} => scheduled = Tasks(body)

(* First operation the second walk has not counted yet.                    *)
Position == IF phase = "release" THEN at + 1 ELSE at

Ahead(l) == {t \in levelVector[l] : t >= Position}

(* The levels before nextLevelToEmit lie behind the walk and are out; the  *)
(* next one is not behind it unless it is being released.                  *)
Walked ==
  phase \in {"walk", "release", "done", "failed"} =>
    /\ DOMAIN remaining = DOMAIN levelVector
    /\ \A l \in DOMAIN levelVector : remaining[l] = Cardinality(Ahead(l))
    /\ \A l \in DOMAIN levelVector : l < nextLevelToEmit => Ahead(l) = {}
    /\ phase = "walk" /\ nextLevelToEmit \in DOMAIN levelVector =>
         Ahead(nextLevelToEmit) # {}
    /\ phase = "release" => at \in Tasks(body)

EmittedSoFar ==
  {t \in Tasks(body) : \E l \in DOMAIN levelVector : l < nextLevelToEmit /\ t \in levelVector[l]}
    \cup {k \in Others(body) : phase \notin {"group", "depend", "schedule"} /\ k < at}

Emitted ==
  /\ emitted = EmittedSoFar
  /\ phase \in {"group", "depend", "schedule"} => nextLevelToEmit = 1

Inv ==
  /\ body \in Bodies
  /\ TypeOK
  /\ Grouped
  /\ Waiting
  /\ Sorted
  /\ Counted
  /\ AllScheduled
  /\ Walked
  /\ Emitted
  /\ NeverFails

-----------------------------------------------------------------------------
LEMMA BodyFacts ==
  ASSUME NEW b \in Bodies
  PROVE  /\ Len(b.ops) \in Nat
         /\ Operations(b) = 1 .. Len(b.ops)
         /\ Tasks(b) \subseteq Operations(b)
         /\ Others(b) = Operations(b) \ Tasks(b)
         /\ Setups(b) \subseteq Others(b)
         /\ Fences(b) = Others(b) \ Setups(b)
         /\ IsFiniteSet(Tasks(b))
  <1>1. Len(b.ops) \in Nat
    BY BodiesAssumption
  <1>2. IsFiniteSet(1 .. Len(b.ops))
    BY <1>1, FS_Interval
  <1>3. Tasks(b) \subseteq 1 .. Len(b.ops)
    BY DEF Tasks, Operations
  <1>4. IsFiniteSet(Tasks(b))
    BY <1>2, <1>3, FS_Subset
  <1>5. QED
    BY <1>1, <1>4 DEF Operations, Tasks, Setups, Others, Fences

LEMMA FiniteTasks ==
  ASSUME NEW b \in Bodies, NEW S \in SUBSET Tasks(b)
  PROVE  /\ IsFiniteSet(S)
         /\ Cardinality(S) \in Nat
         /\ Cardinality(S) = 0 <=> S = {}
  <1>1. IsFiniteSet(S)
    BY BodyFacts, FS_Subset
  <1>2. QED
    BY <1>1, FS_CardinalityType, FS_EmptySet

(* The first of a set of tasks.                                            *)
LEMMA FirstTask ==
  ASSUME NEW b \in Bodies, NEW S \in SUBSET Tasks(b), S # {}
  PROVE  \E t \in S : \A u \in S : t <= u
  <1>1. S \subseteq Nat
    BY BodyFacts
  <1>2. PICK t \in S : \A u \in S : ~ (<<u, t>> \in OpToRel(<, Nat))
    BY <1>1, NatLessThanWellFounded, WFMin
  <1>3. OpToRel(<, Nat) = {p \in Nat \X Nat : p[1] < p[2]}
    BY DEF OpToRel
  <1>4. ASSUME NEW u \in S PROVE t <= u
    <2>1. t \in Nat /\ u \in Nat
      BY <1>1
    <2>2. ~ (<<u, t>> \in {p \in Nat \X Nat : p[1] < p[2]})
      BY <1>2, <1>3, Zenon
    <2>3. QED
      BY <2>1, <2>2
  <1>5. QED
    BY <1>4

-----------------------------------------------------------------------------
LEMMA InitInv == Init => Inv
  <1> SUFFICES ASSUME Init PROVE Inv
    OBVIOUS
  <1> USE DEF Init
  <1>1. body \in Bodies /\ Len(body.ops) \in Nat
    BY BodyFacts
  <1>2. TypeOK
    BY <1>1 DEF TypeOK, Phases
  <1>3. Grouped /\ Waiting
    <2>1. Met = {}
      BY <1>1, BodyFacts DEF Met
    <2>2. QED
      BY <2>1 DEF Grouped, Waiting
  <1>4. Sorted /\ Counted /\ AllScheduled /\ Walked /\ NeverFails
    BY DEF Sorted, Counted, AllScheduled, Walked, NeverFails
  <1>5. Emitted
    BY DEF Emitted, EmittedSoFar
  <1>6. QED
    BY <1>1, <1>2, <1>3, <1>4, <1>5 DEF Inv

(* A fence between u and the operation after `at` lies before `at`, unless *)
(* it is `at`.                                                             *)
LEMMA FencedBefore ==
  ASSUME body \in Bodies, at \in Operations(body), at \notin Fences(body),
         NEW t \in Tasks(body), Fenced(body, t, at + 1)
  PROVE  t < at /\ Fenced(body, t, at)
  <1>1. PICK k \in Fences(body) : t < k /\ k < at + 1
    BY DEF Fenced
  <1>2. k \in Nat /\ at \in Nat /\ t \in Nat /\ k # at
    BY BodyFacts
  <1>3. QED
    BY <1>1, <1>2 DEF Fenced

LEMMA GroupTaskInv ==
  ASSUME Inv, GroupTask
  PROVE  Inv'
  <1> DEFINE g == IF activeGroup = None THEN nextGroup ELSE activeGroup
  <1>1. /\ body \in Bodies /\ phase = "group" /\ phase' = "group" /\ body' = body
        /\ at \in Operations(body) /\ at \in Tasks(body) /\ at' = at + 1
        /\ at \in Nat /\ Len(body.ops) \in Nat /\ at <= Len(body.ops)
    BY BodyFacts DEF Inv, GroupTask, Walking
  <1>2. /\ nextGroup \in Nat
        /\ activeGroup \in Nat \cup {None}
        /\ group \in [Tasks(body) -> Nat \cup {None}]
    BY DEF Inv, TypeOK
  <1>3. /\ g \in Nat /\ activeGroup' = g
        /\ group' = [group EXCEPT ![at] = g]
        /\ nextGroup' \in Nat /\ g < nextGroup' /\ nextGroup <= nextGroup'
    BY <1>1, <1>2 DEF GroupTask, Grouped, Inv
  <1>4. TypeOK'
    BY <1>1, <1>2, <1>3 DEF Inv, TypeOK, GroupTask, Phases, Operations, scheduled
  <1>5. Grouped'
    <2>1. Met' = Met \cup {at}
      BY <1>1, BodyFacts DEF Met
    <2>2. \A t \in Met : t \in Tasks(body) /\ t < at /\ t \in Nat /\ group'[t] = group[t]
      BY <1>1, <1>2, <1>3, BodyFacts DEF Met
    <2>3. group'[at] = g
      BY <1>1, <1>2, <1>3
    <2>4. \A t \in Met : group[t] \in Nat /\ group[t] < nextGroup
      BY DEF Inv, Grouped
    <2>5. \A t \in Met : Fenced(body, t, at) => group[t] # g
      BY <1>1, <1>2, <2>4 DEF Inv, Grouped
    <2>6. \A t \in Met' : group'[t] \in Nat /\ group'[t] < nextGroup'
      BY <1>2, <1>3, <2>1, <2>2, <2>3, <2>4
    <2>7. ASSUME NEW t \in Met', NEW u \in Met', t < u, Fenced(body, t, u)
          PROVE  group'[t] # group'[u]
      <3>1. CASE u = at
        BY <1>1, <2>1, <2>2, <2>3, <2>5, <2>7, <3>1
      <3>2. CASE u # at
        <4>1. u \in Met /\ t \in Met
          BY <1>1, <2>1, <2>2, <2>7, <3>2
        <4>2. QED
          BY <2>2, <2>7, <4>1 DEF Inv, Grouped
      <3>3. QED
        BY <3>1, <3>2
    <2>8. ASSUME NEW t \in Met', Fenced(body, t, at + 1)
          PROVE  group'[t] # g
      <3>1. t \in Tasks(body)
        BY <1>1, <2>1, <2>2
      <3>2. t < at /\ Fenced(body, t, at)
        BY <1>1, <2>8, <3>1, FencedBefore, BodyFacts
      <3>3. QED
        BY <1>1, <2>1, <2>2, <2>5, <3>2
    <2>9. QED
      BY <1>1, <1>3, <2>6, <2>7, <2>8 DEF Grouped
  <1>6. (Waiting /\ Counted /\ AllScheduled /\ Walked /\ NeverFails)'
    BY <1>1 DEF Waiting, Counted, AllScheduled, Walked, NeverFails
  <1>7. Sorted' /\ Emitted'
    BY <1>1 DEF Inv, Sorted, Emitted, EmittedSoFar, GroupTask
  <1>8. QED
    BY <1>1, <1>4, <1>5, <1>6, <1>7 DEF Inv

LEMMA GroupFenceInv ==
  ASSUME Inv, GroupFence
  PROVE  Inv'
  <1>1. /\ body \in Bodies /\ phase = "group" /\ phase' = "group" /\ body' = body
        /\ at \in Operations(body) /\ at \notin Tasks(body) /\ at' = at + 1
        /\ at \in Nat /\ Len(body.ops) \in Nat /\ at <= Len(body.ops)
        /\ activeGroup' = IF at \in Setups(body) THEN activeGroup ELSE None
        /\ group' = group /\ nextGroup' = nextGroup
    BY BodyFacts DEF Inv, GroupFence, Walking
  <1>2. TypeOK'
    BY <1>1 DEF Inv, TypeOK, GroupFence, Phases, Operations, None
  <1>3. Grouped'
    <2>1. Met' = Met /\ Met \subseteq Tasks(body)
      BY <1>1, BodyFacts DEF Met
    <2>2. \A t \in Met : t < at /\ t \in Nat
      BY <1>1, BodyFacts DEF Met
    <2>3. ASSUME activeGroup' # None, NEW t \in Met, Fenced(body, t, at + 1)
          PROVE  group[t] # activeGroup
      <3>1. at \in Setups(body) /\ activeGroup # None
        BY <1>1, <2>3
      <3>2. at \notin Fences(body)
        BY <1>1, <3>1, BodyFacts
      <3>3. Fenced(body, t, at)
        BY <1>1, <2>1, <2>3, <3>2, FencedBefore
      <3>4. QED
        BY <1>1, <3>1, <3>3 DEF Inv, Grouped
    <2>4. QED
      BY <1>1, <2>1, <2>3 DEF Inv, Grouped
  <1>4. (Waiting /\ Counted /\ AllScheduled /\ Walked /\ NeverFails)'
    BY <1>1 DEF Waiting, Counted, AllScheduled, Walked, NeverFails
  <1>5. Sorted' /\ Emitted'
    BY <1>1 DEF Inv, Sorted, Emitted, EmittedSoFar, GroupFence
  <1>6. QED
    BY <1>1, <1>2, <1>3, <1>4, <1>5 DEF Inv

LEMMA GroupsAssignedInv ==
  ASSUME Inv, GroupsAssigned
  PROVE  Inv'
  <1>1. /\ body \in Bodies /\ phase = "group" /\ phase' = "depend"
        /\ body' = body /\ at' = at /\ at \notin Operations(body)
        /\ at \in 1 .. Len(body.ops) + 1 /\ Len(body.ops) \in Nat
    BY BodyFacts DEF Inv, GroupsAssigned, TypeOK
  <1>2. TypeOK'
    BY <1>1 DEF Inv, TypeOK, GroupsAssigned, Phases
  <1>3. Grouped'
    <2>1. Met = Tasks(body) /\ Met' = Tasks(body)
      BY <1>1, BodyFacts DEF Met
    <2>2. QED
      BY <1>1, <2>1 DEF Inv, Grouped, GroupsAssigned
  <1>4. (Waiting /\ Counted /\ AllScheduled /\ Walked /\ NeverFails)'
    BY <1>1 DEF Waiting, Counted, AllScheduled, Walked, NeverFails
  <1>5. Sorted' /\ Emitted'
    BY <1>1 DEF Inv, Sorted, Emitted, EmittedSoFar, GroupsAssigned
  <1>6. QED
    BY <1>1, <1>2, <1>3, <1>4, <1>5 DEF Inv

LEMMA BuildDependenciesInv ==
  ASSUME Inv, BuildDependencies
  PROVE  Inv'
  <1>1. /\ body \in Bodies /\ phase = "depend" /\ phase' = "schedule"
        /\ body' = body /\ at' = at /\ group' = group
        /\ levelVector = <<>> /\ levelVector' = <<>>
    BY DEF Inv, BuildDependencies, Sorted
  <1>2. \A t \in Tasks(body) :
          /\ deps'[t] = {i \in Tasks(body) : Depends(i, t)}
          /\ inDegree'[t] = Cardinality({i \in Tasks(body) : Depends(i, t)})
    BY DEF BuildDependencies
  <1>3. TypeOK'
    <2>1. \A t \in Tasks(body) : Cardinality({i \in Tasks(body) : Depends(i, t)}) \in Nat
      BY <1>1, FiniteTasks
    <2>2. deps' \in [Tasks(body) -> SUBSET Tasks(body)] /\ inDegree' \in [Tasks(body) -> Nat]
      BY <2>1 DEF BuildDependencies
    <2>3. QED
      BY <1>1, <2>2 DEF Inv, TypeOK, BuildDependencies, Phases
  <1>4. Grouped'
    BY <1>1 DEF Inv, Grouped, Met, BuildDependencies
  <1>5. Waiting'
    BY <1>1, <1>2 DEF Waiting, Depends
  <1>6. Sorted' /\ Counted'
    <2>1. scheduled' = {}
      BY <1>1 DEF scheduled
    <2>2. \A t \in Tasks(body) : inDegree'[t] = Cardinality(deps'[t])
      BY <1>2
    <2>3. \A t \in Tasks(body) : deps'[t] \ {} = deps'[t]
      OBVIOUS
    <2>4. Counted'
      BY <1>1, <2>1, <2>2, <2>3 DEF Counted
    <2>5. Sorted'
      BY <1>1 DEF Sorted
    <2>6. QED
      BY <2>4, <2>5
  <1>7. (AllScheduled /\ Walked /\ NeverFails)'
    BY <1>1 DEF AllScheduled, Walked, NeverFails
  <1>8. Emitted'
    BY <1>1 DEF Inv, Emitted, EmittedSoFar, BuildDependencies
  <1>9. QED
    BY <1>1, <1>3, <1>4, <1>5, <1>6, <1>7, <1>8 DEF Inv

LEMMA ScheduleLevelInv ==
  ASSUME Inv, ScheduleLevel
  PROVE  Inv'
  <1> DEFINE n == Len(levelVector)
  <1>1. /\ body \in Bodies /\ phase = "schedule" /\ phase' = "schedule"
        /\ body' = body /\ at' = at /\ group' = group /\ deps' = deps
        /\ currentLevel # {} /\ currentLevel \subseteq Tasks(body)
        /\ levelVector \in Seq(SUBSET Tasks(body))
        /\ deps \in [Tasks(body) -> SUBSET Tasks(body)]
    BY DEF Inv, TypeOK, ScheduleLevel, currentLevel
  <1>2. /\ n \in Nat /\ DOMAIN levelVector = 1 .. n
        /\ levelVector' \in Seq(SUBSET Tasks(body))
        /\ DOMAIN levelVector' = 1 .. n + 1
        /\ Len(levelVector') = n + 1
        /\ levelVector'[n + 1] = currentLevel
        /\ \A l \in 1 .. n : levelVector'[l] = levelVector[l]
    BY <1>1 DEF ScheduleLevel
  <1>3. /\ scheduled' = scheduled \cup currentLevel
        /\ scheduled \cap currentLevel = {}
    <2>1. scheduled' = UNION {levelVector'[l] : l \in 1 .. n + 1}
      BY <1>2 DEF scheduled
    <2>2. scheduled = UNION {levelVector[l] : l \in 1 .. n}
      BY <1>2 DEF scheduled
    <2>3. QED
      BY <1>2, <2>1, <2>2 DEF currentLevel
  <1>4. \A t \in Tasks(body) :
          inDegree'[t] = Cardinality(deps[t] \ scheduled') /\ inDegree'[t] \in Nat
    <2> TAKE t \in Tasks(body)
    <2> DEFINE left == deps[t] \ scheduled
    <2>1. inDegree[t] = Cardinality(left)
      BY <1>1 DEF Inv, Counted
    <2>2. inDegree'[t] = inDegree[t] - Cardinality(deps[t] \cap currentLevel)
      BY DEF ScheduleLevel
    <2>3. deps[t] \cap currentLevel = left \cap currentLevel
      BY <1>3
    <2>4. deps[t] \ scheduled' = left \ currentLevel
      BY <1>3
    <2>5. IsFiniteSet(left)
      BY <1>1, FiniteTasks
    <2>6. Cardinality(left \ currentLevel)
            = Cardinality(left) - Cardinality(left \cap currentLevel)
      BY <2>5, FS_Difference
    <2>7. Cardinality(left \ currentLevel) \in Nat
      BY <1>1, FiniteTasks
    <2>8. QED
      BY <2>1, <2>2, <2>3, <2>4, <2>6, <2>7
  <1>5. TypeOK'
    <2>1. inDegree' \in [Tasks(body) -> Nat]
      BY <1>4 DEF ScheduleLevel
    <2>2. nextLevelToEmit' \in 1 .. Len(levelVector') + 1
      BY <1>2 DEF Inv, TypeOK, ScheduleLevel
    <2>3. QED
      BY <1>1, <1>2, <2>1, <2>2 DEF Inv, TypeOK, ScheduleLevel, Phases
  <1>6. Grouped' /\ Waiting'
    BY <1>1 DEF Inv, Grouped, Met, ScheduleLevel, Waiting, Depends
  <1>7. Sorted'
    <2>1. \A l \in 1 .. n + 1 : levelVector'[l] # {}
      BY <1>1, <1>2 DEF Inv, Sorted
    <2>2. \A l \in 1 .. n : levelVector'[l] \subseteq scheduled
      BY <1>2 DEF scheduled
    <2>3. ASSUME NEW k \in 1 .. n + 1, NEW l \in 1 .. n + 1, k # l
          PROVE  levelVector'[k] \cap levelVector'[l] = {}
      <3>1. CASE k \in 1 .. n /\ l \in 1 .. n
        BY <1>2, <2>3, <3>1 DEF Inv, Sorted
      <3>2. CASE k = n + 1 \/ l = n + 1
        <4>1. \/ k = n + 1 /\ l \in 1 .. n
              \/ l = n + 1 /\ k \in 1 .. n
          BY <1>2, <2>3, <3>2
        <4>2. QED
          BY <1>2, <1>3, <2>2, <4>1
      <3>3. QED
        BY <1>2, <3>1, <3>2
    <2>4. ASSUME NEW l \in 1 .. n + 1, NEW t \in levelVector'[l], NEW u \in deps[t]
          PROVE  \E k \in 1 .. n + 1 : k < l /\ u \in levelVector'[k]
      <3>1. CASE l \in 1 .. n
        <4>1. PICK k \in DOMAIN levelVector : k < l /\ u \in levelVector[k]
          BY <1>2, <2>4, <3>1 DEF Inv, Sorted, LevelOfEarlier
        <4>2. QED
          BY <1>2, <4>1
      <3>2. CASE l = n + 1
        <4>1. t \in Tasks(body) /\ inDegree[t] = 0
          BY <1>2, <2>4, <3>2 DEF currentLevel
        <4>2. Cardinality(deps[t] \ scheduled) = 0 /\ deps[t] \ scheduled \subseteq Tasks(body)
          BY <1>1, <4>1 DEF Inv, Counted
        <4>3. u \in scheduled
          BY <1>1, <2>4, <4>2, FiniteTasks
        <4>4. PICK k \in 1 .. n : u \in levelVector[k]
          BY <1>2, <4>3 DEF scheduled
        <4>5. QED
          BY <1>2, <3>2, <4>4
      <3>3. QED
        BY <1>2, <3>1, <3>2
    <2>5. QED
      BY <1>1, <1>2, <2>1, <2>3, <2>4 DEF Sorted, LevelOfEarlier
  <1>8. Counted'
    BY <1>1, <1>4 DEF Counted
  <1>9. (AllScheduled /\ Walked /\ NeverFails)'
    BY <1>1 DEF AllScheduled, Walked, NeverFails
  <1>10. Emitted'
    <2>1. nextLevelToEmit = 1 /\ nextLevelToEmit' = 1 /\ emitted' = emitted
      BY <1>1 DEF Inv, Emitted, ScheduleLevel
    <2>2. /\ \A l \in DOMAIN levelVector : ~ (l < 1)
          /\ \A l \in DOMAIN levelVector' : ~ (l < 1)
      BY <1>2
    <2>3. EmittedSoFar = {} /\ EmittedSoFar' = {}
      BY <1>1, <2>1, <2>2 DEF EmittedSoFar
    <2>4. QED
      BY <1>1, <2>1, <2>3 DEF Inv, Emitted
  <1>11. QED
    BY <1>1, <1>5, <1>6, <1>7, <1>8, <1>9, <1>10 DEF Inv

LEMMA LevelsBuiltInv ==
  ASSUME Inv, LevelsBuilt
  PROVE  Inv'
  <1>1. /\ body \in Bodies /\ phase = "schedule" /\ phase' = "walk"
        /\ body' = body /\ at' = 1 /\ group' = group /\ deps' = deps
        /\ levelVector' = levelVector /\ nextLevelToEmit' = 1 /\ nextLevelToEmit = 1
        /\ currentLevel = {}
        /\ deps \in [Tasks(body) -> SUBSET Tasks(body)]
        /\ emitted' = emitted
    BY DEF Inv, TypeOK, LevelsBuilt, Emitted
  <1>2. /\ Len(levelVector) \in Nat /\ DOMAIN levelVector = 1 .. Len(levelVector)
        /\ \A l \in DOMAIN levelVector : levelVector[l] \subseteq Tasks(body)
    BY DEF Inv, TypeOK
  <1>3. scheduled = Tasks(body)
    <2>1. scheduled \subseteq Tasks(body)
      BY <1>2 DEF scheduled
    <2>2. SUFFICES ASSUME Tasks(body) \ scheduled # {} PROVE FALSE
      BY <2>1
    <2>3. PICK t \in Tasks(body) \ scheduled : \A u \in Tasks(body) \ scheduled : t <= u
      BY <1>1, <2>2, FirstTask
    <2>4. deps[t] \ scheduled = {}
      <3>1. \A u \in deps[t] : u \in Tasks(body) /\ u < t
        BY <1>1 DEF Inv, Waiting, Depends
      <3>2. \A u \in Tasks(body) : u \in Nat
        BY <1>1, BodyFacts
      <3>3. QED
        BY <2>3, <3>1, <3>2
    <2>5. inDegree[t] = 0
      BY <1>1, <2>4, FS_EmptySet DEF Inv, Counted
    <2>6. QED
      BY <1>1, <2>3, <2>5 DEF currentLevel
  <1>4. /\ remaining' = [l \in DOMAIN levelVector |-> Cardinality(levelVector[l])]
        /\ \A l \in DOMAIN levelVector : Cardinality(levelVector[l]) \in Nat
    BY <1>1, <1>2, FiniteTasks DEF LevelsBuilt
  <1>5. TypeOK'
    <2>1. remaining' \in Seq(Nat)
      BY <1>2, <1>4
    <2>2. 1 \in 1 .. Len(body.ops) + 1
      BY <1>1, BodyFacts
    <2>3. QED
      BY <1>1, <1>2, <2>1, <2>2 DEF Inv, TypeOK, LevelsBuilt, Phases
  <1>6. Grouped' /\ Waiting'
    BY <1>1 DEF Inv, Grouped, Met, LevelsBuilt, Waiting, Depends
  <1>7. Sorted' /\ Counted' /\ AllScheduled' /\ NeverFails'
    BY <1>1, <1>3 DEF Inv, Sorted, LevelOfEarlier, Counted, AllScheduled, NeverFails, scheduled
  <1>8. Walked'
    <2>1. \A l \in DOMAIN levelVector : Ahead(l)' = levelVector[l]
      <3>1. Position' = 1
        BY <1>1 DEF Position
      <3>2. \A l \in DOMAIN levelVector : \A t \in levelVector[l] : t >= 1
        BY <1>1, <1>2, BodyFacts
      <3>3. QED
        BY <1>1, <3>1, <3>2 DEF Ahead
    <2>2. \A l \in DOMAIN levelVector : ~ (l < 1)
      BY <1>2
    <2>3. QED
      BY <1>1, <1>4, <2>1, <2>2 DEF Walked, Inv, Sorted
  <1>9. Emitted'
    <2>1. \A l \in DOMAIN levelVector : ~ (l < 1)
      BY <1>2
    <2>2. \A k \in Others(body) : ~ (k < 1)
      BY <1>1, BodyFacts
    <2>3. EmittedSoFar = {} /\ EmittedSoFar' = {}
      BY <1>1, <2>1, <2>2 DEF EmittedSoFar
    <2>4. QED
      BY <1>1, <2>3 DEF Inv, Emitted
  <1>10. QED
    BY <1>1, <1>5, <1>6, <1>7, <1>8, <1>9 DEF Inv

(* What the second walk relies on.                                         *)
LEMMA WalkFacts ==
  ASSUME Inv, phase \in {"walk", "release"}
  PROVE  /\ body \in Bodies /\ Len(body.ops) \in Nat
         /\ Tasks(body) \subseteq Nat /\ Others(body) \subseteq Nat /\ at \in Nat
         /\ Len(levelVector) \in Nat /\ DOMAIN levelVector = 1 .. Len(levelVector)
         /\ DOMAIN remaining = DOMAIN levelVector
         /\ nextLevelToEmit \in 1 .. Len(levelVector) + 1
         /\ \A l \in DOMAIN levelVector :
              /\ levelVector[l] \subseteq Tasks(body)
              /\ remaining[l] = Cardinality(Ahead(l))
              /\ IsFiniteSet(Ahead(l))
              /\ remaining[l] \in Nat
              /\ remaining[l] = 0 <=> Ahead(l) = {}
         /\ \A t \in Tasks(body) : \E l \in DOMAIN levelVector : t \in levelVector[l]
         /\ \A k, l \in DOMAIN levelVector : k # l => levelVector[k] \cap levelVector[l] = {}
  <1>1. /\ body \in Bodies /\ Len(body.ops) \in Nat
        /\ Tasks(body) \subseteq Nat /\ Others(body) \subseteq Nat /\ at \in Nat
    BY BodyFacts DEF Inv, TypeOK
  <1>2. /\ Len(levelVector) \in Nat /\ DOMAIN levelVector = 1 .. Len(levelVector)
        /\ DOMAIN remaining = DOMAIN levelVector
        /\ nextLevelToEmit \in 1 .. Len(levelVector) + 1
        /\ \A l \in DOMAIN levelVector : levelVector[l] \subseteq Tasks(body)
    BY DEF Inv, TypeOK, Walked
  <1>3. ASSUME NEW l \in DOMAIN levelVector
        PROVE  /\ remaining[l] = Cardinality(Ahead(l))
               /\ IsFiniteSet(Ahead(l))
               /\ remaining[l] \in Nat
               /\ remaining[l] = 0 <=> Ahead(l) = {}
    <2>1. Ahead(l) \subseteq Tasks(body)
      BY <1>2 DEF Ahead
    <2>2. remaining[l] = Cardinality(Ahead(l))
      BY DEF Inv, Walked
    <2>3. QED
      BY <1>1, <2>1, <2>2, FiniteTasks
  <1>4. \A t \in Tasks(body) : \E l \in DOMAIN levelVector : t \in levelVector[l]
    BY DEF Inv, AllScheduled, scheduled
  <1>5. \A k, l \in DOMAIN levelVector : k # l => levelVector[k] \cap levelVector[l] = {}
    BY DEF Inv, Sorted
  <1>6. QED
    BY <1>1, <1>2, <1>3, <1>4, <1>5

(* A task the second walk meets belongs to one level, which is still to be *)
(* emitted and counts the task.                                            *)
LEMMA VisitedLevel ==
  ASSUME Inv, phase = "walk", at \in Tasks(body)
  PROVE  \E l \in DOMAIN levelVector :
           /\ {k \in LevelsOf(at) : k >= nextLevelToEmit} = {l}
           /\ at \in Ahead(l)
           /\ remaining[l] > 0
  <1>1. PICK l \in DOMAIN levelVector : at \in levelVector[l]
    BY WalkFacts
  <1>2. LevelsOf(at) = {l}
    BY <1>1, WalkFacts DEF LevelsOf
  <1>3. at \in Ahead(l)
    BY <1>1, WalkFacts DEF Ahead, Position
  <1>4. l >= nextLevelToEmit
    BY <1>3, WalkFacts DEF Inv, Walked
  <1>5. remaining[l] > 0
    BY <1>3, WalkFacts
  <1>6. QED
    BY <1>2, <1>3, <1>4, <1>5

LEMMA VisitTaskInv ==
  ASSUME Inv, VisitTask
  PROVE  Inv'
  <1>1. phase = "walk" /\ at \in Tasks(body)
    BY DEF VisitTask, Walking
  <1>2. PICK here \in DOMAIN levelVector :
          /\ {k \in LevelsOf(at) : k >= nextLevelToEmit} = {here}
          /\ at \in Ahead(here)
          /\ remaining[here] > 0
    BY <1>1, VisitedLevel
  <1>3. /\ phase' = "release" /\ at' = at
        /\ remaining' = [l \in DOMAIN remaining |->
                           IF l = here THEN remaining[l] - 1 ELSE remaining[l]]
    <2>1. here \in {here} /\ {here} # {}
      OBVIOUS
    <2>2. ~ \E l \in {here} : remaining[l] = 0
      BY <1>2
    <2>3. \A l \in DOMAIN remaining : (l \in {here} /\ remaining[l] > 0) <=> l = here
      BY <1>2
    <2>4. QED
      BY <1>2, <2>1, <2>2, <2>3 DEF VisitTask
  <1>4. /\ body' = body /\ group' = group /\ deps' = deps /\ levelVector' = levelVector
        /\ nextLevelToEmit' = nextLevelToEmit /\ emitted' = emitted
    BY DEF VisitTask
  <1>5. \A l \in DOMAIN levelVector :
          /\ Ahead(l)' = Ahead(l) \ {at}
          /\ remaining'[l] = Cardinality(Ahead(l) \ {at})
          /\ remaining'[l] \in Nat
    <2> TAKE l \in DOMAIN levelVector
    <2>1. Position = at /\ Position' = at + 1
      BY <1>1, <1>3 DEF Position
    <2>2. \A t \in levelVector[l] : t \in Nat /\ at \in Nat
      BY <1>1, WalkFacts
    <2>3. Ahead(l)' = Ahead(l) \ {at}
      BY <1>4, <2>1, <2>2 DEF Ahead
    <2>4. at \in Ahead(l) <=> l = here
      BY <1>1, <1>2, WalkFacts DEF Ahead
    <2>5. /\ IsFiniteSet(Ahead(l)) /\ remaining[l] = Cardinality(Ahead(l))
          /\ remaining[l] \in Nat /\ l \in DOMAIN remaining
      BY <1>1, WalkFacts
    <2>6. Cardinality(Ahead(l) \ {at})
            = IF at \in Ahead(l) THEN Cardinality(Ahead(l)) - 1 ELSE Cardinality(Ahead(l))
      BY <2>5, FS_RemoveElement
    <2>7. QED
      BY <1>2, <1>3, <2>3, <2>4, <2>5, <2>6
  <1>6. DOMAIN remaining' = DOMAIN levelVector
    BY <1>1, <1>3, WalkFacts
  <1>7. TypeOK'
    <2>1. remaining' \in Seq(Nat)
      <3>1. remaining' \in [1 .. Len(levelVector) -> Nat]
        BY <1>1, <1>3, <1>5, <1>6, WalkFacts
      <3>2. QED
        BY <1>1, <3>1, WalkFacts
    <2>2. QED
      BY <1>3, <1>4, <2>1 DEF Inv, TypeOK, VisitTask, Phases
  <1>8. Grouped' /\ Waiting'
    BY <1>1, <1>3, <1>4 DEF Inv, Grouped, Met, VisitTask, Waiting, Depends
  <1>9. Sorted' /\ Counted' /\ AllScheduled' /\ NeverFails'
    BY <1>1, <1>3, <1>4
       DEF Inv, Sorted, LevelOfEarlier, Counted, AllScheduled, NeverFails, scheduled
  <1>10. Walked'
    <2>1. \A l \in DOMAIN levelVector : l < nextLevelToEmit => Ahead(l)' = {}
      BY <1>1, <1>5 DEF Inv, Walked
    <2>2. QED
      BY <1>1, <1>3, <1>4, <1>5, <1>6, <2>1 DEF Walked
  <1>11. Emitted'
    BY <1>1, <1>3, <1>4 DEF Inv, Emitted, EmittedSoFar
  <1>12. QED
    BY <1>4, <1>7, <1>8, <1>9, <1>10, <1>11 DEF Inv

LEMMA ReleaseLevelInv ==
  ASSUME Inv, ReleaseLevel
  PROVE  Inv'
  <1>1. /\ phase = "release" /\ phase' = "release"
        /\ body' = body /\ at' = at /\ group' = group /\ deps' = deps
        /\ levelVector' = levelVector /\ remaining' = remaining
        /\ nextLevelToEmit \in DOMAIN levelVector /\ remaining[nextLevelToEmit] = 0
        /\ nextLevelToEmit' = nextLevelToEmit + 1
        /\ emitted' = emitted \cup levelVector[nextLevelToEmit]
    BY DEF ReleaseLevel, LevelReady
  <1>2. Ahead(nextLevelToEmit) = {}
    BY <1>1, WalkFacts
  <1>3. \A l \in DOMAIN levelVector : Ahead(l)' = Ahead(l)
    BY <1>1 DEF Ahead, Position
  <1>4. \A l \in DOMAIN levelVector :
          l < nextLevelToEmit + 1 <=> l < nextLevelToEmit \/ l = nextLevelToEmit
    BY <1>1, WalkFacts
  <1>5. TypeOK'
    <2>1. nextLevelToEmit' \in 1 .. Len(levelVector) + 1
      BY <1>1, WalkFacts
    <2>2. emitted' \subseteq Operations(body)
      BY <1>1, WalkFacts, BodyFacts DEF Inv, TypeOK
    <2>3. QED
      BY <1>1, <2>1, <2>2 DEF Inv, TypeOK, ReleaseLevel, Phases
  <1>6. Grouped' /\ Waiting'
    BY <1>1 DEF Inv, Grouped, Met, ReleaseLevel, Waiting, Depends
  <1>7. Sorted' /\ Counted' /\ AllScheduled' /\ NeverFails'
    BY <1>1 DEF Inv, Sorted, LevelOfEarlier, Counted, AllScheduled, NeverFails, scheduled
  <1>8. Walked'
    <2>1. \A l \in DOMAIN levelVector : l < nextLevelToEmit' => Ahead(l)' = {}
      BY <1>1, <1>2, <1>3, <1>4 DEF Inv, Walked
    <2>2. QED
      BY <1>1, <1>3, <2>1 DEF Inv, Walked
  <1>9. Emitted'
    <2>1. EmittedSoFar' = EmittedSoFar \cup levelVector[nextLevelToEmit]
      BY <1>1, <1>4, WalkFacts DEF EmittedSoFar
    <2>2. QED
      BY <1>1, <2>1 DEF Inv, Emitted
  <1>10. QED
    BY <1>1, <1>5, <1>6, <1>7, <1>8, <1>9 DEF Inv

LEMMA ReleaseDoneInv ==
  ASSUME Inv, ReleaseDone
  PROVE  Inv'
  <1>1. /\ phase = "release" /\ phase' = "walk" /\ ~LevelReady
        /\ body' = body /\ at' = at + 1 /\ group' = group /\ deps' = deps
        /\ levelVector' = levelVector /\ remaining' = remaining
        /\ nextLevelToEmit' = nextLevelToEmit /\ emitted' = emitted
    BY DEF ReleaseDone
  <1>2. at \in Tasks(body)
    BY <1>1 DEF Inv, Walked
  <1>3. \A l \in DOMAIN levelVector : Ahead(l)' = Ahead(l)
    BY <1>1 DEF Ahead, Position
  <1>4. nextLevelToEmit \in DOMAIN levelVector => Ahead(nextLevelToEmit) # {}
    BY <1>1, WalkFacts DEF LevelReady
  <1>5. TypeOK'
    <2>1. at + 1 \in 1 .. Len(body.ops) + 1
      BY <1>1, <1>2, WalkFacts, BodyFacts
    <2>2. QED
      BY <1>1, <2>1 DEF Inv, TypeOK, ReleaseDone, Phases
  <1>6. Grouped' /\ Waiting'
    BY <1>1 DEF Inv, Grouped, Met, ReleaseDone, Waiting, Depends
  <1>7. Sorted' /\ Counted' /\ AllScheduled' /\ NeverFails'
    BY <1>1 DEF Inv, Sorted, LevelOfEarlier, Counted, AllScheduled, NeverFails, scheduled
  <1>8. Walked'
    BY <1>1, <1>3, <1>4 DEF Inv, Walked
  <1>9. Emitted'
    <2>1. \A k \in Others(body) : k < at + 1 <=> k < at
      <3>1. \A k \in Others(body) : k # at /\ k \in Nat /\ at \in Nat
        BY <1>1, <1>2, WalkFacts DEF Others
      <3>2. QED
        BY <3>1
    <2>2. EmittedSoFar' = EmittedSoFar
      BY <1>1, <2>1 DEF EmittedSoFar
    <2>3. QED
      BY <1>1, <2>2 DEF Inv, Emitted
  <1>10. QED
    BY <1>1, <1>5, <1>6, <1>7, <1>8, <1>9 DEF Inv

LEMMA EmitInPlaceInv ==
  ASSUME Inv, EmitInPlace
  PROVE  Inv'
  <1>1. /\ phase = "walk" /\ phase' = "walk"
        /\ at \in Others(body) /\ at \in Operations(body)
        /\ body' = body /\ at' = at + 1 /\ group' = group /\ deps' = deps
        /\ levelVector' = levelVector /\ remaining' = remaining
        /\ nextLevelToEmit' = nextLevelToEmit /\ emitted' = emitted \cup {at}
    BY DEF EmitInPlace, Walking
  <1>2. \A l \in DOMAIN levelVector : Ahead(l)' = Ahead(l)
    <2>1. \A t \in Tasks(body) : t >= at + 1 <=> t >= at
      <3>1. \A t \in Tasks(body) : t # at /\ t \in Nat /\ at \in Nat
        BY <1>1, WalkFacts DEF Others
      <3>2. QED
        BY <3>1
    <2>2. Position = at /\ Position' = at + 1
      BY <1>1 DEF Position
    <2>3. QED
      BY <1>1, <2>1, <2>2, WalkFacts DEF Ahead
  <1>3. TypeOK'
    <2>1. at + 1 \in 1 .. Len(body.ops) + 1
      BY <1>1, WalkFacts, BodyFacts
    <2>2. QED
      BY <1>1, <2>1 DEF Inv, TypeOK, EmitInPlace, Phases
  <1>4. Grouped' /\ Waiting'
    BY <1>1 DEF Inv, Grouped, Met, EmitInPlace, Waiting, Depends
  <1>5. Sorted' /\ Counted' /\ AllScheduled' /\ NeverFails'
    BY <1>1 DEF Inv, Sorted, LevelOfEarlier, Counted, AllScheduled, NeverFails, scheduled
  <1>6. Walked'
    BY <1>1, <1>2 DEF Inv, Walked
  <1>7. Emitted'
    <2>1. \A k \in Others(body) : k < at + 1 <=> k < at \/ k = at
      BY <1>1, WalkFacts
    <2>2. EmittedSoFar' = EmittedSoFar \cup {at}
      BY <1>1, <2>1 DEF EmittedSoFar
    <2>3. QED
      BY <1>1, <2>2 DEF Inv, Emitted
  <1>8. QED
    BY <1>1, <1>3, <1>4, <1>5, <1>6, <1>7 DEF Inv

LEMMA ReturnInv ==
  ASSUME Inv, Return
  PROVE  Inv'
  <1>1. /\ phase = "walk" /\ at \notin Operations(body)
        /\ phase' = IF nextLevelToEmit = Len(levelVector) + 1 THEN "done" ELSE "failed"
        /\ body' = body /\ at' = at /\ group' = group /\ deps' = deps
        /\ levelVector' = levelVector /\ remaining' = remaining
        /\ nextLevelToEmit' = nextLevelToEmit /\ emitted' = emitted
    BY DEF Return
  <1>2. at > Len(body.ops)
    BY <1>1, WalkFacts, BodyFacts DEF Inv, TypeOK
  <1>3. \A l \in DOMAIN levelVector : Ahead(l) = {}
    <2>1. \A t \in Tasks(body) : t <= Len(body.ops) /\ t \in Nat
      BY <1>1, WalkFacts, BodyFacts
    <2>2. \A t \in Tasks(body) : ~ (t >= at)
      BY <1>1, <1>2, <2>1, WalkFacts
    <2>3. Position = at
      BY <1>1 DEF Position
    <2>4. QED
      BY <1>1, <2>2, <2>3, WalkFacts DEF Ahead
  <1>4. nextLevelToEmit \notin DOMAIN levelVector
    BY <1>1, <1>3 DEF Inv, Walked
  <1>5. phase' = "done"
    BY <1>1, <1>4, WalkFacts
  <1>6. \A l \in DOMAIN levelVector : Ahead(l)' = Ahead(l)
    BY <1>1, <1>5 DEF Ahead, Position
  <1>7. TypeOK'
    BY <1>1, <1>5 DEF Inv, TypeOK, Return, Phases
  <1>8. Grouped' /\ Waiting'
    BY <1>1, <1>5 DEF Inv, Grouped, Met, Return, Waiting, Depends
  <1>9. Sorted' /\ Counted' /\ AllScheduled' /\ NeverFails'
    BY <1>1, <1>5 DEF Inv, Sorted, LevelOfEarlier, Counted, AllScheduled, NeverFails, scheduled
  <1>10. Walked'
    BY <1>1, <1>5, <1>6 DEF Inv, Walked
  <1>11. Emitted'
    <2>1. EmittedSoFar' = EmittedSoFar
      BY <1>1, <1>5 DEF EmittedSoFar
    <2>2. QED
      BY <1>1, <1>5, <2>1 DEF Inv, Emitted
  <1>12. QED
    BY <1>1, <1>7, <1>8, <1>9, <1>10, <1>11 DEF Inv

LEMMA StutterInv ==
  ASSUME Inv, UNCHANGED vars
  PROVE  Inv'
  <1> USE DEF vars
  <1>1. TypeOK' /\ NeverFails'
    BY DEF Inv, TypeOK, NeverFails
  <1>2. Grouped' /\ Waiting'
    BY DEF Inv, Grouped, Met, Waiting, Depends
  <1>3. Sorted' /\ Counted' /\ AllScheduled'
    BY DEF Inv, Sorted, LevelOfEarlier, Counted, AllScheduled, scheduled
  <1>4. Walked' /\ Emitted'
    BY DEF Inv, Walked, Ahead, Position, Emitted, EmittedSoFar
  <1>5. QED
    BY <1>1, <1>2, <1>3, <1>4 DEF Inv

LEMMA StepInv == Inv /\ [Next]_vars => Inv'
  <1> SUFFICES ASSUME Inv, [Next]_vars PROVE Inv'
    OBVIOUS
  <1>1. CASE GroupTask
    BY <1>1, GroupTaskInv
  <1>2. CASE GroupFence
    BY <1>2, GroupFenceInv
  <1>3. CASE GroupsAssigned
    BY <1>3, GroupsAssignedInv
  <1>4. CASE BuildDependencies
    BY <1>4, BuildDependenciesInv
  <1>5. CASE ScheduleLevel
    BY <1>5, ScheduleLevelInv
  <1>6. CASE LevelsBuilt
    BY <1>6, LevelsBuiltInv
  <1>7. CASE VisitTask
    BY <1>7, VisitTaskInv
  <1>8. CASE ReleaseLevel
    BY <1>8, ReleaseLevelInv
  <1>9. CASE ReleaseDone
    BY <1>9, ReleaseDoneInv
  <1>10. CASE EmitInPlace
    BY <1>10, EmitInPlaceInv
  <1>11. CASE Return
    BY <1>11, ReturnInv
  <1>12. CASE Ended \/ UNCHANGED vars
    BY <1>12, StutterInv DEF Ended
  <1>13. QED
    BY <1>1, <1>2, <1>3, <1>4, <1>5, <1>6, <1>7, <1>8, <1>9, <1>10, <1>11, <1>12
       DEF Next, Step

-----------------------------------------------------------------------------
(* In-degrees and level counters never drop below zero, and the two        *)
(* walks and the sort stay within their tables (depGraph.h:539,            *)
(* dhirtompi.h:891), for every body.                                       *)
THEOREM TypeCorrect == Spec => []TypeOK
  <1>1. Inv => TypeOK
    BY DEF Inv
  <1>2. QED
    BY InitInv, StepInv, <1>1, PTL DEF Spec

(* No task is visited twice and no level is left behind: the lowering      *)
(* never reports the errors of dhirtompi.h:887-890 and 944-947.            *)
THEOREM ErrorPathsUnreachable == Spec => []NeverFails
  <1>1. Inv => NeverFails
    BY DEF Inv
  <1>2. QED
    BY InitInv, StepInv, <1>1, PTL DEF Spec

-----------------------------------------------------------------------------
(* While levels go out, the task being visited belongs to one of them.     *)
Timely ==
  phase = "release" =>
    \/ LevelOfEarlier(at, nextLevelToEmit)
    \/ LevelReady => at \in levelVector[nextLevelToEmit]

LEMMA TimelyInvariant == Spec => []Timely
  <1>1. Init => Timely
    BY DEF Init, Timely
  <1>2. ASSUME Inv, Inv', Timely, [Next]_vars PROVE Timely'
    <2>1. CASE VisitTask
      <3>1. /\ phase = "walk" /\ at' = at /\ levelVector' = levelVector
            /\ nextLevelToEmit' = nextLevelToEmit
        <4>1. phase = "walk" /\ at \in Tasks(body)
          BY <2>1 DEF VisitTask, Walking
        <4>2. PICK here \in DOMAIN levelVector :
                {k \in LevelsOf(at) : k >= nextLevelToEmit} = {here}
          BY <1>2, <4>1, VisitedLevel
        <4>3. QED
          BY <2>1, <4>1, <4>2 DEF VisitTask
      <3>2. ASSUME phase' = "release", nextLevelToEmit \in DOMAIN levelVector,
                   remaining'[nextLevelToEmit] = 0
            PROVE  at \in levelVector[nextLevelToEmit]
        <4>1. PICK t \in Ahead(nextLevelToEmit) : TRUE
          BY <1>2, <3>1, <3>2 DEF Inv, Walked
        <4>2. t \in levelVector[nextLevelToEmit] /\ t >= at /\ t \in Nat /\ at \in Nat
          BY <1>2, <3>1, <3>2, <4>1, WalkFacts DEF Ahead, Position
        <4>3. Ahead(nextLevelToEmit)' = {}
          <5>1. remaining'[nextLevelToEmit] = Cardinality(Ahead(nextLevelToEmit)')
            BY <1>2, <3>1, <3>2 DEF Inv, Walked
          <5>2. Ahead(nextLevelToEmit)' \subseteq Tasks(body)
            BY <1>2, <3>1, <3>2, WalkFacts DEF Ahead
          <5>3. QED
            BY <1>2, <3>1, <3>2, <5>1, <5>2, FiniteTasks, WalkFacts
        <4>4. Position' = at + 1
          BY <3>1, <3>2 DEF Position
        <4>5. ~ (t >= at + 1)
          BY <3>1, <4>2, <4>3, <4>4 DEF Ahead
        <4>6. QED
          BY <4>2, <4>5
      <3>3. QED
        BY <3>1, <3>2 DEF Timely, LevelReady
    <2>2. CASE ReleaseLevel
      <3>1. at \in levelVector[nextLevelToEmit] \/ LevelOfEarlier(at, nextLevelToEmit)
        BY <1>2, <2>2 DEF Timely, ReleaseLevel
      <3>2. /\ phase = "release" /\ at' = at /\ levelVector' = levelVector
            /\ nextLevelToEmit \in DOMAIN levelVector
            /\ nextLevelToEmit' = nextLevelToEmit + 1
        BY <2>2 DEF ReleaseLevel, LevelReady
      <3>3. \A k \in DOMAIN levelVector : k <= nextLevelToEmit => k < nextLevelToEmit + 1
        BY <1>2, <3>2, WalkFacts
      <3>4. PICK k \in DOMAIN levelVector : k <= nextLevelToEmit /\ at \in levelVector[k]
        BY <1>2, <3>1, <3>2, WalkFacts DEF LevelOfEarlier
      <3>5. QED
        BY <3>2, <3>3, <3>4 DEF Timely, LevelOfEarlier
    <2>3. CASE GroupTask \/ GroupFence \/ EmitInPlace
      <3>1. phase # "release" /\ phase' = phase
        BY <2>3 DEF GroupTask, GroupFence, EmitInPlace, Walking
      <3>2. QED
        BY <3>1 DEF Timely
    <2>4. CASE \/ GroupsAssigned \/ BuildDependencies \/ ScheduleLevel
               \/ LevelsBuilt \/ ReleaseDone \/ Return
      <3>1. phase' # "release"
        BY <2>4 DEF GroupsAssigned, BuildDependencies, ScheduleLevel, LevelsBuilt,
                    ReleaseDone, Return
      <3>2. QED
        BY <3>1 DEF Timely
    <2>5. CASE Ended \/ UNCHANGED vars
      BY <1>2, <2>5 DEF Ended, vars, Timely, LevelOfEarlier, LevelReady
    <2>6. QED
      BY <1>2, <2>1, <2>2, <2>3, <2>4, <2>5 DEF Next, Step
  <1>3. QED
    BY InitInv, StepInv, <1>1, <1>2, PTL DEF Spec

(* Only ReleaseLevel moves on to the next level.                           *)
LEMMA OthersKeepLevel ==
  ASSUME Next \/ UNCHANGED vars, ~ReleaseLevel
  PROVE  nextLevelToEmit' = nextLevelToEmit
  BY DEF Next, Step, Ended, vars, GroupTask, GroupFence, GroupsAssigned,
         BuildDependencies, ScheduleLevel, LevelsBuilt, VisitTask, ReleaseDone,
         EmitInPlace, Return

(* A level is released at the last task of it and of all levels before,    *)
(* neither earlier nor later (dhirtompi.h:893-904), for every body.        *)
THEOREM LevelsGoOutInTime == Spec => ReleasedWhenReady
  <1> DEFINE out == UNION {levelVector[l] : l \in 1 .. nextLevelToEmit}
  <1>1. ASSUME Inv, Timely, [Next]_vars, nextLevelToEmit' # nextLevelToEmit
        PROVE  at \in out /\ \A t \in out : t <= at
    <2>1. ReleaseLevel
      BY <1>1, OthersKeepLevel
    <2>2. phase = "release" /\ LevelReady
      BY <2>1 DEF ReleaseLevel
    <2>3. nextLevelToEmit \in DOMAIN levelVector /\ remaining[nextLevelToEmit] = 0
      BY <2>2 DEF LevelReady
    <2>4. \A l \in DOMAIN levelVector :
            l \in 1 .. nextLevelToEmit <=> l < nextLevelToEmit \/ l = nextLevelToEmit
      BY <1>1, <2>2, <2>3, WalkFacts
    <2>5. 1 .. nextLevelToEmit \subseteq DOMAIN levelVector
      BY <1>1, <2>2, <2>3, WalkFacts
    <2>6. at \in out
      BY <1>1, <2>2, <2>3, <2>4 DEF Timely, LevelOfEarlier
    <2>7. \A l \in 1 .. nextLevelToEmit : Ahead(l) = {}
      BY <1>1, <2>2, <2>3, <2>4, <2>5, WalkFacts DEF Inv, Walked
    <2>8. ASSUME NEW t \in out PROVE t <= at
      <3>1. PICK l \in 1 .. nextLevelToEmit : t \in levelVector[l]
        BY <2>8
      <3>2. t \in Nat /\ at \in Nat
        BY <1>1, <2>2, <2>5, <3>1, WalkFacts
      <3>3. ~ (t >= at + 1)
        BY <2>2, <2>7, <3>1 DEF Ahead, Position
      <3>4. QED
        BY <3>2, <3>3
    <2>9. QED
      BY <2>6, <2>8
  <1>2. QED
    BY InitInv, StepInv, TimelyInvariant, <1>1, PTL DEF Spec, ReleasedWhenReady

-----------------------------------------------------------------------------
LEMMA OrderedMeaning ==
  ASSUME NEW b, NEW i, NEW j
  PROVE  Order!Ordered(b, i, j) <=>
           /\ i < j
           /\ i \in Tasks(b) => /\ j \notin Setups(b)
                                /\ j \in Tasks(b) => Fenced(b, i, j) \/ Conflicting(b, i, j)
  BY DEF Order!Ordered, Order!Tasks, Order!Setups, Order!Fenced, Order!Fences,
         Order!Conflicting, Order!Operations,
         Tasks, Setups, Fenced, Fences, Conflicting, Operations

(* A task waits for every task ordered before it.                          *)
LEMMA OrderedTasksWait ==
  ASSUME Inv, phase \in {"walk", "release"},
         NEW t \in Tasks(body), NEW u \in Tasks(body), u < t,
         Fenced(body, u, t) \/ Conflicting(body, u, t)
  PROVE  u \in deps[t]
  <1>1. Met = Tasks(body)
    BY DEF Met
  <1>2. Fenced(body, u, t) => group[u] # group[t]
    BY <1>1 DEF Inv, Grouped
  <1>3. Depends(u, t)
    BY <1>2 DEF Depends
  <1>4. QED
    BY <1>3 DEF Inv, Waiting

LEMMA ReleaseLevelEmits ==
  ASSUME Inv, ReleaseLevel
  PROVE  Order!Emit
  <1> DEFINE level == levelVector[nextLevelToEmit]
  <1>1. /\ phase = "release" /\ body' = body
        /\ nextLevelToEmit \in DOMAIN levelVector /\ remaining[nextLevelToEmit] = 0
        /\ emitted' = emitted \cup level
    BY DEF ReleaseLevel, LevelReady
  <1>2. level \subseteq Tasks(body) /\ Ahead(nextLevelToEmit) = {} /\ emitted = EmittedSoFar
    BY <1>1, WalkFacts DEF Inv, Emitted
  <1>3. level \subseteq Operations(body) \ emitted
    <2>1. level \subseteq Operations(body)
      BY <1>1, <1>2, WalkFacts, BodyFacts
    <2>2. ASSUME NEW t \in level PROVE t \notin EmittedSoFar
      <3>1. ~ \E l \in DOMAIN levelVector : l < nextLevelToEmit /\ t \in levelVector[l]
        BY <1>1, <2>2, WalkFacts
      <3>2. t \notin Others(body)
        BY <1>2, <2>2 DEF Others
      <3>3. QED
        BY <3>1, <3>2 DEF EmittedSoFar
    <2>3. QED
      BY <1>2, <2>1, <2>2
  <1>4. ASSUME NEW t \in level, NEW u \in Operations(body), Order!Ordered(body, u, t)
        PROVE  u \in emitted
    <2>1. /\ t \in Tasks(body) /\ u < t
          /\ u \in Tasks(body) => Fenced(body, u, t) \/ Conflicting(body, u, t)
      BY <1>2, <1>4, OrderedMeaning
    <2>2. CASE u \in Tasks(body)
      <3>1. u \in deps[t]
        BY <1>1, <2>1, <2>2, OrderedTasksWait
      <3>2. LevelOfEarlier(u, nextLevelToEmit)
        BY <1>1, <1>4, <3>1 DEF Inv, Sorted
      <3>3. QED
        BY <1>2, <2>2, <3>2 DEF LevelOfEarlier, EmittedSoFar
    <2>3. CASE u \notin Tasks(body)
      <3>1. u \in Others(body) /\ u \in Nat /\ t \in Nat /\ at \in Nat
        BY <1>1, <1>4, <2>1, <2>3, WalkFacts DEF Others
      <3>2. ~ (t >= at + 1)
        BY <1>1, <1>2, <1>4 DEF Ahead, Position
      <3>3. u < at
        BY <2>1, <3>1, <3>2
      <3>4. QED
        BY <1>1, <1>2, <3>1, <3>3 DEF EmittedSoFar
    <2>4. QED
      BY <2>2, <2>3
  <1>5. \A t \in level : Order!Ready(t)
    BY <1>4 DEF Order!Ready, Order!Operations, Operations
  <1>6. QED
    BY <1>1, <1>3, <1>5 DEF Order!Emit, Order!Operations, Operations

LEMMA EmitInPlaceEmits ==
  ASSUME Inv, EmitInPlace
  PROVE  Order!Emit
  <1>1. /\ phase = "walk" /\ body' = body
        /\ at \in Others(body) /\ at \in Operations(body) /\ at \notin Tasks(body)
        /\ emitted' = emitted \cup {at}
    BY DEF EmitInPlace, Walking, Others
  <1>2. emitted = EmittedSoFar
    BY DEF Inv, Emitted
  <1>3. {at} \subseteq Operations(body) \ emitted
    <2>1. ~ (at < at)
      BY <1>1, WalkFacts
    <2>2. QED
      BY <1>1, <1>2, <2>1 DEF EmittedSoFar
  <1>4. ASSUME NEW u \in Operations(body), Order!Ordered(body, u, at)
        PROVE  u \in emitted
    <2>1. u < at /\ (u \in Tasks(body) => at \notin Setups(body))
      BY <1>4, OrderedMeaning
    <2>2. CASE u \in Tasks(body)
      <3>1. at \in Fences(body)
        BY <1>1, <2>1, <2>2 DEF Fences
      <3>2. PICK l \in DOMAIN levelVector : u \in levelVector[l]
        BY <1>1, <2>2, WalkFacts
      <3>3. SUFFICES ASSUME ~ (l < nextLevelToEmit) PROVE FALSE
        BY <1>2, <2>2, <3>2 DEF EmittedSoFar
      <3>4. nextLevelToEmit \in DOMAIN levelVector
        BY <1>1, <3>2, <3>3, WalkFacts
      <3>5. PICK t \in Ahead(nextLevelToEmit) : TRUE
        BY <1>1, <3>4 DEF Inv, Walked
      <3>6. t \in levelVector[nextLevelToEmit] /\ t \in Tasks(body) /\ t >= at
        BY <1>1, <3>4, <3>5, WalkFacts DEF Ahead, Position
      <3>7. at < t /\ u < t
        BY <1>1, <2>1, <2>2, <3>6, WalkFacts
      <3>8. Fenced(body, u, t)
        BY <2>1, <3>1, <3>7 DEF Fenced
      <3>9. u \in deps[t]
        BY <1>1, <2>2, <3>6, <3>7, <3>8, OrderedTasksWait
      <3>10. PICK k \in DOMAIN levelVector : k < nextLevelToEmit /\ u \in levelVector[k]
        BY <3>4, <3>6, <3>9 DEF Inv, Sorted, LevelOfEarlier
      <3>11. k = l
        BY <1>1, <3>2, <3>10, WalkFacts
      <3>12. QED
        BY <3>3, <3>10, <3>11
    <2>3. CASE u \notin Tasks(body)
      BY <1>1, <1>2, <1>4, <2>1, <2>3 DEF EmittedSoFar, Others
    <2>4. QED
      BY <2>2, <2>3
  <1>5. \A i \in {at} : Order!Ready(i)
    BY <1>4 DEF Order!Ready, Order!Operations, Operations
  <1>6. {at} \in SUBSET (Order!Operations(body) \ emitted)
    BY <1>3 DEF Order!Operations, Operations
  <1>7. emitted' = emitted \cup {at} /\ UNCHANGED body
    BY <1>1
  <1>8. QED
    BY <1>5, <1>6, <1>7, Zenon DEF Order!Emit

(* Whatever the fences, conflicts and shards of a body, every step of the  *)
(* lowering emits a group of operations of which each comes after all that *)
(* the source orders before it (depGraph.h:321-376, 488-557;               *)
(* dhirtompi.h:871-948).                                                   *)
THEOREM RefinesProgramOrder == Spec => Order!Safety
  <1>1. Init => Order!Init
    BY DEF Init, Order!Init
  <1>2. ASSUME Inv, [Next]_vars PROVE [Order!Emit]_(Order!vars)
    <2>1. CASE ReleaseLevel
      BY <1>2, <2>1, ReleaseLevelEmits
    <2>2. CASE EmitInPlace
      BY <1>2, <2>2, EmitInPlaceEmits
    <2>3. CASE ~ReleaseLevel /\ ~EmitInPlace
      <3>1. body' = body /\ emitted' = emitted
        BY <1>2, <2>3 DEF Next, Step, Ended, vars, GroupTask, GroupFence, GroupsAssigned,
             BuildDependencies, ScheduleLevel, LevelsBuilt, VisitTask, ReleaseDone, Return
      <3>2. QED
        BY <3>1 DEF Order!vars
    <2>4. QED
      BY <2>1, <2>2, <2>3
  <1>3. QED
    BY InitInv, StepInv, <1>1, <1>2, PTL DEF Spec, Order!Safety

-----------------------------------------------------------------------------
(* The levels are as early as they can be: a task is kept waiting by one   *)
(* of the level just before its own.                                       *)
Early ==
  /\ \A l \in DOMAIN levelVector : l > 1 =>
       \A t \in levelVector[l] : \E u \in deps[t] : u \in levelVector[l - 1]
  /\ phase = "schedule" /\ Len(levelVector) > 0 =>
       \A t \in Tasks(body) \ scheduled :
         \E u \in deps[t] : \A l \in DOMAIN levelVector : l < Len(levelVector) => u \notin levelVector[l]

LEMMA ScheduleLevelEarly ==
  ASSUME Inv, Early, ScheduleLevel
  PROVE  Early'
  <1> DEFINE n == Len(levelVector)
  <1>1. /\ body \in Bodies /\ phase = "schedule" /\ phase' = "schedule"
        /\ body' = body /\ deps' = deps /\ currentLevel \subseteq Tasks(body)
        /\ levelVector \in Seq(SUBSET Tasks(body))
        /\ deps \in [Tasks(body) -> SUBSET Tasks(body)]
    BY DEF Inv, TypeOK, ScheduleLevel, currentLevel
  <1>2. /\ n \in Nat /\ DOMAIN levelVector = 1 .. n
        /\ DOMAIN levelVector' = 1 .. n + 1 /\ Len(levelVector') = n + 1
        /\ levelVector'[n + 1] = currentLevel
        /\ \A l \in 1 .. n : levelVector'[l] = levelVector[l]
    BY <1>1 DEF ScheduleLevel
  <1>3. scheduled = UNION {levelVector[l] : l \in 1 .. n}
    BY <1>2 DEF scheduled
  <1>4. scheduled' = scheduled \cup currentLevel
    <2>1. scheduled' = UNION {levelVector'[l] : l \in 1 .. n + 1}
      BY <1>2 DEF scheduled
    <2>2. 1 .. n + 1 = (1 .. n) \cup {n + 1}
      BY <1>2
    <2>3. QED
      BY <1>2, <1>3, <2>1, <2>2
  <1>5. \A t \in Tasks(body) \ scheduled : inDegree[t] = 0 <=> deps[t] \subseteq scheduled
    <2> TAKE t \in Tasks(body) \ scheduled
    <2>1. inDegree[t] = Cardinality(deps[t] \ scheduled) /\ deps[t] \ scheduled \subseteq Tasks(body)
      BY <1>1 DEF Inv, Counted
    <2>2. QED
      BY <1>1, <2>1, FiniteTasks
  <1>6. ASSUME NEW l \in 1 .. n + 1, l > 1, NEW t \in levelVector'[l]
        PROVE  \E u \in deps[t] : u \in levelVector'[l - 1]
    <2>1. CASE l \in 1 .. n
      <3>1. l - 1 \in 1 .. n
        BY <1>2, <1>6, <2>1
      <3>2. QED
        BY <1>2, <1>6, <2>1, <3>1 DEF Early
    <2>2. CASE l = n + 1
      <3>1. t \in Tasks(body) \ scheduled /\ deps[t] \subseteq scheduled /\ n > 0
        BY <1>2, <1>5, <1>6, <2>2 DEF currentLevel
      <3>2. PICK u \in deps[t] : \A k \in 1 .. n : k < n => u \notin levelVector[k]
        BY <1>1, <1>2, <3>1 DEF Early
      <3>3. PICK k \in 1 .. n : u \in levelVector[k]
        BY <1>3, <3>1
      <3>4. k = n /\ l - 1 = n
        <4>1. ~ (k < n) /\ n \in Nat
          BY <1>2, <3>2, <3>3
        <4> HIDE DEF n
        <4>2. QED
          BY <2>2, <4>1
      <3>5. levelVector'[n] = levelVector[n]
        BY <1>2, <3>1
      <3>6. u \in levelVector'[l - 1]
        BY <3>3, <3>4, <3>5
      <3>7. QED
        BY <3>6
    <2>3. QED
      BY <1>2, <2>1, <2>2
  <1>7. ASSUME NEW t \in Tasks(body) \ scheduled'
        PROVE  \E u \in deps[t] : \A l \in 1 .. n + 1 : l < n + 1 => u \notin levelVector'[l]
    <2>1. t \in Tasks(body) \ scheduled /\ t \notin currentLevel
      BY <1>4, <1>7
    <2>2. PICK u \in deps[t] : u \notin scheduled
      BY <1>5, <2>1 DEF currentLevel
    <2>3. \A l \in 1 .. n + 1 : l < n + 1 => l \in 1 .. n
      BY <1>2
    <2>4. QED
      BY <1>2, <1>3, <2>2, <2>3
  <1>8. QED
    BY <1>1, <1>2, <1>6, <1>7 DEF Early

LEMMA EarlyInvariant == Spec => []Early
  <1>1. Init => Early
    BY DEF Init, Early
  <1>2. ASSUME Inv, Early, [Next]_vars PROVE Early'
    <2>1. CASE ScheduleLevel
      BY <1>2, <2>1, ScheduleLevelEarly
    <2>2. CASE BuildDependencies
      BY <1>2, <2>2 DEF BuildDependencies, Inv, Sorted, Early
    <2>3. CASE GroupTask \/ GroupFence \/ GroupsAssigned
      <3>1. phase' # "schedule" /\ levelVector' = levelVector /\ levelVector = <<>>
        BY <1>2, <2>3 DEF GroupTask, GroupFence, GroupsAssigned, Walking, Inv, Sorted
      <3>2. QED
        BY <3>1 DEF Early
    <2>4. CASE LevelsBuilt \/ VisitTask \/ ReleaseLevel \/ ReleaseDone \/ EmitInPlace \/ Return
      <3>1. phase' # "schedule" /\ UNCHANGED <<levelVector, deps>>
        BY <2>4 DEF LevelsBuilt, VisitTask, ReleaseLevel, ReleaseDone, EmitInPlace, Return, Walking
      <3>2. QED
        BY <1>2, <3>1 DEF Early
    <2>5. CASE Ended \/ UNCHANGED vars
      BY <1>2, <2>5 DEF Ended, vars, Early, scheduled
    <2>6. QED
      BY <1>2, <2>1, <2>2, <2>3, <2>4, <2>5 DEF Next, Step
  <1>3. QED
    BY InitInv, StepInv, <1>1, <1>2, PTL DEF Spec

-----------------------------------------------------------------------------
(* Both recursive definitions of the closed form have solutions: of the    *)
(* lengths without one there would be a least.                             *)
LEMMA LeastNumber ==
  ASSUME NEW S \in SUBSET Nat, S # {}
  PROVE  \E x \in S : \A y \in S : x <= y
  <1>1. PICK x \in S : \A y \in S : ~ (<<y, x>> \in OpToRel(<, Nat))
    BY NatLessThanWellFounded, WFMin
  <1>2. OpToRel(<, Nat) = {p \in Nat \X Nat : p[1] < p[2]}
    BY DEF OpToRel
  <1>3. ASSUME NEW y \in S PROVE x <= y
    <2>1. ~ (<<y, x>> \in {p \in Nat \X Nat : p[1] < p[2]})
      BY <1>1, <1>2, Zenon
    <2>2. QED
      BY <2>1
  <1>4. QED
    BY <1>3

Listed(before, b, n) == IF n \in Tasks(b) THEN Append(before, n) ELSE before

Listing(met, b, m) ==
  met = [n \in 0 .. m |-> IF n = 0 THEN <<>> ELSE Listed(met[n - 1], b, n)]

LEMMA ListingExists ==
  ASSUME NEW b, NEW m \in Nat
  PROVE  \E met : Listing(met, b, m)
  <1> DEFINE bad == {n \in Nat : ~ \E met : Listing(met, b, n)}
  <1> SUFFICES ASSUME bad # {} PROVE FALSE
    OBVIOUS
  <1>1. PICK k \in bad : \A y \in bad : k <= y
    <2>1. bad \in SUBSET Nat
      OBVIOUS
    <2> HIDE DEF bad
    <2>2. QED
      BY <2>1, LeastNumber
  <1>2. k # 0
    <2>1. Listing([n \in 0 .. 0 |-> <<>>], b, 0)
      BY DEF Listing
    <2>2. QED
      BY <2>1
  <1>3. k - 1 \in Nat /\ k - 1 \notin bad
    BY <1>1, <1>2
  <1>4. PICK met : Listing(met, b, k - 1)
    BY <1>3
  <1> DEFINE more == [n \in 0 .. k |-> IF n = k THEN Listed(met[k - 1], b, k) ELSE met[n]]
  <1>5. ASSUME NEW n \in 0 .. k
        PROVE  more[n] = IF n = 0 THEN <<>> ELSE Listed(more[n - 1], b, n)
    <2>1. n # 0 => n - 1 \in 0 .. k /\ n - 1 # k
      BY <1>3
    <2>2. n # 0 => more[n - 1] = met[n - 1]
      BY <2>1
    <2>3. CASE n = k
      BY <1>2, <2>2, <2>3
    <2>4. CASE n # k
      <3>1. n \in 0 .. k - 1
        BY <1>3, <2>4
      <3>2. met[n] = IF n = 0 THEN <<>> ELSE Listed(met[n - 1], b, n)
        BY <1>4, <3>1 DEF Listing
      <3>3. QED
        BY <2>2, <2>4, <3>2
    <2>5. QED
      BY <2>3, <2>4
  <1>6. Listing(more, b, k)
    <2>1. more = [n \in 0 .. k |-> more[n]]
      OBVIOUS
    <2> HIDE DEF more
    <2>2. QED
      BY <1>5, <2>1 DEF Listing
  <1>7. QED
    BY <1>1, <1>6

(* A list of the tasks up to the n-th operation, in program order.         *)
Lists(s, b, n) ==
  /\ s \in Seq(Tasks(b))
  /\ \A j \in 1 .. Len(s) : s[j] <= n
  /\ \A j, k \in 1 .. Len(s) : j < k => s[j] < s[k]
  /\ \A t \in Tasks(b) : t <= n => \E j \in 1 .. Len(s) : s[j] = t

LEMMA ListedLists ==
  ASSUME NEW b \in Bodies, NEW s, NEW n \in 1 .. Len(b.ops), Lists(s, b, n - 1)
  PROVE  Lists(Listed(s, b, n), b, n)
  <1>1. Len(b.ops) \in Nat /\ Tasks(b) \subseteq Nat /\ n \in Nat
    BY BodyFacts
  <1>2. s \in Seq(Tasks(b)) /\ Len(s) \in Nat
    BY DEF Lists
  <1>3. \A t \in Tasks(b) : t <= n <=> t <= n - 1 \/ t = n
    BY <1>1
  <1>4. CASE n \notin Tasks(b)
    <2>1. \A j \in 1 .. Len(s) : s[j] \in Tasks(b) /\ s[j] <= n - 1
      BY <1>2 DEF Lists
    <2>2. \A j \in 1 .. Len(s) : s[j] <= n
      BY <1>3, <2>1
    <2>3. \A t \in Tasks(b) : t <= n => t <= n - 1
      BY <1>3, <1>4
    <2>4. QED
      BY <1>4, <2>2, <2>3 DEF Listed, Lists
  <1>5. CASE n \in Tasks(b)
    <2> DEFINE r == Append(s, n)
    <2>1. /\ r \in Seq(Tasks(b)) /\ Len(r) = Len(s) + 1 /\ r[Len(s) + 1] = n
          /\ \A j \in 1 .. Len(s) : r[j] = s[j]
      BY <1>2, <1>5
    <2>2. 1 .. Len(r) = (1 .. Len(s)) \cup {Len(s) + 1}
      BY <1>2, <2>1
    <2>3. \A j \in 1 .. Len(s) : s[j] \in Nat /\ s[j] <= n - 1
      BY <1>1, <1>2 DEF Lists
    <2>4. \A j \in 1 .. Len(s) : s[j] < n /\ s[j] <= n
      BY <1>1, <2>3
    <2> HIDE DEF r
    <2>5. \A j \in 1 .. Len(r) : r[j] <= n
      BY <1>1, <2>1, <2>2, <2>4
    <2>6. ASSUME NEW j \in 1 .. Len(r), NEW k \in 1 .. Len(r), j < k
          PROVE  r[j] < r[k]
      <3>1. j \in 1 .. Len(s)
        BY <1>2, <2>1, <2>6
      <3>2. CASE k \in 1 .. Len(s)
        BY <2>1, <2>6, <3>1, <3>2 DEF Lists
      <3>3. CASE k = Len(s) + 1
        BY <2>1, <2>4, <3>1, <3>3
      <3>4. QED
        BY <2>2, <3>2, <3>3
    <2>7. ASSUME NEW t \in Tasks(b), t <= n PROVE \E j \in 1 .. Len(r) : r[j] = t
      <3>1. CASE t = n
        BY <2>1, <2>2, <3>1
      <3>2. CASE t <= n - 1
        <4>1. PICK j \in 1 .. Len(s) : s[j] = t
          BY <3>2 DEF Lists
        <4>2. QED
          BY <2>1, <2>2, <4>1
      <3>3. QED
        BY <1>3, <2>7, <3>1, <3>2
    <2>8. Lists(r, b, n)
      BY <2>1, <2>5, <2>6, <2>7 DEF Lists
    <2>9. QED
      BY <1>5, <2>8 DEF Listed, r
  <1>6. QED
    BY <1>4, <1>5

LEMMA InOrderListsTasks ==
  ASSUME body \in Bodies
  PROVE  Lists(InOrder, body, Len(body.ops))
  <1> DEFINE N == Len(body.ops)
  <1>1. N \in Nat /\ Tasks(body) \subseteq 1 .. N
    BY BodyFacts
  <1>2. PICK met : Listing(met, body, N) /\ InOrder = met[N]
    <2>1. \E met : Listing(met, body, N)
      BY <1>1, ListingExists
    <2>2. InOrder = (CHOOSE met : Listing(met, body, N))[N]
      BY DEF InOrder, Listing, Listed
    <2>3. QED
      BY <2>1, <2>2
  <1>3. \A n \in 0 .. N : met[n] = IF n = 0 THEN <<>> ELSE Listed(met[n - 1], body, n)
    BY <1>2 DEF Listing
  <1> DEFINE bad == {n \in 0 .. N : ~ Lists(met[n], body, n)}
  <1>4. bad = {}
    <2> SUFFICES ASSUME bad # {} PROVE FALSE
      OBVIOUS
    <2>1. PICK k \in bad : \A y \in bad : k <= y
      <3>1. bad \in SUBSET Nat
        BY <1>1
      <3> HIDE DEF bad
      <3>2. QED
        BY <3>1, LeastNumber
    <2>2. k \in 0 .. N /\ k # 0
      <3>1. Lists(<<>>, body, 0)
        BY <1>1 DEF Lists
      <3>2. met[0] = <<>>
        BY <1>1, <1>3
      <3>3. QED
        BY <2>1, <3>1, <3>2
    <2>3. k - 1 \in 0 .. N /\ ~ (k <= k - 1) /\ k \in 1 .. N
      BY <1>1, <2>2
    <2>4. Lists(met[k - 1], body, k - 1)
      BY <2>1, <2>3
    <2>5. Lists(met[k], body, k)
      BY <1>3, <2>2, <2>3, <2>4, ListedLists
    <2>6. QED
      BY <2>1, <2>5
  <1>5. QED
    BY <1>1, <1>2, <1>4

-----------------------------------------------------------------------------
PlacedNext(before, tasks, waitsFor, n) ==
  PlacedAfter(before, tasks[n], waitsFor[tasks[n]])

Placing(levels, tasks, waitsFor, m) ==
  levels = [n \in 0 .. m |-> IF n = 0 THEN <<>> ELSE PlacedNext(levels[n - 1], tasks, waitsFor, n)]

LEMMA PlacingExists ==
  ASSUME NEW tasks, NEW waitsFor, NEW m \in Nat
  PROVE  \E levels : Placing(levels, tasks, waitsFor, m)
  <1> DEFINE bad == {n \in Nat : ~ \E levels : Placing(levels, tasks, waitsFor, n)}
  <1> SUFFICES ASSUME bad # {} PROVE FALSE
    OBVIOUS
  <1>1. PICK k \in bad : \A y \in bad : k <= y
    <2>1. bad \in SUBSET Nat
      OBVIOUS
    <2> HIDE DEF bad
    <2>2. QED
      BY <2>1, LeastNumber
  <1>2. k # 0
    <2>1. Placing([n \in 0 .. 0 |-> <<>>], tasks, waitsFor, 0)
      BY DEF Placing
    <2>2. QED
      BY <2>1
  <1>3. k - 1 \in Nat /\ k - 1 \notin bad
    BY <1>1, <1>2
  <1>4. PICK levels : Placing(levels, tasks, waitsFor, k - 1)
    BY <1>3
  <1> DEFINE more == [n \in 0 .. k |-> IF n = k THEN PlacedNext(levels[k - 1], tasks, waitsFor, k)
                                               ELSE levels[n]]
  <1>5. ASSUME NEW n \in 0 .. k
        PROVE  more[n] = IF n = 0 THEN <<>> ELSE PlacedNext(more[n - 1], tasks, waitsFor, n)
    <2>1. n # 0 => n - 1 \in 0 .. k /\ n - 1 # k
      BY <1>3
    <2>2. n # 0 => more[n - 1] = levels[n - 1]
      BY <2>1
    <2>3. CASE n = k
      BY <1>2, <2>2, <2>3
    <2>4. CASE n # k
      <3>1. n \in 0 .. k - 1
        BY <1>3, <2>4
      <3>2. levels[n] = IF n = 0 THEN <<>> ELSE PlacedNext(levels[n - 1], tasks, waitsFor, n)
        BY <1>4, <3>1 DEF Placing
      <3>3. QED
        BY <2>2, <2>4, <3>2
    <2>5. QED
      BY <2>3, <2>4
  <1>6. Placing(more, tasks, waitsFor, k)
    <2>1. more = [n \in 0 .. k |-> more[n]]
      OBVIOUS
    <2> HIDE DEF more
    <2>2. QED
      BY <1>5, <2>1 DEF Placing
  <1>7. QED
    BY <1>1, <1>6

(* The closed form's levels hold, of the tasks placed so far, those of the *)
(* sort's levels, and none of them is empty.                               *)
Agrees(levels, seen) ==
  /\ levels \in Seq(Seq(Tasks(body)))
  /\ Len(levels) <= Len(levelVector)
  /\ \A l \in 1 .. Len(levels) :
       /\ ToSet(levels[l]) = levelVector[l] \cap seen
       /\ levelVector[l] \cap seen # {}
  /\ \A l \in DOMAIN levelVector : l > Len(levels) => levelVector[l] \cap seen = {}

LEMMA AppendedSet ==
  ASSUME NEW S, NEW s \in Seq(S), NEW x \in S
  PROVE  ToSet(Append(s, x)) = ToSet(s) \cup {x}
  <1> DEFINE r == Append(s, x)
  <1>1. /\ Len(s) \in Nat /\ DOMAIN s = 1 .. Len(s) /\ DOMAIN r = 1 .. Len(s) + 1
        /\ r[Len(s) + 1] = x /\ \A i \in 1 .. Len(s) : r[i] = s[i]
    OBVIOUS
  <1>2. 1 .. Len(s) + 1 = (1 .. Len(s)) \cup {Len(s) + 1}
    BY <1>1
  <1> HIDE DEF r
  <1>3. {r[i] : i \in DOMAIN r} = {s[i] : i \in DOMAIN s} \cup {x}
    BY <1>1, <1>2
  <1>4. QED
    BY <1>3 DEF ToSet, r

LEMMA LargestIs ==
  ASSUME NEW S \in SUBSET Int, NEW m \in S, \A y \in S : y <= m
  PROVE  Max(S) = m
  <1>1. \A x \in S : (\A y \in S : x >= y) => x = m
    OBVIOUS
  <1>2. \A y \in S : m >= y
    OBVIOUS
  <1>3. QED
    BY <1>1, <1>2 DEF Max

(* The place of a task whose predecessors have theirs is its level.        *)
LEMMA PlacedAtItsLevel ==
  ASSUME Inv, Early, NEW seen \in SUBSET Tasks(body), NEW levels, Agrees(levels, seen),
         NEW m \in DOMAIN levelVector, NEW u \in levelVector[m], deps[u] \subseteq seen
  PROVE  FirstLevelAfter(levels, deps[u]) = m /\ m <= Len(levels) + 1
  <1> DEFINE waits == {l \in 1 .. Len(levels) : \E t \in ToSet(levels[l]) : t \in deps[u]}
  <1>1. /\ levelVector \in Seq(SUBSET Tasks(body)) /\ Len(levelVector) \in Nat
        /\ DOMAIN levelVector = 1 .. Len(levelVector)
        /\ Len(levels) \in Nat /\ Len(levels) <= Len(levelVector)
        /\ m \in Nat /\ m >= 1
    BY DEF Inv, TypeOK, Agrees
  <1>2. ASSUME NEW l \in waits PROVE l <= m - 1 /\ l \in Nat
    <2>1. PICK t \in levelVector[l] : t \in deps[u]
      BY <1>2 DEF Agrees
    <2>2. PICK k \in DOMAIN levelVector : k < m /\ t \in levelVector[k]
      BY <2>1 DEF Inv, Sorted, LevelOfEarlier
    <2>3. l \in DOMAIN levelVector
      BY <1>1
    <2>4. l = k
      BY <2>1, <2>2, <2>3 DEF Inv, Sorted
    <2> HIDE DEF waits
    <2>5. QED
      BY <1>1, <2>2, <2>4
  <1>3. CASE m = 1
    <2>1. \A y \in {0} \cup waits : y <= 0 /\ y \in Int
      BY <1>2, <1>3
    <2>2. Max({0} \cup waits) = 0
      <3> HIDE DEF waits
      <3>1. QED
        BY <2>1, LargestIs
    <2>3. QED
      BY <1>1, <1>3, <2>2 DEF FirstLevelAfter
  <1>4. CASE m > 1
    <2>1. PICK t \in deps[u] : t \in levelVector[m - 1]
      BY <1>4 DEF Early
    <2>2. t \in seen /\ m - 1 \in DOMAIN levelVector
      BY <1>1, <1>4, <2>1
    <2>3. ~ (m - 1 > Len(levels))
      BY <2>1, <2>2 DEF Agrees
    <2>4. m - 1 \in 1 .. Len(levels)
      BY <1>1, <1>4, <2>3
    <2>5. m - 1 \in waits
      BY <2>1, <2>2, <2>4 DEF Agrees
    <2>6. \A y \in {0} \cup waits : y <= m - 1 /\ y \in Int
      BY <1>1, <1>2
    <2>7. Max({0} \cup waits) = m - 1
      <3> HIDE DEF waits
      <3>1. m - 1 \in {0} \cup waits /\ {0} \cup waits \in SUBSET Int
        BY <2>5, <2>6
      <3>2. QED
        BY <2>6, <3>1, LargestIs
    <2>8. QED
      BY <1>1, <2>4, <2>7 DEF FirstLevelAfter
  <1>5. QED
    BY <1>1, <1>3, <1>4

LEMMA PlacedAgrees ==
  ASSUME Inv, NEW seen \in SUBSET Tasks(body), NEW levels, Agrees(levels, seen),
         NEW m \in DOMAIN levelVector, NEW u \in levelVector[m], m <= Len(levels) + 1
  PROVE  Agrees(Placed(levels, u, m), seen \cup {u})
  <1> DEFINE now == seen \cup {u}
             after == Placed(levels, u, m)
  <1>1. /\ levelVector \in Seq(SUBSET Tasks(body)) /\ Len(levelVector) \in Nat
        /\ DOMAIN levelVector = 1 .. Len(levelVector)
        /\ levels \in Seq(Seq(Tasks(body))) /\ DOMAIN levels = 1 .. Len(levels)
        /\ Len(levels) \in Nat /\ Len(levels) <= Len(levelVector)
        /\ m \in Nat /\ m >= 1 /\ m <= Len(levelVector) /\ u \in Tasks(body)
    BY DEF Inv, TypeOK, Agrees
  <1>2. ASSUME NEW l \in DOMAIN levelVector, l # m
        PROVE  levelVector[l] \cap now = levelVector[l] \cap seen
    BY <1>2 DEF Inv, Sorted
  <1>3. levelVector[m] \cap now = (levelVector[m] \cap seen) \cup {u}
    OBVIOUS
  <1>4. <<u>> \in Seq(Tasks(body)) /\ ToSet(<<u>>) = {u}
    BY <1>1 DEF ToSet
  <1>5. CASE m > Len(levels)
    <2>1. m = Len(levels) + 1
      BY <1>1, <1>5
    <2>2. /\ after \in Seq(Seq(Tasks(body))) /\ Len(after) = m /\ after[m] = <<u>>
          /\ \A l \in 1 .. Len(levels) : after[l] = levels[l]
      BY <1>1, <1>4, <1>5, <2>1 DEF Placed
    <2>3. levelVector[m] \cap seen = {}
      BY <1>5 DEF Agrees
    <2> HIDE DEF after, now
    <2>4. ASSUME NEW l \in 1 .. Len(after)
          PROVE  ToSet(after[l]) = levelVector[l] \cap now /\ levelVector[l] \cap now # {}
      <3>1. CASE l = m
        BY <1>3, <1>4, <2>2, <2>3, <3>1
      <3>2. CASE l # m
        <4>1. l \in 1 .. Len(levels) /\ l \in DOMAIN levelVector
          BY <1>1, <2>1, <2>2, <3>2
        <4>2. QED
          BY <1>2, <2>2, <3>2, <4>1 DEF Agrees
      <3>3. QED
        BY <3>1, <3>2
    <2>5. ASSUME NEW l \in DOMAIN levelVector, l > Len(after)
          PROVE  levelVector[l] \cap now = {}
      <3>1. l # m /\ l > Len(levels)
        BY <1>1, <2>1, <2>2, <2>5
      <3>2. QED
        BY <1>2, <3>1 DEF Agrees
    <2>6. Agrees(after, now)
      BY <1>1, <2>2, <2>4, <2>5 DEF Agrees
    <2>7. QED
      BY <2>6 DEF after, now
  <1>6. CASE m <= Len(levels)
    <2>1. m \in 1 .. Len(levels) /\ levels[m] \in Seq(Tasks(body))
      BY <1>1, <1>6
    <2>2. Append(levels[m], u) \in Seq(Tasks(body))
      BY <1>1, <2>1
    <2>3. after = [levels EXCEPT ![m] = Append(@, u)]
      <3>1. ~ (m > Len(levels))
        BY <1>1, <1>6
      <3>2. QED
        BY <3>1, Zenon DEF Placed
    <2>4. /\ after \in Seq(Seq(Tasks(body))) /\ Len(after) = Len(levels)
          /\ after[m] = Append(levels[m], u)
          /\ \A l \in 1 .. Len(levels) : l # m => after[l] = levels[l]
      BY <1>1, <2>1, <2>2, <2>3
    <2>5. ToSet(after[m]) = ToSet(levels[m]) \cup {u}
      BY <1>1, <2>1, <2>4, AppendedSet
    <2> HIDE DEF after, now
    <2>6. ASSUME NEW l \in 1 .. Len(after)
          PROVE  ToSet(after[l]) = levelVector[l] \cap now /\ levelVector[l] \cap now # {}
      <3>1. CASE l = m
        BY <1>3, <2>1, <2>5, <3>1 DEF Agrees
      <3>2. CASE l # m
        <4>1. l \in 1 .. Len(levels) /\ l \in DOMAIN levelVector
          BY <1>1, <2>4, <3>2
        <4>2. QED
          BY <1>2, <2>4, <3>2, <4>1 DEF Agrees
      <3>3. QED
        BY <3>1, <3>2
    <2>7. ASSUME NEW l \in DOMAIN levelVector, l > Len(after)
          PROVE  levelVector[l] \cap now = {}
      <3>1. l # m /\ l > Len(levels)
        BY <1>1, <1>6, <2>4, <2>7
      <3>2. QED
        BY <1>2, <3>1 DEF Agrees
    <2>8. Agrees(after, now)
      BY <1>1, <2>4, <2>6, <2>7 DEF Agrees
    <2>9. QED
      BY <2>8 DEF after, now
  <1>7. QED
    BY <1>1, <1>5, <1>6

(* The tasks a task waits for stand before it in the list.                 *)
LEMMA WaitsForListed ==
  ASSUME Inv, phase = "done", NEW tasks, Lists(tasks, body, Len(body.ops)),
         NEW n \in 1 .. Len(tasks)
  PROVE  deps[tasks[n]] \subseteq {tasks[j] : j \in 1 .. n - 1}
  <1>1. /\ Tasks(body) \subseteq 1 .. Len(body.ops) /\ Len(body.ops) \in Nat
        /\ tasks \in Seq(Tasks(body)) /\ Len(tasks) \in Nat /\ tasks[n] \in Tasks(body)
    BY BodyFacts DEF Inv, Lists
  <1>2. ASSUME NEW d \in deps[tasks[n]] PROVE d \in {tasks[j] : j \in 1 .. n - 1}
    <2>1. d \in Tasks(body) /\ d < tasks[n]
      BY <1>1, <1>2 DEF Inv, Waiting, Depends
    <2>2. PICK j \in 1 .. Len(tasks) : tasks[j] = d
      <3>1. d <= Len(body.ops)
        BY <1>1, <2>1
      <3>2. QED
        BY <2>1, <3>1 DEF Lists
    <2>3. n # j /\ (n < j => tasks[n] < d)
      <3>1. d # tasks[n]
        BY <1>1, <2>1
      <3>2. QED
        BY <2>2, <3>1 DEF Lists
    <2>4. ~ (tasks[n] < d)
      BY <1>1, <2>1
    <2>5. j \in 1 .. n - 1
      BY <1>1, <2>3, <2>4
    <2>6. QED
      BY <2>2, <2>5
  <1>3. QED
    BY <1>2

LEMMA PlacementAgrees ==
  ASSUME Inv, Early, phase = "done", NEW tasks, Lists(tasks, body, Len(body.ops))
  PROVE  Agrees(PlaceInLevels(tasks, deps), Tasks(body))
  <1> DEFINE N == Len(tasks)
             Seen(n) == {tasks[j] : j \in 1 .. n}
  <1>1. /\ N \in Nat /\ tasks \in Seq(Tasks(body))
        /\ levelVector \in Seq(SUBSET Tasks(body)) /\ Len(levelVector) \in Nat
    BY DEF Lists, Inv, TypeOK
  <1>2. PICK levels : Placing(levels, tasks, deps, N) /\ PlaceInLevels(tasks, deps) = levels[N]
    <2>1. \E levels : Placing(levels, tasks, deps, N)
      BY <1>1, PlacingExists
    <2>2. PlaceInLevels(tasks, deps) = (CHOOSE levels : Placing(levels, tasks, deps, N))[N]
      BY DEF PlaceInLevels, Placing, PlacedNext
    <2>3. QED
      BY <2>1, <2>2
  <1>3. \A n \in 0 .. N :
          levels[n] = IF n = 0 THEN <<>> ELSE PlacedNext(levels[n - 1], tasks, deps, n)
    BY <1>2 DEF Placing
  <1> DEFINE bad == {n \in 0 .. N : ~ Agrees(levels[n], Seen(n))}
  <1>4. bad = {}
    <2> SUFFICES ASSUME bad # {} PROVE FALSE
      OBVIOUS
    <2>1. PICK k \in bad : \A y \in bad : k <= y
      <3>1. bad \in SUBSET Nat
        BY <1>1
      <3> HIDE DEF bad
      <3>2. QED
        BY <3>1, LeastNumber
    <2>2. k \in 0 .. N /\ k # 0
      <3>1. Agrees(<<>>, {})
        BY <1>1 DEF Agrees
      <3>2. levels[0] = <<>> /\ Seen(0) = {}
        BY <1>1, <1>3
      <3>3. QED
        BY <2>1, <3>1, <3>2
    <2>3. k - 1 \in 0 .. N /\ ~ (k <= k - 1) /\ k \in 1 .. N
      BY <1>1, <2>2
    <2>4. Agrees(levels[k - 1], Seen(k - 1))
      BY <2>1, <2>3
    <2>5. Seen(k - 1) \in SUBSET Tasks(body) /\ Seen(k) = Seen(k - 1) \cup {tasks[k]}
          /\ tasks[k] \in Tasks(body)
      <3>1. 1 .. k = (1 .. k - 1) \cup {k}
        BY <2>3
      <3>2. \A j \in 1 .. k : tasks[j] \in Tasks(body)
        BY <1>1, <2>3
      <3>3. QED
        BY <2>3, <3>1, <3>2
    <2>6. PICK m \in DOMAIN levelVector : tasks[k] \in levelVector[m]
      BY <2>5 DEF Inv, AllScheduled, scheduled
    <2>7. deps[tasks[k]] \subseteq Seen(k - 1)
      BY <2>3, WaitsForListed
    <2> HIDE DEF Seen
    <2>8. FirstLevelAfter(levels[k - 1], deps[tasks[k]]) = m /\ m <= Len(levels[k - 1]) + 1
      BY <2>4, <2>5, <2>6, <2>7, PlacedAtItsLevel
    <2>9. levels[k] = Placed(levels[k - 1], tasks[k], m)
      BY <1>3, <2>2, <2>8 DEF PlacedNext, PlacedAfter
    <2>10. Agrees(levels[k], Seen(k))
      BY <2>4, <2>5, <2>6, <2>8, <2>9, PlacedAgrees
    <2>11. QED
      BY <2>1, <2>10
  <1>5. Agrees(levels[N], Seen(N))
    <2>1. N \in 0 .. N
      BY <1>1
    <2> HIDE DEF Seen, N
    <2>2. QED
      BY <1>4, <2>1
  <1>6. Seen(N) = Tasks(body)
    <2>1. \A t \in Tasks(body) : \E j \in 1 .. N : tasks[j] = t
      BY BodyFacts DEF Lists, Inv
    <2>2. \A j \in 1 .. N : tasks[j] \in Tasks(body)
      BY <1>1
    <2>3. QED
      BY <2>1, <2>2
  <1>7. QED
    BY <1>2, <1>5, <1>6

(* For every body, the in-degree sort of the code computes what the closed *)
(* form says: a task's level is the first one after all those of the tasks *)
(* it waits for (depGraph.h:488-557).                                      *)
THEOREM SortMatchesClosedForm == Spec => []LevelsMatchClosedForm
  <1>1. ASSUME Inv, Early PROVE LevelsMatchClosedForm
    <2> SUFFICES ASSUME phase = "done"
                 PROVE  LET placed == PlaceInLevels(InOrder, deps)
                        IN  levelVector = [l \in DOMAIN placed |-> ToSet(placed[l])]
      BY DEF LevelsMatchClosedForm
    <2> DEFINE placed == PlaceInLevels(InOrder, deps)
    <2>1. Agrees(placed, Tasks(body))
      BY <1>1, InOrderListsTasks, PlacementAgrees DEF Inv
    <2> HIDE DEF placed
    <2>2. /\ levelVector \in Seq(SUBSET Tasks(body)) /\ Len(levelVector) \in Nat
          /\ DOMAIN levelVector = 1 .. Len(levelVector)
          /\ Len(placed) \in Nat /\ DOMAIN placed = 1 .. Len(placed)
          /\ Len(placed) <= Len(levelVector)
      BY <1>1, <2>1 DEF Inv, TypeOK, Agrees
    <2>3. \A l \in DOMAIN levelVector :
            levelVector[l] \cap Tasks(body) = levelVector[l] /\ levelVector[l] # {}
      BY <1>1, <2>2 DEF Inv, Sorted
    <2>4. Len(placed) = Len(levelVector)
      <3>1. ~ (Len(levelVector) > Len(placed))
        BY <2>1, <2>2, <2>3 DEF Agrees
      <3> DEFINE p == Len(placed)
                 q == Len(levelVector)
      <3>2. p \in Nat /\ q \in Nat /\ p <= q /\ ~ (q > p)
        BY <2>2, <3>1
      <3> HIDE DEF p, q
      <3>3. p = q
        BY <3>2
      <3>4. QED
        BY <3>3 DEF p, q
    <2>5. \A l \in DOMAIN placed : levelVector[l] = ToSet(placed[l])
      BY <2>1, <2>2, <2>3, <2>4 DEF Agrees
    <2>6. levelVector = [l \in DOMAIN placed |-> ToSet(placed[l])]
      BY <2>2, <2>4, <2>5
    <2>7. QED
      BY <2>6 DEF placed
  <1>2. QED
    BY InitInv, StepInv, EarlyInvariant, <1>1, PTL DEF Spec
=============================================================================

------------------------------ MODULE TaskBody ------------------------------
(***************************************************************************)
(* The body of one task (lowerReplicateOp.h) and the walk over its index   *)
(* expressions (arrayPartitionAnalysis.h).  A parallel loop body is built  *)
(* one operation at a time, as SSA values and memref accesses; for each    *)
(* body the lowering decides which operands become row slabs of the shard, *)
(* whether the loop runs over [0, Chunk), and which accesses to whole      *)
(* operands get the shard's start added back.                              *)
(*                                                                         *)
(*   access   [mem, store, indices, stored]   indices, stored: values      *)
(***************************************************************************)
EXTENDS Integers, Sequences

CONSTANTS
  Memrefs,   \* operands of the replicate
  RankOf,    \* number of dimensions of each, all static
  Constants, \* constants in the body
  Unknowns,  \* values that do not depend on the induction variable, by iteration
  Start,     \* first iteration of the shard
  Chunk,     \* number of its iterations
  maxDepth,  \* limit of isDerivedFromValue, 5 in the code
  MaxInt     \* largest index

VARIABLES
  values,    \* SSA values, the induction variable first
  accesses,  \* loads and stores
  isStencil  \* the replicate carries the stencil pattern

vars == <<values, accesses, isStencil>>

Word == -MaxInt - 1 .. MaxInt

Wrap(n) == ((n + MaxInt + 1) % (2 * MaxInt + 2)) - MaxInt - 1

Iterations == Start .. Start + Chunk - 1

ASSUME TaskAssumption ==
  /\ Start \in Nat /\ Chunk \in Nat /\ MaxInt \in Nat /\ maxDepth \in Nat
  /\ Start + Chunk <= MaxInt
  /\ RankOf \in [Memrefs -> Nat]
  /\ Constants \subseteq Word
  /\ Unknowns \subseteq [Iterations -> Word]

IV == 1

Values == DOMAIN values

-----------------------------------------------------------------------------
(* A value carries what it is in the source (`plain`) and what it is if    *)
(* the induction variable runs from 0 (`moved`), for each iteration of the *)
(* shard; what getOffsetFromIV returns for each value it may be asked to   *)
(* relate it to (`offset`, undefined where it fails); and how far the      *)
(* induction variable is up its operands, at most maxDepth + 1.            *)

InductionVariable ==
  [op |-> "iv", from |-> {}, depth |-> 0, constant |-> 0,
   plain |-> [i \in Iterations |-> i],
   moved |-> [i \in Iterations |-> i - Start],
   offset |-> [u \in {IV} |-> 0]]

Derives(v, u) == u \in DOMAIN values[v].offset

IsConstant(v) == values[v].op = "constant"

Fails == [u \in {} |-> 0]

(* checkedAdd: no offset rather than one out of range.                     *)
checkedAdd(v, c) ==
  LET table == values[v].offset
  IN  [u \in {t \in DOMAIN table : table[t] + c \in Word} |-> table[u] + c]

(* i + c or c + i; what an offset relates to is never a constant.          *)
AddOffset(a, b) ==
  IF IsConstant(b) THEN checkedAdd(a, values[b].constant)
  ELSE IF IsConstant(a) THEN checkedAdd(b, values[a].constant)
  ELSE Fails

(* Mutant of SubOffset: c - i is taken for i - c.                           *)
SubOffsetEitherWay(a, b) ==
  IF IsConstant(b) THEN checkedAdd(a, -values[b].constant)
  ELSE IF IsConstant(a) THEN checkedAdd(b, -values[a].constant)
  ELSE Fails

(* i - c, and not c - i.                                                   *)
SubOffset(a, b) == IF IsConstant(b) THEN checkedAdd(a, -values[b].constant) ELSE Fails

(* getOffsetFromIV relates every value to itself.                          *)
ToItself(table) ==
  LET v == Len(values) + 1
  IN  [u \in DOMAIN table \cup {v} |-> IF u = v THEN 0 ELSE table[u]]

Depth(operands) ==
  LET depths == {values[v].depth : v \in operands} \cup {maxDepth}
  IN  1 + CHOOSE d \in depths : \A e \in depths : d <= e

(* A value that is the same whatever the induction variable starts from.   *)
Fixed(op, operands, c, f) ==
  [op |-> op, from |-> operands, depth |-> Depth(operands), constant |-> c,
   plain |-> f, moved |-> f, offset |-> ToItself(Fails)]

Result(op, x, y) ==
  Wrap(CASE op = "add" -> x + y [] op = "sub" -> x - y [] OTHER -> x * y)

Computed(op, a, b, table) ==
  [op |-> op, from |-> {a, b}, depth |-> Depth({a, b}), constant |-> 0,
   plain |-> [i \in Iterations |-> Result(op, values[a].plain[i], values[b].plain[i])],
   moved |-> [i \in Iterations |-> Result(op, values[a].moved[i], values[b].moved[i])],
   offset |-> ToItself(table)]

-----------------------------------------------------------------------------
(* The source program.                                                     *)

Init ==
  /\ values = <<InductionVariable>>
  /\ accesses = {}
  /\ isStencil \in BOOLEAN

Define(value) ==
  /\ values' = Append(values, value)
  /\ UNCHANGED isStencil

Constant ==
  /\ \E c \in Constants : Define(Fixed("constant", {}, c, [i \in Iterations |-> c]))
  /\ UNCHANGED accesses

(* An argument, the variable of another loop, a computation without iv.    *)
Unknown ==
  /\ \E f \in Unknowns : Define(Fixed("unknown", {}, 0, f))
  /\ UNCHANGED accesses

AddI ==
  /\ \E a, b \in Values : Define(Computed("add", a, b, AddOffset(a, b)))
  /\ UNCHANGED accesses

SubI ==
  /\ \E a, b \in Values : Define(Computed("sub", a, b, SubOffset(a, b)))
  /\ UNCHANGED accesses

(* Any other operation; multiplication stands for all of them.             *)
Other ==
  /\ \E a, b \in Values : Define(Computed("other", a, b, Fails))
  /\ UNCHANGED accesses

(* A datum of the memref's element type that no index is computed from.    *)
Datum == 0

Load ==
  \E m \in Memrefs : \E indices \in [1 .. RankOf[m] -> Values] :
    /\ accesses' = accesses \cup {[mem |-> m, store |-> FALSE, indices |-> indices, stored |-> Datum]}
    /\ \E f \in Unknowns : Define(Fixed("load", {indices[d] : d \in DOMAIN indices}, 0, f))

Store ==
  \E m \in Memrefs : \E indices \in [1 .. RankOf[m] -> Values], v \in Values \cup {Datum} :
    /\ accesses' = accesses \cup {[mem |-> m, store |-> TRUE, indices |-> indices, stored |-> v]}
    /\ UNCHANGED <<values, isStencil>>

Next == Constant \/ Unknown \/ AddI \/ SubI \/ Other \/ Load \/ Store

Spec == Init /\ [][Next]_vars

-----------------------------------------------------------------------------
(* The lowering.                                                           *)

(* getUnitStrideDimensionAndOffset finds dimension d, and only it.         *)
UnitStride(a, u, d) == {e \in DOMAIN a.indices : Derives(a.indices[e], u)} = {d}

(* getDimensionForIV finds some dimension.                                 *)
UsesIV(a) == \E d \in DOMAIN a.indices : values[a.indices[d]].depth <= maxDepth

AccessesTo(m) == {a \in accesses : a.mem = m}

(* Mutant of OwnRow: an access one row off is taken for the row itself.     *)
OwnRowOrNear(a) == UnitStride(a, IV, 1)

OwnRow(a) == UnitStride(a, IV, 1) /\ values[a.indices[1]].offset[IV] = 0

(* analyzeArray: every other outcome is NO_PARTITION.                      *)
RowPartition(m) ==
  /\ RankOf[m] \in 1 .. 3
  /\ AccessesTo(m) # {}
  /\ \A a \in AccessesTo(m) : OwnRow(a)

(* Every output is stored to, at the iteration's own row and nowhere else; *)
(* otherwise there is no task.                                             *)
Lowered == \A a \in accesses : a.store => OwnRow(a)

Tracked == {v \in Values : Derives(v, IV)}

Users(v) == {w \in Values : v \in values[w].from}

IndexOf(v, a) == \E d \in DOMAIN a.indices : a.indices[d] = v

SupportedAccess(v, a) == IndexOf(v, a) /\ \E d \in DOMAIN a.indices : UnitStride(a, v, d)

(* Mutant of supportedIVUse: uses of the induction variable itself only.    *)
supportedIVUseDirect ==
  /\ \A a \in accesses : IndexOf(IV, a) => SupportedAccess(IV, a)
  /\ \A w \in Users(IV) : values[w].op \in {"add", "sub", "load"}

(* The walk over users meets exactly the values that have an offset.       *)
supportedIVUse ==
  \A v \in Tracked :
    /\ \A a \in accesses : IndexOf(v, a) \/ a.stored = v => SupportedAccess(v, a)
    /\ \A w \in Users(v) : \/ values[w].op = "load"
                            \/ /\ values[w].op \in {"add", "sub"}
                               /\ Derives(w, IV)

Sliced(m) == RowPartition(m) /\ supportedIVUse /\ ~isStencil

indicesRebased == \E m \in Memrefs : Sliced(m)

unslicedIVMemrefs ==
  {m \in Memrefs : /\ supportedIVUse
                   /\ ~RowPartition(m)
                   /\ \E a \in AccessesTo(m) : UsesIV(a)}

Iterate(v, i) == IF indicesRebased THEN values[v].moved[i] ELSE values[v].plain[i]

(* rebaseUnslicedAccesses adds the start in the one dimension it finds.    *)
Rebased(a, d) ==
  indicesRebased /\ a.mem \in unslicedIVMemrefs /\ UnitStride(a, IV, d)

TaskIndex(a, d, i) ==
  Wrap(Iterate(a.indices[d], i) + (IF Rebased(a, d) THEN Start ELSE 0))

(* The subview's first row is row Start of its memref.                     *)
TaskCell(a, i) ==
  [d \in DOMAIN a.indices |->
     IF Sliced(a.mem) /\ d = 1 THEN Start + TaskIndex(a, d, i) ELSE TaskIndex(a, d, i)]

SourceCell(a, i) == [d \in DOMAIN a.indices |-> values[a.indices[d]].plain[i]]

-----------------------------------------------------------------------------
(* An offset is exact: the value is the other plus the offset, as 64-bit   *)
(* words, in every iteration (arrayPartitionAnalysis.h:380-447).           *)
OffsetsExact ==
  \A v \in Values : \A u \in DOMAIN values[v].offset : \A i \in Iterations :
    /\ values[v].plain[i] = Wrap(values[u].plain[i] + values[v].offset[u])
    /\ values[v].moved[i] = Wrap(values[u].moved[i] + values[v].offset[u])

(* The row slab an operand is cut down to holds all rows of it the task    *)
(* touches (lowerReplicateOp.h:560-642).                                   *)
InsideSlab ==
  \A a \in accesses : Sliced(a.mem) =>
    \A i \in Iterations : TaskIndex(a, 1, i) \in 0 .. Chunk - 1

(* What the rebasing is for (lowerReplicateOp.h:689-692): each iteration   *)
(* of a task touches the cells the source's iteration does.                *)
SameCells ==
  Lowered => \A a \in accesses, i \in Iterations : TaskCell(a, i) = SourceCell(a, i)

(* And it stores the same indices where indices are stored as data.        *)
SameData ==
  Lowered => \A a \in accesses, i \in Iterations :
    a.stored # Datum => Iterate(a.stored, i) = values[a.stored].plain[i]

(* The bodies the rebasing handles: the induction variable is in one index *)
(* of an access, not too deep, and is not stored by an access it indexes.  *)
Regular ==
  \A a \in accesses :
    /\ \A d, e \in DOMAIN a.indices :
         a.indices[d] \in Tracked /\ a.indices[e] \in Tracked => d = e
    /\ \A d \in DOMAIN a.indices : a.indices[d] \in Tracked => values[a.indices[d]].depth <= maxDepth
    /\ a.stored \in Tracked => ~IndexOf(a.stored, a)

(* A task does its shard of the source's work: cutting operands, moving    *)
(* the loop to [0, Chunk) and rebasing accesses cancel out, and no other   *)
(* use of the induction variable sees the difference                       *)
(* (lowerReplicateOp.h:405-534, 673-806).                                  *)
TaskDoesItsIterations == Regular => SameCells /\ SameData
=============================================================================

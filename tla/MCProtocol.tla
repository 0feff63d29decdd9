----------------------------- MODULE MCProtocol -----------------------------
(* The messages alone: every text of up to two levels as emitLevel lays them *)
(* out, with one or two outputs per task, tasks listed per output or per     *)
(* device, with and without a broadcast.  Every transfer is a slab of its    *)
(* own, so that a receive that takes another's message is seen.              *)
EXTENDS ScheduleRun, SequencesExt

(* Node 0 on rank 1: the root's loop has ranks before and after its own.     *)
RootInside == [n \in Ranks |-> (n + 1) % NumRanks]
Rows == {"m"} \X {0} \X {0}

(* Each instruction of a text moves the slab named by its position.          *)
Move(op, owner) == [op |-> op, owner |-> owner]
OwnerLists == {<<>>, <<1>>, <<2>>, <<1, 2>>, <<1, 2, 3>>, <<1, 1, 2, 2>>, <<1, 2, 1, 2>>}

LevelText(owners, broadcast) ==
  <<Move("barrier", 0)>>
  \o [i \in 1 .. Len(owners) |-> Move("gather", owners[i])]
  \o (IF broadcast THEN <<Move("broadcast", 0)>> ELSE <<>>)

LevelTexts == {LevelText(o, b) : o \in OwnerLists, b \in BOOLEAN}

Located(moves) ==
  [i \in 1 .. Len(moves) |->
     [op |-> moves[i].op, owner |-> moves[i].owner, result |-> {},
      slab |-> [mem |-> "m", lo |-> i, len |-> 1]]]

Ending == <<Move("barrier", 0), Move("return", 0)>>

Texts ==
  {Located(l \o Ending) : l \in LevelTexts}
  \cup {Located(l \o m \o Ending) : l \in LevelTexts, m \in LevelTexts}
=============================================================================

----------------------------- MODULE ScheduleRun -----------------------------
(***************************************************************************)
(* The emitted MPI program running: one process per rank, each with its    *)
(* own copy of every memref, all executing the same text.                  *)
(*                                                                         *)
(* MPI_Send may hand its message to the library and return, or return only *)
(* when the receiver has taken it: both are modelled.  All messages carry  *)
(* tag 0, so a receive takes the oldest message of its sender.             *)
(***************************************************************************)
EXTENDS ScheduleText

VARIABLES
  program,   \* the text being run
  ip,        \* next instruction of each rank
  target,    \* targetRank of the root's broadcast loop
  mode,      \* "run", "sending" (blocked in MPI_Send) or "barrier"
  barriers,  \* number of barriers each rank has entered
  channel,   \* messages under way between two ranks
  copy       \* each rank's memory

vars == <<program, ip, target, mode, barriers, channel, copy>>

(* Where rank r goes from position k of a text.                            *)
NextFor(code, r, k) ==
  LET ahead == {j \in k + 1 .. Len(code) : Concerns(code[j], r)}
  IN  CHOOSE j \in ahead : \A i \in ahead : j <= i

instruction(r) == program[ip[r]]

Running(r, op) == mode[r] = "run" /\ instruction(r).op = op

Advance(r) == ip' = [ip EXCEPT ![r] = NextFor(program, r, @)]

Init ==
  /\ program \in Programs
  /\ ip = [r \in Ranks |-> NextFor(program, r, 0)]
  /\ target = 0
  /\ mode = [r \in Ranks |-> "run"]
  /\ barriers = [r \in Ranks |-> 0]
  /\ channel = [s \in Ranks |-> [r \in Ranks |-> <<>>]]
  /\ copy = Untouched

Compute(r) ==
  /\ Running(r, "compute")
  /\ copy' = [copy EXCEPT ![r] = Computed(instruction(r), @)]
  /\ Advance(r)
  /\ UNCHANGED <<program, target, mode, barriers, channel>>

EnterBarrier(r) ==
  /\ Running(r, "barrier")
  /\ barriers' = [barriers EXCEPT ![r] = @ + 1]
  /\ mode' = [mode EXCEPT ![r] = "barrier"]
  /\ UNCHANGED <<program, ip, target, channel, copy>>

LeaveBarrier(r) ==
  /\ mode[r] = "barrier"
  /\ \A s \in Ranks : barriers[s] >= barriers[r]
  /\ mode' = [mode EXCEPT ![r] = "run"]
  /\ Advance(r)
  /\ UNCHANGED <<program, target, barriers, channel, copy>>

(* Mutant of Message: the count leaves out the last row.                    *)
MessageShort(r, slab) ==
  [place |-> ip[r], slab |-> slab,
   data |-> Contents(copy[r], [slab EXCEPT !.len = @ - 1])]

(* place is history: the instruction that sent the message.                *)
Message(r, slab) == [place |-> ip[r], slab |-> slab, data |-> Contents(copy[r], slab)]

(* What rank r does after the send it stands at: the root stays in its     *)
(* broadcast loop until it has served the last rank.                       *)
SendTo(r) ==
  IF instruction(r).op = "gather" THEN rootRank
  ELSE CHOOSE d \in Destinations : d >= target /\ \A e \in Destinations : e >= target => d <= e

(* Mutant of AfterSend: the loop goes on at the rank just served.           *)
AfterSendAgain(r) ==
  IF instruction(r).op = "broadcast" /\ \E d \in Destinations : d > SendTo(r)
    THEN target' = SendTo(r) /\ UNCHANGED ip
    ELSE target' = (IF instruction(r).op = "broadcast" THEN 0 ELSE target) /\ Advance(r)

AfterSend(r) ==
  IF instruction(r).op = "broadcast" /\ \E d \in Destinations : d > SendTo(r)
    THEN target' = SendTo(r) + 1 /\ UNCHANGED ip
    ELSE target' = (IF instruction(r).op = "broadcast" THEN 0 ELSE target) /\ Advance(r)

IsSender(r) ==
  \/ Running(r, "gather") /\ r # rootRank
  \/ Running(r, "broadcast") /\ r = rootRank

Put(r) ==
  channel' = [channel EXCEPT ![r][SendTo(r)] = Append(@, Message(r, instruction(r).slab))]

SendBuffered(r) ==
  /\ IsSender(r)
  /\ Put(r)
  /\ AfterSend(r)
  /\ UNCHANGED <<program, mode, barriers, copy>>

SendBlocking(r) ==
  /\ IsSender(r)
  /\ Put(r)
  /\ mode' = [mode EXCEPT ![r] = "sending"]
  /\ UNCHANGED <<program, ip, target, barriers, copy>>

SendTaken(r) ==
  /\ mode[r] = "sending"
  /\ channel[r][SendTo(r)] = <<>>
  /\ mode' = [mode EXCEPT ![r] = "run"]
  /\ AfterSend(r)
  /\ UNCHANGED <<program, barriers, channel, copy>>

(* Mutant of Source: the root is taken to be rank 0.                        *)
SourceRankZero(r) == IF r = rootRank THEN NodeToRank[instruction(r).owner] ELSE 0

Source(r) == IF r = rootRank THEN NodeToRank[instruction(r).owner] ELSE rootRank

IsReceiver(r) ==
  \/ Running(r, "gather") /\ r = rootRank
  \/ Running(r, "broadcast") /\ r # rootRank

Receive(r) ==
  /\ IsReceiver(r)
  /\ channel[Source(r)][r] # <<>>
  /\ copy' = [copy EXCEPT ![r] =
                Stored(@, instruction(r).slab, Head(channel[Source(r)][r]).data)]
  /\ channel' = [channel EXCEPT ![Source(r)][r] = Tail(@)]
  /\ Advance(r)
  /\ UNCHANGED <<program, target, mode, barriers>>

Returned(r) == Running(r, "return")

AllReturned == \A r \in Ranks : Returned(r)

Finished == AllReturned /\ UNCHANGED vars

RankStep(r) ==
  \/ Compute(r)
  \/ EnterBarrier(r)
  \/ LeaveBarrier(r)
  \/ SendBuffered(r)
  \/ SendBlocking(r)
  \/ SendTaken(r)
  \/ Receive(r)

Next == (\E r \in Ranks : RankStep(r)) \/ Finished

(* Each rank is an operating-system process that keeps being scheduled.    *)
Spec == Init /\ [][Next]_vars /\ \A r \in Ranks : WF_vars(RankStep(r))

-----------------------------------------------------------------------------
Versions == Int

TypeOK ==
  /\ WellFormedText(program)
  /\ ip \in [Ranks -> DOMAIN program]
  /\ target \in 0 .. NumRanks
  /\ mode \in [Ranks -> {"run", "sending", "barrier"}]
  /\ barriers \in [Ranks -> Nat]
  /\ \A s, r \in Ranks : \A i \in 1 .. Len(channel[s][r]) :
       Len(channel[s][r][i].data) = channel[s][r][i].slab.len
  /\ copy \in [Ranks -> [AllCells -> Versions]]

(* Each rank is a process of its own, and sends may be buffered: whatever  *)
(* the interleaving, a rank reaches an instruction with the memory it      *)
(* would have there if all ranks went through the text together.           *)
InStep == \A r \in Ranks : copy[r] = MemoryBefore(program)[ip[r]][r]

(* Whenever a rank is about to run a task or its clone of host code, the   *)
(* part of its own memory that will be read is what the sequential program *)
(* would read there: shards, gathers and broadcasts add up                 *)
(* (dhirtompi.h:584-856).                                                  *)
ReadsAreFresh ==
  \A r \in Ranks : Running(r, "compute") =>
    \A e \in instruction(r).effect : Fresh(copy[r], e.needs)

(* The rank of node 0 ends with the sequential result in every memref: the *)
(* benchmark harness reads the answer there.                               *)
RootHoldsResult ==
  Returned(rootRank) => Fresh(copy[rootRank], instruction(rootRank).result)

(* Tag 0 everywhere is enough: the message a receive takes is the slab the *)
(* receive stands for, never one of an earlier or later transfer.          *)
ReceivesMatchSends ==
  \A r \in Ranks : IsReceiver(r) /\ channel[Source(r)][r] # <<>> =>
    Head(channel[Source(r)][r]).slab = instruction(r).slab

(* Nothing is left under way when the program returns: no MPI_Finalize     *)
(* follows that could still deliver it.                                    *)
NothingInFlight ==
  AllReturned => \A s, r \in Ranks : channel[s][r] = <<>>

(* The root's copy of a cell only ever moves forward in the sequential     *)
(* order: no gather or late task brings an overwritten version back.       *)
RootMovesForward ==
  [][\A c \in AllCells : copy'[rootRank][c] >= copy[rootRank][c]]_copy

(* Some rank can take its next step, whatever the others have done and     *)
(* whichever sends block, until all have returned: sends, receives and     *)
(* barriers never wait for one another in a circle (dhirtompi.h:714-842,   *)
(* utils.cc:305-379).                                                      *)
CanMove(r) ==
  \/ Running(r, "compute") \/ Running(r, "barrier") \/ IsSender(r)
  \/ mode[r] = "barrier" /\ \A s \in Ranks : barriers[s] >= barriers[r]
  \/ mode[r] = "sending" /\ channel[r][SendTo(r)] = <<>>
  \/ IsReceiver(r) /\ channel[Source(r)][r] # <<>>

NeverStuck == AllReturned \/ \E r \in Ranks : CanMove(r)

(* A bound on the steps a rank has still to take: each step uses up one of *)
(* its own and gives none to another rank, so that a program that is never *)
(* stuck ends, however its ranks are scheduled.                            *)
StepsLeft(r) ==
  (Len(program) - ip[r]) * (2 * NumRanks + 2)
    - (IF mode[r] = "run" THEN 0 ELSE 1)
    - (IF r = rootRank THEN 2 * target ELSE 0)

StepsRunOut ==
  [][\E r \in Ranks : /\ 0 <= StepsLeft(r)' /\ StepsLeft(r)' < StepsLeft(r)
                      /\ \A s \in Ranks \ {r} : StepsLeft(s)' = StepsLeft(s)]_vars

(* Whatever mix of buffered and blocking sends MPI chooses, every rank     *)
(* reaches the return: no cycle of sends, receives and barriers.           *)
EveryRankReturns == <>AllReturned
=============================================================================

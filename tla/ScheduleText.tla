---------------------------- MODULE ScheduleText ----------------------------
(***************************************************************************)
(* The text of an emitted MPI program and what its instructions mean for   *)
(* the memory of the ranks.  A memory is known, cell by cell, by the step  *)
(* of the sequential program whose value the cell holds (0 for the input), *)
(* or Garbage once it has been computed from anything but the right        *)
(* inputs.                                                                 *)
(*                                                                         *)
(* ScheduleRun runs a text on concurrent ranks; Lockstep runs it one       *)
(* instruction at a time.                                                  *)
(***************************************************************************)
EXTENDS Integers, Sequences, FiniteSets

CONSTANTS
  NumRanks,    \* getNodes, the size of the communicator
  NodeToRank,  \* the table buildRankNodeMaps returns
  AllCells,    \* <<memref, row, column>> triples
  Programs     \* texts: sequences of instructions, ending in a return

Ranks == 0 .. NumRanks - 1
rootRank == NodeToRank[0]
Garbage == -1

ASSUME RanksAssumption == NumRanks \in Nat \ {0}
ASSUME NodeToRankAssumption ==
  /\ NodeToRank \in [Ranks -> Ranks]
  /\ \A m, n \in Ranks : NodeToRank[m] = NodeToRank[n] => m = n

(* Texts as the lowering lays them out: one return, at the end, and gathers *)
(* from other nodes than the root's.                                        *)
WellFormedText(code) ==
  /\ Len(code) \in Nat \ {0} /\ DOMAIN code = 1 .. Len(code)
  /\ \A k \in DOMAIN code :
       /\ code[k].op \in {"compute", "barrier", "gather", "broadcast", "return"}
       /\ code[k].op = "compute" => code[k].version \in Int
       /\ code[k].op = "gather" => code[k].owner \in Ranks \ {0}
       /\ code[k].op \in {"gather", "broadcast"} =>
            code[k].slab.lo \in Int /\ code[k].slab.len \in Nat
       /\ code[k].op = "return" <=> k = Len(code)

ASSUME ProgramsAssumption == \A text \in Programs : WellFormedText(text)

Destinations == {d \in Ranks : d # rootRank}

(* Mutants of Concerns: every rank but the root sends in a gather; the root *)
(* does not receive from the last node; the owner does not send.            *)
ConcernsIf(instr, r, gatherers) ==
  CASE instr.op = "compute"   -> \E n \in instr.nodes : NodeToRank[n] = r
    [] instr.op = "gather"    -> r \in gatherers
    [] instr.op = "broadcast" -> r # rootRank \/ Destinations # {}
    [] OTHER                  -> TRUE

ConcernsEveryone(instr, r) == ConcernsIf(instr, r, Ranks)
ConcernsNoLastReceive(instr, r) ==
  ConcernsIf(instr, r, {NodeToRank[instr.owner]}
                       \cup (IF instr.owner = NumRanks - 1 THEN {} ELSE {rootRank}))
ConcernsNoSend(instr, r) == ConcernsIf(instr, r, {rootRank})

(* Whether rank r takes the branch of a task, sends or receives in a       *)
(* gather, sends or receives in a broadcast.                               *)
RunsTask(instr, r) == \E n \in instr.nodes : NodeToRank[n] = r
InGather(instr, r) == r \in {rootRank, NodeToRank[instr.owner]}
InBroadcast(r) == r # rootRank \/ Destinations # {}

Concerns(instr, r) ==
  CASE instr.op = "compute"   -> RunsTask(instr, r)
    [] instr.op = "gather"    -> InGather(instr, r)
    [] instr.op = "broadcast" -> InBroadcast(r)
    [] OTHER                  -> TRUE

-----------------------------------------------------------------------------
(* The cells a computation writes, and those whose value it relies on; two *)
(* computations clash when one writes a cell of the other.                 *)
Written(instr) == {e.cell : e \in instr.effect}
ReadBy(instr) == {d.cell : d \in instr.keeps \cup UNION {e.needs : e \in instr.effect}}

Clash(a, b) ==
  \/ Written(a) \cap (Written(b) \cup ReadBy(b)) # {}
  \/ ReadBy(a) \cap Written(b) # {}

Fresh(memory, dated) == \A d \in dated : memory[d.cell] = d.version

(* A task body, or host code cloned on every rank.                         *)
Computed(instr, memory) ==
  LET written == {e.cell : e \in instr.effect}
      needed(c) == UNION {e.needs : e \in {f \in instr.effect : f.cell = c}}
  IN  [c \in AllCells |-> IF c \notin written THEN memory[c]
                          ELSE IF Fresh(memory, needed(c)) THEN instr.version
                          ELSE Garbage]

Parts == {c[3] : c \in AllCells}

CellAt(slab, k, part) == <<slab.mem, slab.lo + k - 1, part>>

(* What a send of slab finds in memory: its rows, each of them whole.      *)
Contents(memory, slab) ==
  [k \in 1 .. slab.len |->
     [part \in Parts |-> IF CellAt(slab, k, part) \in AllCells
                           THEN memory[CellAt(slab, k, part)] ELSE Garbage]]

(* The cells of slab take the rows received in order.                      *)
Stored(memory, slab, data) ==
  [c \in AllCells |->
     IF \E k \in 1 .. slab.len : k <= Len(data) /\ CellAt(slab, k, c[3]) = c
       THEN data[c[2] - slab.lo + 1][c[3]]
       ELSE memory[c]]

-----------------------------------------------------------------------------
(* The memories of all ranks after an instruction, when each takes it as a *)
(* whole and together.                                                     *)
Executed(instr, memories) ==
  [r \in Ranks |->
     CASE instr.op = "compute" /\ Concerns(instr, r) -> Computed(instr, memories[r])
       [] instr.op = "gather" /\ r = rootRank ->
            Stored(memories[r], instr.slab,
                   Contents(memories[NodeToRank[instr.owner]], instr.slab))
       [] instr.op = "broadcast" /\ r # rootRank ->
            Stored(memories[r], instr.slab, Contents(memories[rootRank], instr.slab))
       [] OTHER -> memories[r]]

Untouched == [r \in Ranks |-> [c \in AllCells |-> 0]]

(* The memories before each instruction of a text, run this way.           *)
MemoryBefore(text) ==
  LET memories[k \in 1 .. Len(text)] ==
        IF k = 1 THEN Untouched ELSE Executed(text[k - 1], memories[k - 1])
  IN  memories
=============================================================================

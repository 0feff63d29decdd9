---------------------------- MODULE RankMapping ----------------------------
(***************************************************************************)
(* buildRankNodeMaps (src/libs/runtimeHardwareMapping.cc), run by every    *)
(* rank of an emitted program before its first task: rank 0 gathers the    *)
(* hardware of all ranks, matches each rank to the first free node of the  *)
(* configured topology with the same hardware, and broadcasts the two      *)
(* tables.  A gather lets a non-root rank go on as soon as its             *)
(* contribution is out; a broadcast lets rank 0 go on before the others    *)
(* have received.  After an abort the other ranks may still take steps     *)
(* before they are killed.                                                 *)
(***************************************************************************)
EXTENDS Integers

CONSTANTS
  NumNodes,  \* RuntimeTopology.numNodes
  MaxWorld,  \* bound on the number of ranks the job is started with
  Hardware   \* possible [cpuArch, gpuCount] records

ASSUME NumNodesAssumption == NumNodes \in Nat \ {0}
ASSUME MaxWorldAssumption == MaxWorld \in Nat \ {0}

VARIABLES
  world,       \* worldSize, from MPI_Comm_size
  topology,    \* topology->nodes
  hardware,    \* what discoverNode finds on each rank
  pc,          \* where each rank is
  gathered,    \* ranks whose DiscoveredNode has reached rank 0
  scanned,     \* r of rank 0's matching loop
  rankToNode,  \* each rank's vector rankToNode
  nodeToRank,  \* each rank's vector nodeToRank
  wire         \* payloads of the two broadcasts, once rank 0 has posted them

vars == <<world, topology, hardware, pc, gathered, scanned,
          rankToNode, nodeToRank, wire>>

Nodes == 0 .. NumNodes - 1
Ranks == 0 .. world - 1
Unset == -1
NotPosted == <<>>

Init ==
  /\ world \in 1 .. MaxWorld
  /\ topology \in [Nodes -> Hardware]
  /\ hardware \in [Ranks -> Hardware]
  /\ pc = [r \in Ranks |-> "start"]
  /\ gathered = {}
  /\ scanned = 0
  /\ rankToNode = [r \in Ranks |-> [k \in Ranks |-> Unset]]
  /\ nodeToRank = [r \in Ranks |-> [n \in Nodes |-> Unset]]
  /\ wire = [rankToNode |-> NotPosted, nodeToRank |-> NotPosted]

matchNode(cfg, local) ==
  /\ cfg.cpuArch = local.cpuArch
  /\ cfg.gpuCount = local.gpuCount

(* The record has no field that the comparison overlooks.                  *)
ASSUME HardwareAssumption == \A g, h \in Hardware : matchNode(g, h) => g = h

Goto(r, label) == pc' = [pc EXCEPT ![r] = label]

(* Lines 71-75: a job of the wrong size aborts on whichever rank looks     *)
(* first.                                                                  *)
CheckWorldSize(r) ==
  /\ pc[r] = "start"
  /\ Goto(r, IF world # NumNodes THEN "aborted" ELSE "gather")
  /\ UNCHANGED <<world, topology, hardware, gathered, scanned,
                 rankToNode, nodeToRank, wire>>

(* The MPI_Gather: rank 0 leaves it when every contribution has arrived.   *)
SendHardware(r) ==
  /\ pc[r] = "gather" /\ r \notin gathered
  /\ gathered' = gathered \cup {r}
  /\ IF r = 0 THEN UNCHANGED pc ELSE Goto(r, "bcastRankToNode")
  /\ UNCHANGED <<world, topology, hardware, scanned, rankToNode, nodeToRank, wire>>

GatherDone ==
  /\ pc[0] = "gather" /\ gathered = Ranks
  /\ Goto(0, "match")
  /\ UNCHANGED <<world, topology, hardware, gathered, scanned,
                 rankToNode, nodeToRank, wire>>

(* Mutants of Candidates: a taken node is not skipped; the scan goes on from *)
(* rank r's own index instead of starting over.                             *)
CandidatesTakenOrNot(r) == {n \in Nodes : matchNode(topology[n], hardware[r])}
CandidatesAhead(r) == {n \in CandidatesTakenOrNot(r) : nodeToRank[0][n] = Unset /\ n >= r}

(* Nodes the inner loop of the match does not skip for rank r.             *)
Candidates(r) ==
  {n \in Nodes : nodeToRank[0][n] = Unset /\ matchNode(topology[n], hardware[r])}

(* Mutant of FirstOf: the index after the match.                            *)
FirstAfter(S) == 1 + CHOOSE n \in S : \A m \in S : n <= m

FirstOf(S) == CHOOSE n \in S : \A m \in S : n <= m

(* Mutant of MatchRank: without a free node, rank 0 looks again for ever.   *)
MatchRankRetries ==
  /\ pc[0] = "match" /\ scanned < world
  /\ LET free == Candidates(scanned) IN
       IF free = {}
         THEN UNCHANGED <<scanned, rankToNode, nodeToRank>>
         ELSE /\ rankToNode' = [rankToNode EXCEPT ![0][scanned] = FirstOf(free)]
              /\ nodeToRank' = [nodeToRank EXCEPT ![0][FirstOf(free)] = scanned]
              /\ scanned' = scanned + 1
  /\ UNCHANGED <<world, topology, hardware, pc, gathered, wire>>

(* One turn of rank 0's loop over the ranks.                               *)
MatchRank ==
  /\ pc[0] = "match" /\ scanned < world
  /\ LET free == Candidates(scanned) IN
       IF free = {}
         THEN /\ Goto(0, "aborted")
              /\ UNCHANGED <<scanned, rankToNode, nodeToRank>>
         ELSE /\ rankToNode' = [rankToNode EXCEPT ![0][scanned] = FirstOf(free)]
              /\ nodeToRank' = [nodeToRank EXCEPT ![0][FirstOf(free)] = scanned]
              /\ scanned' = scanned + 1
              /\ UNCHANGED pc
  /\ UNCHANGED <<world, topology, hardware, gathered, wire>>

MatchDone ==
  /\ pc[0] = "match" /\ scanned = world
  /\ Goto(0, "bcastRankToNode")
  /\ UNCHANGED <<world, topology, hardware, gathered, scanned,
                 rankToNode, nodeToRank, wire>>

PostRankToNode ==
  /\ pc[0] = "bcastRankToNode"
  /\ wire' = [wire EXCEPT !.rankToNode = rankToNode[0]]
  /\ Goto(0, "bcastNodeToRank")
  /\ UNCHANGED <<world, topology, hardware, gathered, scanned, rankToNode, nodeToRank>>

TakeRankToNode(r) ==
  /\ r # 0 /\ pc[r] = "bcastRankToNode" /\ wire.rankToNode # NotPosted
  /\ rankToNode' = [rankToNode EXCEPT ![r] = wire.rankToNode]
  /\ Goto(r, "bcastNodeToRank")
  /\ UNCHANGED <<world, topology, hardware, gathered, scanned, nodeToRank, wire>>

(* After the second broadcast a rank copies its vectors to the caller's    *)
(* tables and returns: from "done" on, its vectors are those tables.       *)
PostNodeToRank ==
  /\ pc[0] = "bcastNodeToRank"
  /\ wire' = [wire EXCEPT !.nodeToRank = nodeToRank[0]]
  /\ Goto(0, "done")
  /\ UNCHANGED <<world, topology, hardware, gathered, scanned, rankToNode, nodeToRank>>

(* Mutant of TakeNodeToRank: the second table is received and dropped.      *)
TakeNodeToRankDropped(r) ==
  /\ r # 0 /\ pc[r] = "bcastNodeToRank" /\ wire.nodeToRank # NotPosted
  /\ Goto(r, "done")
  /\ UNCHANGED <<world, topology, hardware, gathered, scanned, rankToNode, nodeToRank, wire>>

TakeNodeToRank(r) ==
  /\ r # 0 /\ pc[r] = "bcastNodeToRank" /\ wire.nodeToRank # NotPosted
  /\ nodeToRank' = [nodeToRank EXCEPT ![r] = wire.nodeToRank]
  /\ Goto(r, "done")
  /\ UNCHANGED <<world, topology, hardware, gathered, scanned, rankToNode, wire>>

aborting == \E r \in Ranks : pc[r] = "aborted"

(* MPI_Abort on one rank ends every other rank, at a moment of its own.    *)
Killed(r) ==
  /\ aborting /\ pc[r] \notin {"aborted", "killed"}
  /\ Goto(r, "killed")
  /\ UNCHANGED <<world, topology, hardware, gathered, scanned,
                 rankToNode, nodeToRank, wire>>

AllReturned == \A r \in Ranks : pc[r] \in {"done", "aborted", "killed"}

Terminated ==
  /\ AllReturned
  /\ UNCHANGED vars

RootStep == GatherDone \/ MatchRank \/ MatchDone \/ PostRankToNode \/ PostNodeToRank

RankStep(r) ==
  \/ CheckWorldSize(r)
  \/ SendHardware(r)
  \/ TakeRankToNode(r)
  \/ TakeNodeToRank(r)
  \/ Killed(r)

Next == RootStep \/ (\E r \in Ranks : RankStep(r)) \/ Terminated

(* Every MPI process keeps running, and mpirun delivers an abort.          *)
Fairness == WF_vars(RootStep) /\ \A r \in 0 .. MaxWorld - 1 : WF_vars(r < world /\ RankStep(r))

Spec == Init /\ [][Next]_vars /\ Fairness

-----------------------------------------------------------------------------
Labels == {"start", "gather", "match", "bcastRankToNode", "bcastNodeToRank",
           "done", "aborted", "killed"}

(* Every table a rank holds maps into the configured nodes and the ranks   *)
(* of the job: the emitted program indexes memrefs with these values.      *)
TypeOK ==
  /\ world \in 1 .. MaxWorld
  /\ topology \in [Nodes -> Hardware]
  /\ hardware \in [Ranks -> Hardware]
  /\ pc \in [Ranks -> Labels]
  /\ gathered \subseteq Ranks
  /\ scanned \in 0 .. world
  /\ rankToNode \in [Ranks -> [Ranks -> Nodes \cup {Unset}]]
  /\ nodeToRank \in [Ranks -> [Nodes -> Ranks \cup {Unset}]]
  /\ wire \in [rankToNode : {NotPosted} \cup [Ranks -> Nodes \cup {Unset}],
              nodeToRank : {NotPosted} \cup [Nodes -> Ranks \cup {Unset}]]

(* The tables a rank returns are inverse to each other and pair each rank  *)
(* with a node of its own hardware: "owner rank of node n" and "my node"   *)
(* in the emitted sends and receives name the same process on both sides.  *)
TablesPairUp ==
  \A r \in Ranks : pc[r] = "done" =>
    /\ \A k \in Ranks : /\ rankToNode[r][k] \in Nodes
                        /\ nodeToRank[r][rankToNode[r][k]] = k
                        /\ topology[rankToNode[r][k]] = hardware[k]
    /\ \A n \in Nodes : /\ nodeToRank[r][n] \in Ranks
                        /\ rankToNode[r][nodeToRank[r][n]] = n

(* Any two ranks that have returned hold the same tables, so that they     *)
(* agree on who is the root and who owns a shard.                          *)
RanksAgree ==
  \A r, s \in Ranks : pc[r] = "done" /\ pc[s] = "done" =>
    /\ rankToNode[r] = rankToNode[s]
    /\ nodeToRank[r] = nodeToRank[s]

(* The outcome a caller can observe; abort outweighs a rank that returned. *)
outcome ==
  IF aborting THEN [verdict |-> "abort"]
  ELSE IF \E r \in Ranks : pc[r] = "done"
    THEN [verdict |-> "paired",
          table |-> rankToNode[CHOOSE r \in Ranks : pc[r] = "done"]]
    ELSE [verdict |-> "pending"]

A == INSTANCE Assignment

(* The protocol implements Assignment: it pairs ranks with nodes whenever  *)
(* some pairing exists, aborts only when none does, and always ends one    *)
(* way or the other (lines 61-117).                                        *)
ImplementsAssignment == A!Spec

(* Every rank returns or is terminated: no rank waits in a collective that *)
(* another rank never enters.                                              *)
EveryRankReturns == <>[]AllReturned
=============================================================================

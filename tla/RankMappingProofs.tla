------------------------- MODULE RankMappingProofs -------------------------
(***************************************************************************)
(* For every number of nodes and ranks and every kind of hardware, the     *)
(* tables that buildRankNodeMaps returns pair ranks and nodes one to one,  *)
(* and all ranks return the same ones.                                     *)
(***************************************************************************)
EXTENDS RankMapping, FiniteSetTheorems, WellFoundedInduction, TLAPS

LEMMA FirstOfIsMember ==
  ASSUME NEW S \in SUBSET Nodes, S # {}
  PROVE  FirstOf(S) \in S
  <1>1. Nodes \subseteq Nat
    BY NumNodesAssumption DEF Nodes
  <1>2. PICK x \in S : \A y \in S : ~ (<<y, x>> \in OpToRel(<, Nat))
    BY <1>1, NatLessThanWellFounded, WFMin
  <1>3. OpToRel(<, Nat) = {p \in Nat \X Nat : p[1] < p[2]}
    BY DEF OpToRel
  <1>4. ASSUME NEW y \in S PROVE x <= y
    <2>1. x \in Nat /\ y \in Nat
      BY <1>1
    <2>2. ~ (<<y, x>> \in {p \in Nat \X Nat : p[1] < p[2]})
      BY <1>2, <1>3, Zenon
    <2>3. QED
      BY <2>1, <2>2
  <1>5. QED
    BY <1>4 DEF FirstOf

-----------------------------------------------------------------------------
(* Nobody gets past the size check unless the sizes agree.                 *)
Sized ==
  (scanned > 0 \/ \E r \in Ranks : pc[r] \notin {"start", "aborted", "killed"})
    => world = NumNodes

(* Rank 0's tables are inverse to each other as far as it has scanned.     *)
Matched ==
  /\ \A k \in Ranks : k < scanned =>
       /\ rankToNode[0][k] \in Nodes
       /\ nodeToRank[0][rankToNode[0][k]] = k
       /\ topology[rankToNode[0][k]] = hardware[k]
  /\ \A n \in Nodes : nodeToRank[0][n] # Unset =>
       /\ nodeToRank[0][n] < scanned
       /\ rankToNode[0][nodeToRank[0][n]] = n

(* Rank 0 broadcasts complete tables only.                                 *)
Complete ==
  pc[0] \in {"bcastRankToNode", "bcastNodeToRank", "done"} => scanned = world

Posted ==
  /\ wire.rankToNode # NotPosted => scanned = world /\ wire.rankToNode = rankToNode[0]
  /\ wire.nodeToRank # NotPosted => scanned = world /\ wire.nodeToRank = nodeToRank[0]

(* Past a broadcast, a rank's table is that of rank 0.                     *)
Taken ==
  \A r \in Ranks :
    /\ pc[r] \in {"bcastNodeToRank", "done"} =>
         scanned = world /\ rankToNode[r] = rankToNode[0]
    /\ pc[r] = "done" => nodeToRank[r] = nodeToRank[0]

Inv == TypeOK /\ Sized /\ Matched /\ Complete /\ Posted /\ Taken

(* What every lemma below needs of the ranks.                              *)
LEMMA RanksFacts ==
  ASSUME TypeOK
  PROVE  /\ world \in Nat \ {0} /\ 0 \in Ranks /\ Ranks \subseteq Nat
         /\ scanned \in Nat /\ scanned <= world
         /\ rankToNode[0] \in [Ranks -> Nodes \cup {Unset}]
         /\ nodeToRank[0] \in [Nodes -> Ranks \cup {Unset}]
  BY MaxWorldAssumption DEF TypeOK, Ranks

LEMMA InitInv == Init => Inv
  <1> SUFFICES ASSUME Init PROVE Inv
    OBVIOUS
  <1> USE MaxWorldAssumption, NumNodesAssumption
  <1>1. TypeOK
    BY DEF Init, TypeOK, Ranks, Labels
  <1>2. Sized /\ Complete /\ Taken
    BY <1>1, RanksFacts DEF Init, Sized, Complete, Taken, Ranks
  <1>3. Matched
    BY <1>1, RanksFacts DEF Init, Matched, Ranks
  <1>4. Posted
    BY DEF Init, Posted
  <1>5. QED
    BY <1>1, <1>2, <1>3, <1>4 DEF Inv

(* A step that moves one rank's pc and leaves every table alone.           *)
LEMMA MoveInv ==
  ASSUME Inv, NEW r \in Ranks, NEW label \in Labels,
         pc' = [pc EXCEPT ![r] = label],
         UNCHANGED <<world, topology, hardware, scanned, rankToNode, nodeToRank, wire>>,
         gathered' \in SUBSET Ranks,
         label \in {"start", "aborted", "killed"} \/ world = NumNodes,
         label \in {"bcastRankToNode", "bcastNodeToRank", "done"} /\ r = 0 => scanned = world,
         label \in {"bcastNodeToRank", "done"} => r = 0 /\ scanned = world
  PROVE  Inv'
  <1>1. Ranks' = Ranks
    BY DEF Ranks
  <1>2. \A s \in Ranks : pc'[s] = IF s = r THEN label ELSE pc[s]
    BY DEF Inv, TypeOK
  <1>3. TypeOK'
    BY <1>1 DEF Inv, TypeOK
  <1>4. Sized'
    BY <1>1, <1>2 DEF Inv, Sized
  <1>5. Matched' /\ Posted'
    BY <1>1 DEF Inv, Matched, Posted
  <1>6. Complete'
    BY <1>2, RanksFacts DEF Inv, Complete
  <1>7. Taken'
    BY <1>1, <1>2 DEF Inv, Taken
  <1>8. QED
    BY <1>3, <1>4, <1>5, <1>6, <1>7 DEF Inv

LEMMA CheckWorldSizeInv == ASSUME Inv, NEW r \in Ranks, CheckWorldSize(r) PROVE Inv'
  BY MoveInv DEF CheckWorldSize, Goto, Labels, Inv, TypeOK

LEMMA SendHardwareInv == ASSUME Inv, NEW r \in Ranks, SendHardware(r) PROVE Inv'
  <1>1. world = NumNodes /\ gathered' \in SUBSET Ranks
    BY DEF SendHardware, Inv, Sized, TypeOK
  <1>2. CASE r = 0
    <2>1. UNCHANGED <<world, topology, hardware, pc, scanned, rankToNode, nodeToRank, wire>>
      BY <1>2 DEF SendHardware
    <2>2. Ranks' = Ranks
      BY <2>1 DEF Ranks
    <2>3. QED
      BY <1>1, <2>1, <2>2
      DEF Inv, TypeOK, Sized, Matched, Complete, Posted, Taken
  <1>3. CASE r # 0
    <2>1. /\ pc' = [pc EXCEPT ![r] = "bcastRankToNode"]
          /\ UNCHANGED <<world, topology, hardware, scanned, rankToNode, nodeToRank, wire>>
      BY <1>3 DEF SendHardware, Goto
    <2>2. QED
      BY <1>1, <1>3, <2>1, MoveInv DEF Labels
  <1>4. QED
    BY <1>2, <1>3

LEMMA GatherDoneInv == ASSUME Inv, GatherDone PROVE Inv'
  <1>1. 0 \in Ranks
    BY RanksFacts DEF Inv
  <1>2. world = NumNodes /\ gathered' \in SUBSET Ranks
    BY <1>1 DEF GatherDone, Inv, Sized, TypeOK
  <1>3. QED
    BY <1>1, <1>2, MoveInv DEF GatherDone, Goto, Labels

LEMMA MatchDoneInv == ASSUME Inv, MatchDone PROVE Inv'
  <1>1. 0 \in Ranks
    BY RanksFacts DEF Inv
  <1>2. world = NumNodes /\ scanned = world /\ gathered' \in SUBSET Ranks
    BY <1>1 DEF MatchDone, Inv, Sized, TypeOK
  <1>3. QED
    BY <1>1, <1>2, MoveInv DEF MatchDone, Goto, Labels

LEMMA KilledInv == ASSUME Inv, NEW r \in Ranks, Killed(r) PROVE Inv'
  BY MoveInv DEF Killed, Goto, Labels, Inv, TypeOK

(* A turn of the matching loop that finds a node.                          *)
LEMMA MatchFoundInv ==
  ASSUME Inv, MatchRank, Candidates(scanned) # {}
  PROVE  Inv'
  <1> DEFINE n == FirstOf(Candidates(scanned))
  <1>1. n \in Nodes /\ nodeToRank[0][n] = Unset /\ matchNode(topology[n], hardware[scanned])
    <2>1. Candidates(scanned) \in SUBSET Nodes
      BY DEF Candidates
    <2>2. n \in Candidates(scanned)
      BY <2>1, FirstOfIsMember
    <2>3. QED
      BY <2>2 DEF Candidates
  <1>2. /\ pc[0] = "match" /\ scanned < world /\ scanned' = scanned + 1
        /\ rankToNode' = [rankToNode EXCEPT ![0][scanned] = n]
        /\ nodeToRank' = [nodeToRank EXCEPT ![0][n] = scanned]
        /\ UNCHANGED <<world, topology, hardware, pc, gathered, wire>>
    BY DEF MatchRank
  <1> HIDE DEF n
  <1>3. /\ world \in Nat \ {0} /\ 0 \in Ranks /\ Ranks \subseteq Nat
        /\ scanned \in Nat
        /\ rankToNode[0] \in [Ranks -> Nodes \cup {Unset}]
        /\ nodeToRank[0] \in [Nodes -> Ranks \cup {Unset}]
    BY RanksFacts DEF Inv
  <1>4. scanned \in Ranks /\ Ranks' = Ranks
    BY <1>2, <1>3 DEF Ranks
  <1>5. topology[n] = hardware[scanned]
    BY <1>1, <1>4, HardwareAssumption DEF Inv, TypeOK
  <1>6. /\ rankToNode'[0] = [rankToNode[0] EXCEPT ![scanned] = n]
        /\ nodeToRank'[0] = [nodeToRank[0] EXCEPT ![n] = scanned]
    BY <1>2, <1>3 DEF Inv, TypeOK
  <1>7. TypeOK'
    <2>1. rankToNode' \in [Ranks -> [Ranks -> Nodes \cup {Unset}]]
      BY <1>1, <1>2, <1>4 DEF Inv, TypeOK
    <2>2. nodeToRank' \in [Ranks -> [Nodes -> Ranks \cup {Unset}]]
      BY <1>1, <1>2, <1>4 DEF Inv, TypeOK
    <2>3. scanned' \in 0 .. world
      BY <1>2, <1>3
    <2>4. QED
      BY <1>2, <1>4, <2>1, <2>2, <2>3 DEF Inv, TypeOK
  <1>8. world = NumNodes
    BY <1>2, <1>3 DEF Inv, Sized
  <1>9. Matched'
    <2>1. ASSUME NEW k \in Ranks, k < scanned + 1
          PROVE  /\ rankToNode'[0][k] \in Nodes
                 /\ nodeToRank'[0][rankToNode'[0][k]] = k
                 /\ topology[rankToNode'[0][k]] = hardware[k]
      <3>1. CASE k = scanned
        BY <1>1, <1>3, <1>4, <1>5, <1>6, <3>1
      <3>2. CASE k # scanned
        <4>1. k < scanned
          BY <1>3, <2>1, <3>2
        <4>2. /\ rankToNode[0][k] \in Nodes
              /\ nodeToRank[0][rankToNode[0][k]] = k
              /\ topology[rankToNode[0][k]] = hardware[k]
          BY <4>1 DEF Inv, Matched
        <4>3. k # Unset
          BY <1>3 DEF Unset
        <4>4. QED
          BY <1>1, <1>3, <1>6, <3>2, <4>2, <4>3
      <3>3. QED
        BY <3>1, <3>2
    <2>2. ASSUME NEW m \in Nodes, nodeToRank'[0][m] # Unset
          PROVE  /\ nodeToRank'[0][m] < scanned + 1
                 /\ rankToNode'[0][nodeToRank'[0][m]] = m
      <3>1. CASE m = n
        BY <1>3, <1>4, <1>6, <3>1
      <3>2. CASE m # n
        <4>1. nodeToRank'[0][m] = nodeToRank[0][m] /\ nodeToRank[0][m] \in Ranks
          BY <1>3, <1>6, <2>2, <3>2
        <4>2. /\ nodeToRank[0][m] < scanned
              /\ rankToNode[0][nodeToRank[0][m]] = m
          BY <2>2, <4>1 DEF Inv, Matched
        <4>3. nodeToRank[0][m] \in Nat /\ scanned \in Nat
          BY <1>3, <4>1
        <4>4. nodeToRank[0][m] < scanned + 1
          BY <4>2, <4>3
        <4>5. rankToNode'[0][nodeToRank[0][m]] = rankToNode[0][nodeToRank[0][m]]
          BY <1>6, <4>1, <4>2, <4>3
        <4>6. QED
          BY <4>1, <4>2, <4>4, <4>5
      <3>3. QED
        BY <3>1, <3>2
    <2>3. QED
      BY <1>2, <1>4, <2>1, <2>2 DEF Matched
  <1>10. (Sized /\ Complete)'
    BY <1>2, <1>8 DEF Sized, Complete
  <1>11. Posted'
    BY <1>2, <1>3 DEF Inv, Posted
  <1>12. Taken'
    BY <1>2, <1>3, <1>4 DEF Inv, Taken
  <1>13. QED
    BY <1>7, <1>9, <1>10, <1>11, <1>12 DEF Inv

LEMMA MatchRankInv == ASSUME Inv, MatchRank PROVE Inv'
  <1>1. CASE Candidates(scanned) = {}
    <2>1. 0 \in Ranks /\ gathered' \in SUBSET Ranks
      BY RanksFacts DEF MatchRank, Inv, TypeOK
    <2>2. /\ pc' = [pc EXCEPT ![0] = "aborted"]
          /\ UNCHANGED <<world, topology, hardware, scanned, rankToNode, nodeToRank, wire>>
      BY <1>1 DEF MatchRank, Goto
    <2>3. QED
      BY <2>1, <2>2, MoveInv DEF Labels
  <1>2. QED
    BY <1>1, MatchFoundInv

LEMMA PostRankToNodeInv == ASSUME Inv, PostRankToNode PROVE Inv'
  <1>1. /\ 0 \in Ranks /\ Ranks' = Ranks
        /\ rankToNode[0] \in [Ranks -> Nodes \cup {Unset}]
    BY RanksFacts DEF Inv, PostRankToNode, Ranks
  <1>2. /\ pc[0] = "bcastRankToNode" /\ scanned = world
        /\ pc' = [pc EXCEPT ![0] = "bcastNodeToRank"]
        /\ wire' = [wire EXCEPT !.rankToNode = rankToNode[0]]
        /\ UNCHANGED <<world, topology, hardware, gathered, scanned, rankToNode, nodeToRank>>
    BY DEF PostRankToNode, Goto, Inv, Complete
  <1>3. \A s \in Ranks : pc'[s] = IF s = 0 THEN "bcastNodeToRank" ELSE pc[s]
    BY <1>1, <1>2 DEF Inv, TypeOK
  <1>4. TypeOK'
    BY <1>1, <1>2 DEF Inv, TypeOK, Labels
  <1>5. (Sized /\ Matched /\ Complete)'
    BY <1>1, <1>2, <1>3 DEF Inv, Sized, Matched, Complete
  <1>6. Posted'
    BY <1>2 DEF Inv, TypeOK, Posted
  <1>7. Taken'
    BY <1>1, <1>2, <1>3 DEF Inv, Taken
  <1>8. QED
    BY <1>4, <1>5, <1>6, <1>7 DEF Inv

LEMMA PostNodeToRankInv == ASSUME Inv, PostNodeToRank PROVE Inv'
  <1>1. /\ 0 \in Ranks /\ Ranks' = Ranks
        /\ nodeToRank[0] \in [Nodes -> Ranks \cup {Unset}]
    BY RanksFacts DEF Inv, PostNodeToRank, Ranks
  <1>2. /\ pc[0] = "bcastNodeToRank" /\ scanned = world
        /\ pc' = [pc EXCEPT ![0] = "done"]
        /\ wire' = [wire EXCEPT !.nodeToRank = nodeToRank[0]]
        /\ UNCHANGED <<world, topology, hardware, gathered, scanned, rankToNode, nodeToRank>>
    BY DEF PostNodeToRank, Goto, Inv, Complete
  <1>3. \A s \in Ranks : pc'[s] = IF s = 0 THEN "done" ELSE pc[s]
    BY <1>1, <1>2 DEF Inv, TypeOK
  <1>4. TypeOK'
    BY <1>1, <1>2 DEF Inv, TypeOK, Labels
  <1>5. (Sized /\ Matched /\ Complete)'
    BY <1>1, <1>2, <1>3 DEF Inv, Sized, Matched, Complete
  <1>6. Posted'
    BY <1>2 DEF Inv, TypeOK, Posted
  <1>7. Taken'
    BY <1>1, <1>2, <1>3 DEF Inv, Taken
  <1>8. QED
    BY <1>4, <1>5, <1>6, <1>7 DEF Inv

LEMMA TakeRankToNodeInv == ASSUME Inv, NEW r \in Ranks, TakeRankToNode(r) PROVE Inv'
  <1>1. /\ r # 0 /\ 0 \in Ranks /\ Ranks' = Ranks
        /\ rankToNode[0] \in [Ranks -> Nodes \cup {Unset}]
    BY RanksFacts DEF Inv, TakeRankToNode, Ranks
  <1>2. /\ pc[r] = "bcastRankToNode" /\ scanned = world
        /\ pc' = [pc EXCEPT ![r] = "bcastNodeToRank"]
        /\ rankToNode' = [rankToNode EXCEPT ![r] = rankToNode[0]]
        /\ UNCHANGED <<world, topology, hardware, gathered, scanned, nodeToRank, wire>>
    BY DEF TakeRankToNode, Goto, Inv, Posted
  <1>3. \A s \in Ranks : pc'[s] = IF s = r THEN "bcastNodeToRank" ELSE pc[s]
    BY <1>2 DEF Inv, TypeOK
  <1>4. \A s \in Ranks : rankToNode'[s] = IF s = r THEN rankToNode[0] ELSE rankToNode[s]
    BY <1>2 DEF Inv, TypeOK
  <1>5. TypeOK'
    BY <1>1, <1>2 DEF Inv, TypeOK, Labels
  <1>6. (Sized /\ Complete)'
    BY <1>1, <1>2, <1>3 DEF Inv, Sized, Complete
  <1>7. (Matched /\ Posted)'
    BY <1>1, <1>2, <1>4 DEF Inv, Matched, Posted
  <1>8. Taken'
    BY <1>1, <1>2, <1>3, <1>4 DEF Inv, Taken
  <1>9. QED
    BY <1>5, <1>6, <1>7, <1>8 DEF Inv

LEMMA TakeNodeToRankInv == ASSUME Inv, NEW r \in Ranks, TakeNodeToRank(r) PROVE Inv'
  <1>1. /\ r # 0 /\ 0 \in Ranks /\ Ranks' = Ranks
        /\ nodeToRank[0] \in [Nodes -> Ranks \cup {Unset}]
    BY RanksFacts DEF Inv, TakeNodeToRank, Ranks
  <1>2. /\ pc[r] = "bcastNodeToRank" /\ scanned = world
        /\ pc' = [pc EXCEPT ![r] = "done"]
        /\ nodeToRank' = [nodeToRank EXCEPT ![r] = nodeToRank[0]]
        /\ UNCHANGED <<world, topology, hardware, gathered, scanned, rankToNode, wire>>
    BY DEF TakeNodeToRank, Goto, Inv, Posted
  <1>3. \A s \in Ranks : pc'[s] = IF s = r THEN "done" ELSE pc[s]
    BY <1>2 DEF Inv, TypeOK
  <1>4. \A s \in Ranks : nodeToRank'[s] = IF s = r THEN nodeToRank[0] ELSE nodeToRank[s]
    BY <1>2 DEF Inv, TypeOK
  <1>5. TypeOK'
    BY <1>1, <1>2 DEF Inv, TypeOK, Labels
  <1>6. (Sized /\ Complete)'
    BY <1>1, <1>2, <1>3 DEF Inv, Sized, Complete
  <1>7. (Matched /\ Posted)'
    BY <1>1, <1>2, <1>4 DEF Inv, Matched, Posted
  <1>8. Taken'
    BY <1>1, <1>2, <1>3, <1>4 DEF Inv, Taken
  <1>9. QED
    BY <1>5, <1>6, <1>7, <1>8 DEF Inv

LEMMA StutterInv == ASSUME Inv, UNCHANGED vars PROVE Inv'
  <1>1. Ranks' = Ranks
    BY DEF vars, Ranks
  <1>2. QED
    BY <1>1 DEF vars, Inv, TypeOK, Sized, Matched, Complete, Posted, Taken

LEMMA StepInv == Inv /\ [Next]_vars => Inv'
  BY CheckWorldSizeInv, SendHardwareInv, GatherDoneInv, MatchRankInv, MatchDoneInv,
     PostRankToNodeInv, TakeRankToNodeInv, PostNodeToRankInv, TakeNodeToRankInv,
     KilledInv, StutterInv
  DEF Next, RootStep, RankStep, Terminated

LEMMA InvHolds == Spec => []Inv
  BY InitInv, StepInv, PTL DEF Spec

-----------------------------------------------------------------------------
(* As many ranks as nodes, each on a node of its own: no node is left over. *)
LEMMA NoNodeLeft ==
  ASSUME Inv, scanned = world, world = NumNodes, NEW n \in Nodes
  PROVE  nodeToRank[0][n] # Unset
  <1> DEFINE f == rankToNode[0]
  <1> SUFFICES ASSUME nodeToRank[0][n] = Unset PROVE FALSE
    OBVIOUS
  <1>1. \A k \in Ranks : f[k] \in Nodes /\ nodeToRank[0][f[k]] = k /\ k # Unset
    BY RanksFacts DEF Inv, Matched, Ranks, Unset
  <1>2. f \in [Ranks -> Nodes \ {n}]
    BY <1>1, RanksFacts DEF Inv
  <1>3. IsFiniteSet(Ranks) /\ Cardinality(Ranks) = NumNodes
    BY NumNodesAssumption, FS_Interval DEF Ranks
  <1>4. IsFiniteSet(Nodes) /\ Cardinality(Nodes) = NumNodes
    <2>1. Nodes = Ranks
      BY DEF Nodes, Ranks
    <2>2. QED
      BY <1>3, <2>1
  <1>5. IsFiniteSet(Nodes \ {n}) /\ Cardinality(Nodes \ {n}) = NumNodes - 1
    BY <1>4, FS_RemoveElement
  <1>6. PICK j, k \in Ranks : j # k /\ f[j] = f[k]
    <2>1. Cardinality(Nodes \ {n}) < Cardinality(Ranks)
      BY <1>3, <1>5, NumNodesAssumption
    <2>2. QED
      BY <1>2, <1>3, <1>5, <2>1, FS_PigeonHole
  <1>7. QED
    BY <1>1, <1>6

(* Every table stays within the configured nodes and the ranks of the job  *)
(* (runtimeHardwareMapping.cc:83-116).                                     *)
THEOREM TypeCorrect == Spec => []TypeOK
  <1>1. Inv => TypeOK
    BY DEF Inv
  <1>2. QED
    BY <1>1, InvHolds, PTL

(* A returned pair of tables is a bijection between ranks and nodes that   *)
(* respects the hardware (runtimeHardwareMapping.cc:61-117).               *)
THEOREM TablesAlwaysPairUp == Spec => []TablesPairUp
  <1>1. ASSUME Inv, NEW r \in Ranks, pc[r] = "done"
        PROVE  /\ \A k \in Ranks : /\ rankToNode[r][k] \in Nodes
                                   /\ nodeToRank[r][rankToNode[r][k]] = k
                                   /\ topology[rankToNode[r][k]] = hardware[k]
               /\ \A n \in Nodes : /\ nodeToRank[r][n] \in Ranks
                                   /\ rankToNode[r][nodeToRank[r][n]] = n
    <2>1. /\ scanned = world /\ rankToNode[r] = rankToNode[0]
          /\ nodeToRank[r] = nodeToRank[0]
      BY <1>1 DEF Inv, Taken
    <2>2. world = NumNodes
      BY <1>1 DEF Inv, Sized
    <2>3. \A k \in Ranks : k < scanned
      <3>1. world \in Nat
        BY <1>1, RanksFacts DEF Inv
      <3>2. QED
        BY <2>1, <3>1 DEF Ranks
    <2>4. \A n \in Nodes : nodeToRank[0][n] \in Ranks /\ rankToNode[0][nodeToRank[0][n]] = n
      BY <2>1, <2>2, <1>1, NoNodeLeft, RanksFacts DEF Inv, Matched
    <2>5. QED
      BY <1>1, <2>1, <2>3, <2>4 DEF Inv, Matched
  <1>2. Inv => TablesPairUp
    BY <1>1 DEF TablesPairUp
  <1>3. QED
    BY <1>2, InvHolds, PTL

(* Two ranks that have returned name the same root and the same owners     *)
(* (runtimeHardwareMapping.cc:112-116).                                    *)
THEOREM RanksAlwaysAgree == Spec => []RanksAgree
  <1>1. Inv => RanksAgree
    BY DEF Inv, Taken, RanksAgree
  <1>2. QED
    BY <1>1, InvHolds, PTL

-----------------------------------------------------------------------------
(* RankMapping implements Assignment.  The hard half is that rank 0's      *)
(* first-fit loop gives up only when no pairing exists at all: a free rank *)
(* of some hardware whose nodes are all taken would have to share a node   *)
(* with one of the ranks of that hardware matched before it.               *)

LEMMA PairingMeaning ==
  ASSUME NEW f
  PROVE  f \in A!Pairings <=> /\ f \in [Ranks -> Nodes]
                              /\ \A j, k \in Ranks : f[j] = f[k] => j = k
                              /\ \A n \in Nodes : \E k \in Ranks : f[k] = n
                              /\ \A k \in Ranks : topology[f[k]] = hardware[k]
  BY DEF A!Pairings, A!OneToOne, A!Onto, A!Ranks, A!Nodes, Ranks, Nodes

(* A job of another size than the topology has no pairing.                 *)
LEMMA SizesMustAgree ==
  ASSUME TypeOK, world # NumNodes
  PROVE  A!Pairings = {}
  <1> SUFFICES ASSUME NEW f \in A!Pairings PROVE FALSE
    OBVIOUS
  <1>1. /\ f \in [Ranks -> Nodes]
        /\ \A j, k \in Ranks : f[j] = f[k] => j = k
        /\ \A n \in Nodes : \E k \in Ranks : f[k] = n
    BY PairingMeaning
  <1>2. world \in Nat \ {0} /\ NumNodes \in Nat \ {0}
    BY RanksFacts, NumNodesAssumption
  <1>3. IsFiniteSet(Ranks) /\ Cardinality(Ranks) = world
    BY <1>2, FS_Interval DEF Ranks
  <1>4. IsFiniteSet(Nodes) /\ Cardinality(Nodes) = NumNodes
    BY <1>2, FS_Interval DEF Nodes
  <1>5. CASE NumNodes < world
    BY <1>1, <1>3, <1>4, <1>5, FS_PigeonHole
  <1>6. CASE world < NumNodes
    <2> DEFINE g == [n \in Nodes |-> CHOOSE k \in Ranks : f[k] = n]
    <2>1. \A n \in Nodes : g[n] \in Ranks /\ f[g[n]] = n
      BY <1>1
    <2>2. g \in [Nodes -> Ranks]
      BY <1>1
    <2> HIDE DEF g
    <2>3. PICK m, n \in Nodes : m # n /\ g[m] = g[n]
      BY <1>3, <1>4, <1>6, <2>2, FS_PigeonHole
    <2>4. QED
      BY <2>1, <2>3
  <1>7. QED
    BY <1>2, <1>5, <1>6

(* First fit fails only where every assignment fails.                      *)
LEMMA FirstFitIsEnough ==
  ASSUME Inv, MatchRank, Candidates(scanned) = {}
  PROVE  A!Pairings = {}
  <1> SUFFICES ASSUME NEW f \in A!Pairings PROVE FALSE
    OBVIOUS
  <1>1. /\ f \in [Ranks -> Nodes]
        /\ \A j, k \in Ranks : f[j] = f[k] => j = k
        /\ \A k \in Ranks : topology[f[k]] = hardware[k]
    BY PairingMeaning
  <1>2. /\ world \in Nat /\ Ranks \subseteq Nat /\ scanned \in Nat /\ scanned \in Ranks
        /\ nodeToRank[0] \in [Nodes -> Ranks \cup {Unset}]
    BY RanksFacts DEF Inv, MatchRank, Ranks
  <1> DEFINE same == {k \in Ranks : k < scanned /\ hardware[k] = hardware[scanned]}
             here == same \cup {scanned}
             g == [k \in here |-> nodeToRank[0][f[k]]]
  <1>3. ASSUME NEW k \in here
        PROVE  /\ f[k] \in Nodes /\ nodeToRank[0][f[k]] \in same
               /\ rankToNode[0][nodeToRank[0][f[k]]] = f[k]
    <2>1. k \in Ranks /\ hardware[k] = hardware[scanned]
      BY <1>2
    <2>2. f[k] \in Nodes /\ topology[f[k]] = hardware[scanned]
      BY <1>1, <2>1
    <2>3. matchNode(topology[f[k]], hardware[scanned])
      BY <2>2 DEF matchNode
    <2>4. nodeToRank[0][f[k]] # Unset
      BY <2>2, <2>3 DEF Candidates
    <2>5. /\ nodeToRank[0][f[k]] \in Ranks /\ nodeToRank[0][f[k]] < scanned
          /\ rankToNode[0][nodeToRank[0][f[k]]] = f[k]
      BY <1>2, <2>2, <2>4 DEF Inv, Matched
    <2>6. hardware[nodeToRank[0][f[k]]] = topology[f[k]]
      BY <2>5 DEF Inv, Matched
    <2>7. QED
      BY <2>2, <2>5, <2>6
  <1>4. IsFiniteSet(same) /\ Cardinality(same) \in Nat
    <2>1. IsFiniteSet(Ranks)
      BY <1>2, FS_Interval DEF Ranks
    <2>2. same \subseteq Ranks
      OBVIOUS
    <2>3. QED
      BY <2>1, <2>2, FS_Subset, FS_CardinalityType
  <1>5. scanned \notin same /\ here \subseteq Ranks
    BY <1>2
  <1> HIDE DEF same
  <1>6. IsFiniteSet(here) /\ Cardinality(here) = Cardinality(same) + 1
    BY <1>4, <1>5, FS_AddElement
  <1> HIDE DEF here
  <1>7. g \in [here -> same]
    BY <1>3
  <1>8. \A k \in here : g[k] = nodeToRank[0][f[k]]
    OBVIOUS
  <1> HIDE DEF g
  <1>9. PICK j, k \in here : j # k /\ g[j] = g[k]
    <2>1. Cardinality(same) < Cardinality(here)
      BY <1>4, <1>6
    <2>2. QED
      BY <1>4, <1>6, <1>7, <2>1, FS_PigeonHole
  <1>10. f[j] = f[k]
    BY <1>3, <1>8, <1>9
  <1>11. QED
    BY <1>1, <1>5, <1>9, <1>10

Returned == \E r \in Ranks : pc[r] = "done"

LEMMA NewAbort ==
  ASSUME Inv, Next, ~ aborting, aborting'
  PROVE  A!Pairings = {} /\ ~ Returned
  <1>1. TypeOK /\ 0 \in Ranks /\ pc \in [Ranks -> Labels] /\ world \in Nat
    BY RanksFacts DEF Inv, TypeOK
  <1>2. Ranks' = Ranks
    BY DEF Next, RootStep, RankStep, Terminated, vars, Ranks, GatherDone, MatchRank, MatchDone,
           PostRankToNode, PostNodeToRank, CheckWorldSize, SendHardware, TakeRankToNode,
           TakeNodeToRank, Killed
  <1>3. \A r \in Ranks : pc[r] # "aborted"
    BY DEF aborting
  <1>4. \/ MatchRank /\ Candidates(scanned) = {}
        \/ \E r \in Ranks : CheckWorldSize(r) /\ world # NumNodes
    <2>1. PICK q \in Ranks : pc'[q] = "aborted"
      BY <1>2 DEF aborting
    <2>2. pc' # pc
      BY <1>3, <2>1
    <2>3. CASE MatchRank
      BY <2>2, <2>3 DEF MatchRank
    <2>4. CASE GatherDone \/ MatchDone \/ PostRankToNode \/ PostNodeToRank
      BY <1>1, <1>3, <2>1, <2>4 DEF GatherDone, MatchDone, PostRankToNode, PostNodeToRank, Goto
    <2>5. CASE \E r \in Ranks : CheckWorldSize(r)
      BY <1>1, <1>3, <2>1, <2>5 DEF CheckWorldSize, Goto
    <2>6. CASE \E r \in Ranks : SendHardware(r) \/ TakeRankToNode(r) \/ TakeNodeToRank(r) \/ Killed(r)
      BY <1>1, <1>3, <2>1, <2>6 DEF SendHardware, TakeRankToNode, TakeNodeToRank, Killed, Goto
    <2>7. CASE Terminated
      BY <2>2, <2>7 DEF Terminated, vars
    <2>8. QED
      BY <2>3, <2>4, <2>5, <2>6, <2>7 DEF Next, RootStep, RankStep
  <1>5. CASE MatchRank /\ Candidates(scanned) = {}
    <2>1. scanned < world /\ scanned \in Nat
      BY <1>1, <1>5, RanksFacts DEF MatchRank
    <2>2. ~ Returned
      BY <1>1, <2>1 DEF Inv, Taken, Returned
    <2>3. QED
      BY <1>5, <2>2, FirstFitIsEnough
  <1>6. CASE \E r \in Ranks : CheckWorldSize(r) /\ world # NumNodes
    <2>1. ~ Returned
      BY <1>6 DEF Inv, Sized, Returned
    <2>2. QED
      BY <1>1, <1>6, <2>1, SizesMustAgree
  <1>7. QED
    BY <1>4, <1>5, <1>6

(* What the caller sees, in terms of rank 0's table.                       *)
Verdict == outcome = IF aborting THEN A!Abort
                     ELSE IF Returned THEN A!Paired(rankToNode[0]) ELSE A!Pending

Backed == Returned => rankToNode[0] \in A!Pairings

LEMMA OutcomeIs == ASSUME Inv PROVE Verdict
  <1>1. \A r \in Ranks : pc[r] = "done" => rankToNode[r] = rankToNode[0]
    BY DEF Inv, Taken
  <1>2. Returned => rankToNode[CHOOSE r \in Ranks : pc[r] = "done"] = rankToNode[0]
    BY <1>1 DEF Returned
  <1>3. QED
    BY <1>2 DEF Verdict, outcome, Returned, A!Abort, A!Paired, A!Pending

LEMMA ReturnedIsPairing == ASSUME Inv PROVE Backed
  <1> SUFFICES ASSUME Returned PROVE rankToNode[0] \in A!Pairings
    BY DEF Backed
  <1>1. scanned = world /\ world = NumNodes /\ world \in Nat
    BY RanksFacts DEF Inv, Taken, Sized, Returned
  <1>2. \A k \in Ranks : /\ rankToNode[0][k] \in Nodes /\ nodeToRank[0][rankToNode[0][k]] = k
                         /\ topology[rankToNode[0][k]] = hardware[k]
    BY <1>1 DEF Inv, Matched, Ranks
  <1>3. \A n \in Nodes : nodeToRank[0][n] \in Ranks /\ rankToNode[0][nodeToRank[0][n]] = n
    BY <1>1, NoNodeLeft, RanksFacts DEF Inv, Matched
  <1>4. rankToNode[0] \in [Ranks -> Nodes]
    BY <1>2, RanksFacts DEF Inv
  <1>5. QED
    BY <1>2, <1>3, <1>4, PairingMeaning

(* A verdict, once given, stands.                                          *)
LEMMA VerdictStands ==
  ASSUME Inv, [Next]_vars
  PROVE  /\ UNCHANGED <<world, topology, hardware>>
         /\ aborting => aborting'
         /\ ~ aborting /\ Returned => Returned' /\ rankToNode'[0] = rankToNode[0]
  <1>1. TypeOK /\ pc \in [Ranks -> Labels] /\ 0 \in Ranks
    BY RanksFacts DEF Inv, TypeOK
  <1>2. UNCHANGED <<world, topology, hardware>> /\ Ranks' = Ranks
    BY DEF Next, RootStep, RankStep, Terminated, vars, Ranks, GatherDone, MatchRank, MatchDone,
           PostRankToNode, PostNodeToRank, CheckWorldSize, SendHardware, TakeRankToNode,
           TakeNodeToRank, Killed
  <1>3. ASSUME NEW q \in Ranks, pc[q] = "aborted" PROVE pc'[q] = "aborted"
    BY <1>1, <1>3
    DEF Next, RootStep, RankStep, Terminated, vars, GatherDone, MatchRank, MatchDone,
        PostRankToNode, PostNodeToRank, CheckWorldSize, SendHardware, TakeRankToNode,
        TakeNodeToRank, Killed, Goto
  <1>4. ASSUME NEW q \in Ranks, pc[q] = "done", ~ aborting PROVE pc'[q] = "done"
    BY <1>1, <1>4
    DEF Next, RootStep, RankStep, Terminated, vars, GatherDone, MatchRank, MatchDone,
        PostRankToNode, PostNodeToRank, CheckWorldSize, SendHardware, TakeRankToNode,
        TakeNodeToRank, Killed, Goto
  <1>5. ASSUME NEW q \in Ranks, pc[q] = "done" PROVE rankToNode'[0] = rankToNode[0]
    <2>1. scanned = world /\ world \in Nat
      BY <1>1, <1>5, RanksFacts DEF Inv, Taken
    <2>2. ~ MatchRank
      BY <2>1 DEF MatchRank
    <2>3. CASE \E r \in Ranks : TakeRankToNode(r)
      BY <1>1, <2>3 DEF TakeRankToNode, TypeOK
    <2>4. QED
      BY <2>2, <2>3
      DEF Next, RootStep, RankStep, Terminated, vars, GatherDone, MatchDone, PostRankToNode,
          PostNodeToRank, CheckWorldSize, SendHardware, TakeNodeToRank, Killed
  <1>6. QED
    BY <1>2, <1>3, <1>4, <1>5 DEF aborting, Returned

(* Every behaviour of the protocol is one of Assignment, its liveness      *)
(* aside: the caller is given a pairing of ranks and nodes, or the job     *)
(* aborts, and it does so only when there is no pairing to give            *)
(* (runtimeHardwareMapping.cc:61-117).                                     *)
THEOREM RefinesAssignment == Spec => A!Safety
  <1>1. Inv => Verdict /\ Backed
    BY OutcomeIs, ReturnedIsPairing
  <1>2. Inv' => Verdict' /\ Backed'
    BY <1>1, PTL
  <1>3. Init => A!Init
    <2>1. Init => ~ aborting /\ ~ Returned
      BY DEF Init, aborting, Returned
    <2>2. QED
      BY <1>1, <2>1, InitInv DEF A!Init, Verdict
  <1>4. Inv /\ Inv' /\ [Next]_vars => [A!Next]_A!vars
    <2> SUFFICES ASSUME Inv, Inv', [Next]_vars PROVE [A!Next]_A!vars
      OBVIOUS
    <2>1. UNCHANGED <<world, topology, hardware>>
      BY VerdictStands
    <2>2. A!Pairings' = A!Pairings
      BY <2>1 DEF A!Pairings, A!OneToOne, A!Onto, A!Ranks, A!Nodes
    <2>3. CASE aborting
      BY <1>1, <1>2, <2>1, <2>3, VerdictStands DEF A!vars, Verdict
    <2>4. CASE ~ aborting /\ aborting'
      <3>1. Next
        BY <2>4 DEF vars, aborting, Ranks
      <3>2. A!Pairings = {} /\ ~ Returned
        BY <2>4, <3>1, NewAbort
      <3>3. outcome = A!Pending /\ outcome' = A!Abort
        BY <1>1, <1>2, <2>4, <3>2 DEF Verdict
      <3>4. A!GiveUp
        BY <3>2, <3>3 DEF A!GiveUp
      <3>5. QED
        BY <2>1, <3>4 DEF A!Next
    <2>5. CASE ~ aborting' /\ ~ aborting /\ Returned
      BY <1>1, <1>2, <2>1, <2>5, VerdictStands DEF A!vars, Verdict
    <2>6. CASE ~ aborting' /\ ~ aborting /\ ~ Returned /\ Returned'
      <3>1. rankToNode'[0] \in A!Pairings
        BY <1>2, <2>2, <2>6 DEF Backed
      <3>2. outcome = A!Pending /\ outcome' = A!Paired(rankToNode'[0])
        BY <1>1, <1>2, <2>6 DEF Verdict
      <3>3. A!Assign
        BY <3>1, <3>2 DEF A!Assign
      <3>4. QED
        BY <2>1, <3>3 DEF A!Next
    <2>7. CASE ~ aborting' /\ ~ aborting /\ ~ Returned /\ ~ Returned'
      BY <1>1, <1>2, <2>1, <2>7 DEF A!vars, Verdict
    <2>8. QED
      BY <2>3, <2>4, <2>5, <2>6, <2>7
  <1>5. QED
    BY <1>3, <1>4, InvHolds, PTL DEF Spec, A!Safety
=============================================================================

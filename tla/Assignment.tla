----------------------------- MODULE Assignment -----------------------------
(***************************************************************************)
(* What buildRankNodeMaps promises its caller, the function every emitted  *)
(* schedule starts with: the ranks of the job are paired one to one with   *)
(* the nodes of the configured topology, hardware for hardware; the job is *)
(* aborted exactly when no such pairing exists.  How ranks talk to each    *)
(* other to get there is the business of RankMapping.                      *)
(***************************************************************************)
EXTENDS Integers

CONSTANT
  NumNodes   \* RuntimeTopology.numNodes

VARIABLES
  world,     \* number of ranks of the job
  topology,  \* hardware of each configured node
  hardware,  \* hardware each rank really runs on
  outcome    \* the verdict, with the table from ranks to nodes

vars == <<world, topology, hardware, outcome>>

Pending == [verdict |-> "pending"]
Abort == [verdict |-> "abort"]
Paired(f) == [verdict |-> "paired", table |-> f]

Nodes == 0 .. NumNodes - 1
Ranks == 0 .. world - 1

Onto(f, S) == \A s \in S : \E x \in DOMAIN f : f[x] = s

OneToOne(f) == \A x, y \in DOMAIN f : f[x] = f[y] => x = y

Pairings ==
  {f \in [Ranks -> Nodes] : /\ OneToOne(f)
                            /\ Onto(f, Nodes)
                            /\ \A r \in Ranks : topology[f[r]] = hardware[r]}

Init == outcome = Pending

Assign ==
  /\ outcome = Pending
  /\ \E f \in Pairings : outcome' = Paired(f)

GiveUp ==
  /\ outcome = Pending
  /\ Pairings = {}
  /\ outcome' = Abort

Next ==
  /\ Assign \/ GiveUp
  /\ UNCHANGED <<world, topology, hardware>>

Safety == Init /\ [][Next]_vars

Spec == Safety /\ WF_vars(Next)
=============================================================================

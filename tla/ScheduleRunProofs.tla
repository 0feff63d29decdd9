-------------------------- MODULE ScheduleRunProofs --------------------------
(***************************************************************************)
(* For every text of the shape the lowering emits, every number of ranks,  *)
(* every rank to node table and every mix of buffered and blocking sends,  *)
(* each receive takes the slab it stands for, although every message has   *)
(* tag 0, nothing is under way once all ranks have returned, no rank waits *)
(* for ever, and a rank reaches each instruction with the memory Lockstep  *)
(* gives it there.  What holds of a text when all ranks go through it      *)
(* together then holds of the concurrent program: fresh reads, the result  *)
(* at the root, and a root that only gains.                                *)
(*                                                                         *)
(* The channel from s to d holds exactly the transfers that s has sent and *)
(* d has not reached, in the order of the text.  A rank that moves on      *)
(* passes only instructions that do not concern it, so it never leaves one *)
(* of its transfers behind.                                                *)
(***************************************************************************)
EXTENDS ScheduleRun, Lockstep, FiniteSetTheorems, WellFoundedInduction, TLAPS

LEMMA LeastMember ==
  ASSUME NEW S \in SUBSET Nat, S # {}
  PROVE  \E x \in S : \A y \in S : x <= y
  <1>1. PICK x \in S : \A y \in S : ~ (<<y, x>> \in OpToRel(<, Nat))
    BY NatLessThanWellFounded, WFMin
  <1>2. OpToRel(<, Nat) = {p \in Nat \X Nat : p[1] < p[2]}
    BY DEF OpToRel
  <1>3. ASSUME NEW y \in S PROVE x <= y
    <2>1. ~ (<<y, x>> \in {p \in Nat \X Nat : p[1] < p[2]})
      BY <1>1, <1>2, Zenon
    <2>2. QED
      BY <2>1
  <1>4. QED
    BY <1>3

LEMMA RootIsARank ==
  0 \in Ranks /\ rootRank \in Ranks /\ Ranks \subseteq Nat /\ Destinations \subseteq Ranks
  BY RanksAssumption, NodeToRankAssumption DEF Ranks, rootRank, Destinations

-----------------------------------------------------------------------------
Transfer == {"gather", "broadcast"}
Slabs == {program[k].slab : k \in {j \in DOMAIN program : program[j].op \in Transfer}}
Messages == [place : DOMAIN program, slab : Slabs, data : Seq([Parts -> Int])]

Typed ==
  /\ WellFormedText(program)
  /\ ip \in [Ranks -> DOMAIN program]
  /\ target \in 0 .. NumRanks
  /\ mode \in [Ranks -> {"run", "sending", "barrier"}]
  /\ barriers \in [Ranks -> Nat]
  /\ channel \in [Ranks -> [Ranks -> Seq(Messages)]]
  /\ copy \in [Ranks -> [AllCells -> Versions]]

(* Every rank stands at an instruction of its own.                         *)
Standing == \A r \in Ranks : Concerns(program[ip[r]], r)

(* What a rank is in the middle of; the root's loop has somebody to serve. *)
Busy ==
  /\ \A r \in Ranks :
       /\ mode[r] = "barrier" => program[ip[r]].op = "barrier"
       /\ mode[r] = "sending" => \/ program[ip[r]].op = "gather" /\ r # rootRank
                                 \/ program[ip[r]].op = "broadcast" /\ r = rootRank
  /\ IF program[ip[rootRank]].op = "broadcast"
       THEN \E d \in Destinations : d >= target
       ELSE target = 0

(* Instruction k moves a slab from s to d.                                 *)
Carries(k, s, d) ==
  \/ program[k].op = "gather" /\ s = NodeToRank[program[k].owner] /\ d = rootRank
  \/ program[k].op = "broadcast" /\ s = rootRank /\ d \in Destinations

Sent(k, s, d) ==
  \/ k < ip[s]
  \/ k = ip[s] /\ s = rootRank /\ d < target
  \/ k = ip[s] /\ mode[s] = "sending" /\ d = SendTo(s)

(* The transfers from s that d has still to take.                          *)
Due(s, d) == {k \in DOMAIN program : Carries(k, s, d) /\ Sent(k, s, d) /\ ip[d] <= k}

(* messages are the transfers in places, in the order of the text.         *)
Holds(messages, code, places) ==
  /\ \A i \in 1 .. Len(messages) :
       /\ messages[i].place \in places
       /\ messages[i].slab = code[messages[i].place].slab
       /\ Len(messages[i].data) = messages[i].slab.len
  /\ \A i, j \in 1 .. Len(messages) : i < j => messages[i].place < messages[j].place
  /\ \A k \in places : \E i \in 1 .. Len(messages) : messages[i].place = k

InOrder == \A s, d \in Ranks : Holds(channel[s][d], program, Due(s, d))

(* No rank gets past a transfer before it has been sent to it.             *)
NotAhead ==
  \A s, d \in Ranks : \A k \in DOMAIN program :
    Carries(k, s, d) /\ k < ip[d] => Sent(k, s, d)

IInv == Typed /\ Standing /\ Busy /\ InOrder /\ NotAhead

-----------------------------------------------------------------------------
LEMMA CarriesConcerns ==
  ASSUME Typed, NEW k \in DOMAIN program, NEW s \in Ranks, NEW d \in Ranks, Carries(k, s, d)
  PROVE  /\ Concerns(program[k], s) /\ Concerns(program[k], d) /\ s # d
         /\ program[k].op \in Transfer
         /\ \A t \in Ranks : Carries(k, t, d) => t = s
         /\ ~ Carries(k, d, s)
         /\ \A t \in Ranks : ~ Carries(k, d, t) /\ ~ Carries(k, t, s)
  <1>1. CASE program[k].op = "gather"
    <2>1. program[k].owner \in Ranks \ {0}
      BY <1>1 DEF Typed, WellFormedText
    <2>2. NodeToRank[program[k].owner] # rootRank
      BY <2>1, NodeToRankAssumption, RootIsARank DEF rootRank
    <2>3. QED
      BY <1>1, <2>2 DEF Carries, Concerns, InGather, Transfer
  <1>2. CASE program[k].op = "broadcast"
    BY <1>2 DEF Carries, Concerns, InBroadcast, Transfer, Destinations
  <1>3. QED
    BY <1>1, <1>2 DEF Carries

(* A rank moves to the next instruction that concerns it.                  *)
LEMMA NextConcerns ==
  ASSUME NEW code, WellFormedText(code), NEW r \in Ranks, NEW k \in 0 .. Len(code) - 1
  PROVE  LET n == NextFor(code, r, k)
         IN  /\ n \in DOMAIN code /\ k < n /\ Concerns(code[n], r)
             /\ \A j \in DOMAIN code : k < j /\ Concerns(code[j], r) => n <= j
  <1> DEFINE ahead == {j \in k + 1 .. Len(code) : Concerns(code[j], r)}
  <1>1. Len(code) \in Nat \ {0} /\ DOMAIN code = 1 .. Len(code) /\ code[Len(code)].op = "return"
    BY DEF WellFormedText
  <1>2. Len(code) \in ahead
    BY <1>1 DEF Concerns
  <1>3. ahead \in SUBSET Nat
    BY <1>1
  <1>4. \E j \in ahead : \A i \in ahead : j <= i
    BY <1>2, <1>3, LeastMember
  <1>5. NextFor(code, r, k) \in ahead /\ \A i \in ahead : NextFor(code, r, k) <= i
    BY <1>4 DEF NextFor
  <1>6. QED
    BY <1>1, <1>5

LEMMA NextOfRank ==
  ASSUME Typed, NEW r \in Ranks, program[ip[r]].op # "return"
  PROVE  LET n == NextFor(program, r, ip[r])
         IN  /\ n \in DOMAIN program /\ ip[r] < n /\ Concerns(program[n], r)
             /\ \A j \in DOMAIN program : ip[r] < j /\ Concerns(program[j], r) => n <= j
  <1>1. ip[r] \in 1 .. Len(program) /\ ip[r] # Len(program) /\ Len(program) \in Nat
    BY DEF Typed, WellFormedText
  <1>2. ip[r] \in 0 .. Len(program) - 1
    BY <1>1
  <1>3. QED
    BY <1>2, NextConcerns DEF Typed

(* Who a sender sends to.                                                  *)
Sends(r) ==
  \/ program[ip[r]].op = "gather" /\ r # rootRank
  \/ program[ip[r]].op = "broadcast" /\ r = rootRank

LEMMA SenderServes ==
  ASSUME Typed, Standing, Busy, NEW r \in Ranks, Sends(r)
  PROVE  /\ SendTo(r) \in Ranks /\ Carries(ip[r], r, SendTo(r))
         /\ program[ip[r]].op = "broadcast" =>
              /\ SendTo(r) \in Destinations /\ SendTo(r) >= target
              /\ \A d \in Destinations : d >= target => SendTo(r) <= d
         /\ \A d \in Ranks : Carries(ip[r], r, d) =>
              \/ d = SendTo(r)
              \/ r = rootRank /\ program[ip[r]].op = "broadcast"
  <1>1. CASE program[ip[r]].op = "gather" /\ r # rootRank
    <2>1. r = NodeToRank[program[ip[r]].owner]
      BY <1>1 DEF Standing, Concerns, InGather
    <2>2. QED
      BY <1>1, <2>1, RootIsARank DEF SendTo, instruction, Carries
  <1>2. CASE program[ip[r]].op = "broadcast" /\ r = rootRank
    <2> DEFINE open == {d \in Destinations : d >= target}
    <2>1. open # {} /\ open \in SUBSET Nat
      BY <1>2, RootIsARank DEF Busy
    <2>2. \E d \in open : \A e \in open : d <= e
      BY <2>1, LeastMember
    <2>3. \E d \in Destinations :
            d >= target /\ \A e \in Destinations : e >= target => d <= e
      BY <2>2
    <2>4. SendTo(r) = CHOOSE d \in Destinations :
                        d >= target /\ \A e \in Destinations : e >= target => d <= e
      BY <1>2 DEF SendTo, instruction
    <2>5. /\ SendTo(r) \in Destinations /\ SendTo(r) >= target
          /\ \A d \in Destinations : d >= target => SendTo(r) <= d
      BY <2>3, <2>4
    <2>6. QED
      BY <1>2, <2>5, RootIsARank DEF Carries
  <1>3. QED
    BY <1>1, <1>2 DEF Sends

LEMMA CarrierSends ==
  ASSUME Typed, NEW r \in Ranks, NEW d \in Ranks, Carries(ip[r], r, d)
  PROVE  Sends(r)
  <1>1. ip[r] \in DOMAIN program
    BY DEF Typed
  <1>2. r # d
    BY <1>1, CarriesConcerns
  <1>3. QED
    BY <1>2 DEF Carries, Sends

-----------------------------------------------------------------------------
(* A step that takes r past an instruction in which it sends nothing.      *)
LEMMA Passing ==
  ASSUME Typed, Standing, Busy, NEW r \in Ranks, ~ Sends(r), program[ip[r]].op # "return",
         Advance(r), mode' = [mode EXCEPT ![r] = "run"], UNCHANGED <<program, target>>
  PROVE  /\ ip' \in [Ranks -> DOMAIN program] /\ mode' \in [Ranks -> {"run", "sending", "barrier"}]
         /\ Standing' /\ Busy'
         /\ \A s, d \in Ranks : \A k \in DOMAIN program : Carries(k, s, d) =>
              /\ Sent(k, s, d)' <=> Sent(k, s, d)
              /\ ip'[d] <= k <=> ip[d] <= k /\ ~ (d = r /\ k = ip[r])
  <1> DEFINE n == NextFor(program, r, ip[r])
  <1>1. /\ n \in DOMAIN program /\ ip[r] < n /\ Concerns(program[n], r)
        /\ \A j \in DOMAIN program : ip[r] < j /\ Concerns(program[j], r) => n <= j
    BY NextOfRank
  <1>2. ip' = [ip EXCEPT ![r] = n] /\ ip \in [Ranks -> DOMAIN program]
    BY DEF Advance, Typed
  <1>3. mode \in [Ranks -> {"run", "sending", "barrier"}] /\ target \in 0 .. NumRanks
    BY DEF Typed
  <1>4. DOMAIN program \subseteq Nat
    BY DEF Typed, WellFormedText
  <1> HIDE DEF n
  <1>5. Standing'
    BY <1>1, <1>2 DEF Standing, Concerns
  <1>6. Busy'
    <2>1. ASSUME NEW q \in Ranks
          PROVE  /\ mode'[q] = "barrier" => program[ip'[q]].op = "barrier"
                 /\ mode'[q] = "sending" => \/ program[ip'[q]].op = "gather" /\ q # rootRank
                                            \/ program[ip'[q]].op = "broadcast" /\ q = rootRank
      BY <1>2, <1>3 DEF Busy
    <2>2. CASE r = rootRank
      <3>1. target = 0
        BY <2>2 DEF Busy, Sends
      <3>2. program[n].op = "broadcast" => Destinations # {}
        BY <1>1, <2>2 DEF Concerns, InBroadcast
      <3>3. \A d \in Destinations : d >= 0
        BY RootIsARank
      <3>4. ip'[rootRank] = n
        BY <1>2, <2>2
      <3>5. QED
        BY <2>1, <3>1, <3>2, <3>3, <3>4 DEF Busy
    <2>3. CASE r # rootRank
      <3>1. ip'[rootRank] = ip[rootRank]
        BY <1>2, <2>3, RootIsARank
      <3>2. QED
        BY <2>1, <3>1 DEF Busy
    <2>4. QED
      BY <2>2, <2>3
  <1>7. ASSUME NEW s \in Ranks, NEW d \in Ranks, NEW k \in DOMAIN program, Carries(k, s, d)
        PROVE  /\ Sent(k, s, d)' <=> Sent(k, s, d)
               /\ ip'[d] <= k <=> ip[d] <= k /\ ~ (d = r /\ k = ip[r])
    <2>1. Concerns(program[k], s) /\ Concerns(program[k], d)
      BY <1>7, CarriesConcerns
    <2>2. ip[r] \in Nat /\ n \in Nat /\ k \in Nat /\ ip[d] \in Nat /\ ip[s] \in Nat
      BY <1>1, <1>2, <1>4
    <2>3. ip'[d] <= k <=> ip[d] <= k /\ ~ (d = r /\ k = ip[r])
      BY <1>1, <1>2, <2>1, <2>2
    <2>4. CASE s = r
      <3>1. k # ip[r]
        BY <1>7, <2>4, CarrierSends
      <3>2. k < n <=> k < ip[r]
        BY <1>1, <2>1, <2>2, <2>4, <3>1
      <3>3. ip'[s] = n /\ mode'[s] = "run"
        BY <1>2, <1>3, <2>4
      <3>4. s = rootRank => target = 0
        BY <2>4 DEF Busy, Sends
      <3>5. d \in Nat
        BY RootIsARank
      <3>6. ~ (s = rootRank /\ d < target)
        BY <3>4, <3>5
      <3>7. Sent(k, s, d)' <=> k < n
        BY <3>3, <3>6 DEF Sent
      <3>8. Sent(k, s, d) <=> k < ip[r]
        BY <2>4, <3>1 DEF Sent
      <3>9. QED
        BY <2>3, <3>2, <3>7, <3>8
    <2>5. CASE s # r
      <3>1. ip'[s] = ip[s] /\ mode'[s] = mode[s]
        BY <1>2, <1>3, <2>5
      <3>2. SendTo(s)' = SendTo(s)
        BY <3>1 DEF SendTo, instruction
      <3>3. QED
        BY <2>3, <3>1, <3>2 DEF Sent
    <2>6. QED
      BY <2>4, <2>5
  <1>8. QED
    BY <1>1, <1>2, <1>3, <1>5, <1>6, <1>7

(* A step in which r is done with sending to SendTo(r).                    *)
LEMMA Serving ==
  ASSUME Typed, Standing, Busy, NEW r \in Ranks, Sends(r), AfterSend(r),
         mode' = [mode EXCEPT ![r] = "run"], UNCHANGED program
  PROVE  /\ ip' \in [Ranks -> DOMAIN program] /\ mode' \in [Ranks -> {"run", "sending", "barrier"}]
         /\ target' \in 0 .. NumRanks /\ Standing' /\ Busy'
         /\ \A s, d \in Ranks : \A k \in DOMAIN program : Carries(k, s, d) =>
              /\ Sent(k, s, d)' <=> \/ Sent(k, s, d)
                                    \/ s = r /\ k = ip[r] /\ d = SendTo(r)
              /\ ip'[d] <= k <=> ip[d] <= k
  <1> DEFINE n == NextFor(program, r, ip[r])
             d0 == SendTo(r)
             more == program[ip[r]].op = "broadcast" /\ \E d \in Destinations : d > d0
  <1>1. /\ n \in DOMAIN program /\ ip[r] < n /\ Concerns(program[n], r)
        /\ \A j \in DOMAIN program : ip[r] < j /\ Concerns(program[j], r) => n <= j
    BY NextOfRank DEF Sends
  <1>2. /\ d0 \in Ranks /\ Carries(ip[r], r, d0)
        /\ program[ip[r]].op = "broadcast" =>
             /\ d0 \in Destinations /\ d0 >= target
             /\ \A d \in Destinations : d >= target => d0 <= d
        /\ \A d \in Ranks : Carries(ip[r], r, d) =>
             d = d0 \/ (r = rootRank /\ program[ip[r]].op = "broadcast")
    BY SenderServes
  <1>3. /\ ip \in [Ranks -> DOMAIN program] /\ DOMAIN program \subseteq Nat
        /\ mode \in [Ranks -> {"run", "sending", "barrier"}] /\ target \in 0 .. NumRanks
    BY DEF Typed, WellFormedText
  <1>4. more => target' = d0 + 1 /\ ip' = ip
    BY DEF AfterSend, instruction
  <1>5. ~ more => /\ target' = (IF program[ip[r]].op = "broadcast" THEN 0 ELSE target)
                  /\ ip' = [ip EXCEPT ![r] = n]
    BY DEF AfterSend, instruction, Advance
  <1> HIDE DEF n, d0
  <1>6. ip' \in [Ranks -> DOMAIN program] /\ target' \in 0 .. NumRanks
    <2>1. d0 \in 0 .. NumRanks - 1 /\ NumRanks \in Nat
      BY <1>2, RanksAssumption DEF Ranks
    <2>2. CASE more
      BY <1>3, <1>4, <2>1, <2>2
    <2>3. CASE ~ more
      BY <1>1, <1>3, <1>5, <2>1, <2>3
    <2>4. QED
      BY <2>2, <2>3
  <1>7. Standing'
    BY <1>1, <1>3, <1>4, <1>5 DEF Standing, Concerns
  <1>8. Busy'
    <2>1. ASSUME NEW q \in Ranks
          PROVE  /\ mode'[q] = "barrier" => program[ip'[q]].op = "barrier"
                 /\ mode'[q] = "sending" => \/ program[ip'[q]].op = "gather" /\ q # rootRank
                                            \/ program[ip'[q]].op = "broadcast" /\ q = rootRank
      <3>1. q = r => mode'[q] = "run"
        BY <1>3
      <3>2. q # r => mode'[q] = mode[q] /\ ip'[q] = ip[q]
        BY <1>3, <1>4, <1>5
      <3>3. QED
        BY <3>1, <3>2 DEF Busy
    <2>2. CASE more
      <3>1. PICK d \in Destinations : d > d0
        BY <2>2
      <3>2. d >= d0 + 1
        <4>1. d0 \in Nat /\ d \in Nat
          BY <1>2, RootIsARank
        <4>2. QED
          BY <3>1, <4>1
      <3>3. r = rootRank
        BY <2>2 DEF Sends
      <3>4. QED
        BY <1>4, <2>1, <2>2, <3>2, <3>3 DEF Busy
    <2>3. CASE ~ more /\ r = rootRank
      <3>1. program[ip[r]].op = "broadcast"
        BY <2>3 DEF Sends
      <3>2. target' = 0 /\ ip'[rootRank] = n
        BY <1>3, <1>5, <2>3, <3>1
      <3>3. program[n].op = "broadcast" => Destinations # {}
        BY <1>1, <2>3 DEF Concerns, InBroadcast
      <3>4. \A d \in Destinations : d >= 0
        BY RootIsARank
      <3>5. QED
        BY <2>1, <3>2, <3>3, <3>4 DEF Busy
    <2>4. CASE ~ more /\ r # rootRank
      <3>1. target' = target /\ ip'[rootRank] = ip[rootRank]
        BY <1>3, <1>5, <2>4, RootIsARank DEF Sends
      <3>2. QED
        BY <2>1, <3>1 DEF Busy
    <2>5. QED
      BY <2>2, <2>3, <2>4
  <1>9. ASSUME NEW s \in Ranks, NEW d \in Ranks, NEW k \in DOMAIN program, Carries(k, s, d)
        PROVE  /\ Sent(k, s, d)' <=> Sent(k, s, d) \/ (s = r /\ k = ip[r] /\ d = d0)
               /\ ip'[d] <= k <=> ip[d] <= k
    <2>1. Concerns(program[k], s) /\ Concerns(program[k], d)
      BY <1>9, CarriesConcerns
    <2>2. ip[r] \in Nat /\ n \in Nat /\ k \in Nat /\ ip[d] \in Nat /\ ip[s] \in Nat
      BY <1>1, <1>3
    <2>3. d \in Nat /\ d0 \in Nat /\ target \in Nat
      BY <1>2, <1>3, RootIsARank
    <2>4. ip'[d] <= k <=> ip[d] <= k
      <3>1. d = r => k # ip[r]
        BY <1>2, <1>9, CarriesConcerns
      <3>2. QED
        BY <1>1, <1>3, <1>4, <1>5, <2>1, <2>2, <3>1
    <2>5. CASE s = r /\ more
      <3>1. r = rootRank
        BY <2>5 DEF Sends
      <3>2. k = ip[r] => d \in Destinations
        BY <1>9, <2>5 DEF Carries
      <3>3. ip'[s] = ip[s] /\ mode'[s] = "run" /\ target' = d0 + 1
        BY <1>3, <1>4, <2>5
      <3>4. Sent(k, s, d)' <=> k < ip[s] \/ (k = ip[s] /\ d < d0 + 1)
        BY <2>5, <3>1, <3>3 DEF Sent
      <3>5. k = ip[s] => (d < d0 + 1 <=> d < target \/ d = d0)
        BY <1>2, <2>3, <2>5, <3>2
      <3>6. Sent(k, s, d) \/ (s = r /\ k = ip[r] /\ d = d0)
              <=> k < ip[s] \/ (k = ip[s] /\ (d < target \/ d = d0))
        BY <2>5, <3>1 DEF Sent, d0
      <3>7. QED
        BY <2>4, <3>4, <3>5, <3>6
    <2>6. CASE s = r /\ ~ more
      <3>1. ip'[s] = n /\ mode'[s] = "run"
        BY <1>3, <1>5, <2>6
      <3>2. r = rootRank => target' = 0
        BY <1>5, <2>6 DEF Sends
      <3>3. Sent(k, s, d)' <=> k < n
        BY <2>3, <2>6, <3>1, <3>2 DEF Sent
      <3>4. k < n <=> k < ip[r] \/ k = ip[r]
        BY <1>1, <2>1, <2>2, <2>6
      <3>5. k = ip[r] => d = d0 \/ (r = rootRank /\ d < target)
        <4>1. ASSUME k = ip[r], d # d0 PROVE r = rootRank /\ d < target
          <5>1. r = rootRank /\ program[ip[r]].op = "broadcast"
            BY <1>2, <1>9, <2>6, <4>1
          <5>2. d \in Destinations
            BY <1>9, <4>1, <5>1 DEF Carries
          <5>3. ~ (d > d0)
            BY <2>6, <5>1, <5>2
          <5>4. d < target
            BY <1>2, <2>3, <4>1, <5>1, <5>2, <5>3
          <5>5. QED
            BY <5>1, <5>4
        <4>2. QED
          BY <4>1
      <3>6. k = ip[r] => Sent(k, s, d) \/ (s = r /\ k = ip[r] /\ d = d0)
        BY <2>6, <3>5 DEF Sent
      <3>7. Sent(k, s, d) => k < ip[r] \/ k = ip[r]
        BY <2>6 DEF Sent
      <3>8. k < ip[r] => Sent(k, s, d)
        BY <2>6 DEF Sent
      <3>9. QED
        BY <2>4, <3>3, <3>4, <3>6, <3>7, <3>8
    <2>7. CASE s # r
      <3>1. ip'[s] = ip[s] /\ mode'[s] = mode[s]
        BY <1>3, <1>4, <1>5, <2>7
      <3>2. s = rootRank => target' = target
        BY <1>5, <2>7 DEF Sends
      <3>3. mode[s] = "sending" => SendTo(s)' = SendTo(s)
        <4>1. CASE s = rootRank
          BY <3>1, <3>2, <4>1 DEF SendTo, instruction
        <4>2. CASE s # rootRank
          BY <3>1, <4>2 DEF Busy, SendTo, instruction
        <4>3. QED
          BY <4>1, <4>2
      <3>4. QED
        BY <2>4, <2>7, <3>1, <3>2, <3>3 DEF Sent
    <2>8. QED
      BY <2>5, <2>6, <2>7
  <1>10. QED
    BY <1>3, <1>6, <1>7, <1>8, <1>9 DEF d0

-----------------------------------------------------------------------------
LEMMA HoldsAppended ==
  ASSUME NEW M, NEW messages \in Seq(M), NEW code, NEW places \in SUBSET Nat,
         Holds(messages, code, places), NEW m \in M, NEW k0 \in Nat,
         m.place = k0, m.slab = code[k0].slab, Len(m.data) = m.slab.len,
         \A k \in places : k < k0
  PROVE  Holds(Append(messages, m), code, places \cup {k0})
  <1> DEFINE after == Append(messages, m)
  <1>1. /\ Len(messages) \in Nat /\ Len(after) = Len(messages) + 1
        /\ after[Len(messages) + 1] = m
        /\ \A i \in 1 .. Len(messages) : after[i] = messages[i]
    OBVIOUS
  <1>2. \A i \in 1 .. Len(messages) :
          /\ messages[i].place \in places /\ messages[i].slab = code[messages[i].place].slab
          /\ Len(messages[i].data) = messages[i].slab.len
    BY DEF Holds
  <1>3. \A i, j \in 1 .. Len(messages) : i < j => messages[i].place < messages[j].place
    BY DEF Holds
  <1>4. \A k \in places : \E i \in 1 .. Len(messages) : messages[i].place = k
    BY DEF Holds
  <1> HIDE DEF after
  <1>5. ASSUME NEW i \in 1 .. Len(after)
        PROVE  /\ after[i].place \in places \cup {k0}
               /\ after[i].slab = code[after[i].place].slab
               /\ Len(after[i].data) = after[i].slab.len
    BY <1>1, <1>2
  <1>6. ASSUME NEW i \in 1 .. Len(after), NEW j \in 1 .. Len(after), i < j
        PROVE  after[i].place < after[j].place
    <2>1. i \in 1 .. Len(messages) /\ after[i] = messages[i]
      BY <1>1, <1>6
    <2>2. CASE j \in 1 .. Len(messages)
      BY <1>1, <1>3, <1>6, <2>1, <2>2
    <2>3. CASE j = Len(messages) + 1
      BY <1>1, <1>2, <2>1, <2>3
    <2>4. QED
      BY <1>1, <2>2, <2>3
  <1>7. ASSUME NEW k \in places \cup {k0}
        PROVE  \E i \in 1 .. Len(after) : after[i].place = k
    <2>1. CASE k = k0
      BY <1>1, <2>1
    <2>2. CASE k \in places
      <3>1. PICK i \in 1 .. Len(messages) : messages[i].place = k
        BY <1>4, <2>2
      <3>2. i \in 1 .. Len(after) /\ after[i].place = k
        BY <1>1, <3>1
      <3>3. QED
        BY <3>2
    <2>3. QED
      BY <2>1, <2>2
  <1>8. QED
    BY <1>5, <1>6, <1>7 DEF Holds, after

LEMMA HoldsTaken ==
  ASSUME NEW M, NEW messages \in Seq(M), NEW code, NEW places \in SUBSET Nat,
         Holds(messages, code, places), messages # <<>>
  PROVE  Holds(Tail(messages), code, places \ {Head(messages).place})
  <1> DEFINE after == Tail(messages)
             k0 == messages[1].place
  <1>1. /\ Len(messages) \in Nat \ {0} /\ Len(after) = Len(messages) - 1
        /\ Head(messages) = messages[1]
        /\ \A i \in 1 .. Len(after) : after[i] = messages[i + 1]
    OBVIOUS
  <1>2. \A i \in 1 .. Len(messages) :
          /\ messages[i].place \in places /\ messages[i].slab = code[messages[i].place].slab
          /\ Len(messages[i].data) = messages[i].slab.len
    BY DEF Holds
  <1>3. \A i, j \in 1 .. Len(messages) : i < j => messages[i].place < messages[j].place
    BY DEF Holds
  <1>4. \A k \in places : \E i \in 1 .. Len(messages) : messages[i].place = k
    BY DEF Holds
  <1> HIDE DEF after
  <1>5. ASSUME NEW i \in 1 .. Len(after)
        PROVE  /\ after[i].place \in places \ {k0}
               /\ after[i].slab = code[after[i].place].slab
               /\ Len(after[i].data) = after[i].slab.len
    <2>1. i + 1 \in 1 .. Len(messages) /\ 1 \in 1 .. Len(messages) /\ 1 < i + 1
      BY <1>1
    <2>2. k0 < messages[i + 1].place /\ k0 \in Nat /\ messages[i + 1].place \in Nat
      BY <1>2, <1>3, <2>1
    <2>3. QED
      BY <1>1, <1>2, <2>1, <2>2
  <1>6. ASSUME NEW i \in 1 .. Len(after), NEW j \in 1 .. Len(after), i < j
        PROVE  after[i].place < after[j].place
    <2>1. i + 1 \in 1 .. Len(messages) /\ j + 1 \in 1 .. Len(messages) /\ i + 1 < j + 1
      BY <1>1, <1>6
    <2>2. QED
      BY <1>1, <1>3, <2>1
  <1>7. ASSUME NEW k \in places \ {k0}
        PROVE  \E i \in 1 .. Len(after) : after[i].place = k
    <2>1. PICK i \in 1 .. Len(messages) : messages[i].place = k
      BY <1>4
    <2>2. i # 1
      BY <2>1
    <2>3. i - 1 \in 1 .. Len(after) /\ after[i - 1] = messages[i]
      BY <1>1, <2>2
    <2>4. QED
      BY <2>1, <2>3
  <1>8. QED
    BY <1>1, <1>5, <1>6, <1>7 DEF Holds, after

(* The oldest message is the one the receiver stands for.                  *)
LEMMA HeadIsDue ==
  ASSUME Typed, InOrder, NEW s \in Ranks, NEW d \in Ranks,
         Carries(ip[d], s, d), channel[s][d] # <<>>
  PROVE  /\ Head(channel[s][d]) \in Messages
         /\ Head(channel[s][d]).place = ip[d] /\ Sent(ip[d], s, d)
         /\ Head(channel[s][d]).slab = program[ip[d]].slab
         /\ Len(Head(channel[s][d]).data) = program[ip[d]].slab.len
  <1> DEFINE messages == channel[s][d]
             p == messages[1].place
  <1>1. messages \in Seq(Messages) /\ messages # <<>>
    BY DEF Typed
  <1>2. /\ Len(messages) \in Nat \ {0} /\ Head(messages) = messages[1]
        /\ messages[1] \in Messages
    BY <1>1
  <1>3. /\ \A i \in 1 .. Len(messages) :
             /\ messages[i].place \in Due(s, d)
             /\ messages[i].slab = program[messages[i].place].slab
             /\ Len(messages[i].data) = messages[i].slab.len
        /\ \A i, j \in 1 .. Len(messages) : i < j => messages[i].place < messages[j].place
        /\ \A k \in Due(s, d) : \E i \in 1 .. Len(messages) : messages[i].place = k
    BY DEF InOrder, Holds
  <1>4. /\ DOMAIN program \subseteq Nat /\ ip[s] \in DOMAIN program /\ ip[d] \in DOMAIN program
    BY DEF Typed, WellFormedText
  <1> HIDE DEF messages
  <1>5. p \in DOMAIN program /\ Sent(p, s, d) /\ ip[d] <= p
    BY <1>2, <1>3 DEF Due
  <1>6. p = ip[d]
    <2>1. SUFFICES ASSUME ip[d] < p PROVE FALSE
      BY <1>4, <1>5
    <2>2. p <= ip[s]
      BY <1>4, <1>5 DEF Sent
    <2>3. ip[d] \in Due(s, d)
      BY <1>4, <1>5, <2>1, <2>2 DEF Due, Sent
    <2>4. PICK i \in 1 .. Len(messages) : messages[i].place = ip[d]
      BY <1>3, <2>3
    <2>5. i # 1
      BY <1>4, <1>5, <2>1, <2>4
    <2>6. p < messages[i].place
      BY <1>2, <1>3, <2>5
    <2>7. QED
      BY <1>4, <1>5, <2>1, <2>4, <2>6
  <1>7. QED
    BY <1>2, <1>3, <1>5, <1>6 DEF messages

-----------------------------------------------------------------------------
(* What each kind of step does to the transfers due.                       *)
LEMMA PassingDue ==
  ASSUME Typed, Standing, Busy, NotAhead,
         NEW r \in Ranks, ~ Sends(r), program[ip[r]].op # "return",
         Advance(r), mode' = [mode EXCEPT ![r] = "run"], UNCHANGED <<program, target>>,
         \A s \in Ranks : Carries(ip[r], s, r) => Sent(ip[r], s, r)
  PROVE  /\ NotAhead'
         /\ \A s, d \in Ranks : Due(s, d)' = IF d = r THEN Due(s, d) \ {ip[r]} ELSE Due(s, d)
  <1>1. \A s, d \in Ranks : \A k \in DOMAIN program : Carries(k, s, d) =>
          /\ Sent(k, s, d)' <=> Sent(k, s, d)
          /\ ip'[d] <= k <=> ip[d] <= k /\ ~ (d = r /\ k = ip[r])
    BY Passing
  <1>2. \A k, s, d : Carries(k, s, d)' <=> Carries(k, s, d)
    BY DEF Carries
  <1>3. DOMAIN program \subseteq Nat /\ ip \in [Ranks -> DOMAIN program]
        /\ ip' \in [Ranks -> DOMAIN program]
    <2>1. ip' \in [Ranks -> DOMAIN program]
      BY Passing, Zenon
    <2>2. DOMAIN program \subseteq Nat
      BY DEF Typed, WellFormedText
    <2>3. ip \in [Ranks -> DOMAIN program]
      BY DEF Typed
    <2>4. QED
      BY <2>1, <2>2, <2>3
  <1>4. NotAhead'
    <2>1. ASSUME NEW s \in Ranks, NEW d \in Ranks, NEW k \in DOMAIN program,
                 Carries(k, s, d), k < ip'[d]
          PROVE  Sent(k, s, d)'
      <3>1. ~ (ip'[d] <= k) /\ ip[d] \in Nat /\ k \in Nat
        BY <1>3, <2>1
      <3>2. k < ip[d] \/ (d = r /\ k = ip[r])
        BY <1>1, <2>1, <3>1
      <3>3. Sent(k, s, d)
        BY <2>1, <3>2 DEF NotAhead
      <3>4. QED
        BY <1>1, <2>1, <3>3
    <2>2. QED
      BY <1>2, <2>1 DEF NotAhead
  <1>5. ASSUME NEW s \in Ranks, NEW d \in Ranks
        PROVE  Due(s, d)' = IF d = r THEN Due(s, d) \ {ip[r]} ELSE Due(s, d)
    BY <1>1, <1>2 DEF Due
  <1>6. QED
    BY <1>4, <1>5

LEMMA ServingDue ==
  ASSUME Typed, Standing, Busy, NotAhead, NEW r \in Ranks, Sends(r), AfterSend(r),
         mode' = [mode EXCEPT ![r] = "run"], UNCHANGED program
  PROVE  /\ NotAhead'
         /\ \A s, d \in Ranks : (s # r \/ d # SendTo(r)) => Due(s, d)' = Due(s, d)
         /\ \A d \in Ranks : d = SendTo(r) =>
              /\ ip[d] <= ip[r] => Due(r, d)' = Due(r, d) \cup {ip[r]}
              /\ Sent(ip[r], r, d) => Due(r, d)' = Due(r, d)
  <1>1. \A s, d \in Ranks : \A k \in DOMAIN program : Carries(k, s, d) =>
          /\ Sent(k, s, d)' <=> Sent(k, s, d) \/ (s = r /\ k = ip[r] /\ d = SendTo(r))
          /\ ip'[d] <= k <=> ip[d] <= k
    BY Serving
  <1>2. \A k, s, d : Carries(k, s, d)' <=> Carries(k, s, d)
    BY DEF Carries
  <1>3. DOMAIN program \subseteq Nat /\ ip \in [Ranks -> DOMAIN program]
        /\ ip' \in [Ranks -> DOMAIN program]
    <2>1. ip' \in [Ranks -> DOMAIN program]
      BY Serving, Zenon
    <2>2. DOMAIN program \subseteq Nat
      BY DEF Typed, WellFormedText
    <2>3. ip \in [Ranks -> DOMAIN program]
      BY DEF Typed
    <2>4. QED
      BY <2>1, <2>2, <2>3
  <1>4. SendTo(r) \in Ranks /\ Carries(ip[r], r, SendTo(r))
    BY SenderServes
  <1>5. NotAhead'
    <2>1. ASSUME NEW s \in Ranks, NEW d \in Ranks, NEW k \in DOMAIN program,
                 Carries(k, s, d), k < ip'[d]
          PROVE  Sent(k, s, d)'
      <3>1. ~ (ip'[d] <= k) /\ ip[d] \in Nat /\ k \in Nat
        BY <1>3, <2>1
      <3>2. k < ip[d]
        BY <1>1, <2>1, <3>1
      <3>3. Sent(k, s, d)
        BY <2>1, <3>2 DEF NotAhead
      <3>4. QED
        BY <1>1, <2>1, <3>3
    <2>2. QED
      BY <1>2, <2>1 DEF NotAhead
  <1>6. ASSUME NEW s \in Ranks, NEW d \in Ranks, s # r \/ d # SendTo(r)
        PROVE  Due(s, d)' = Due(s, d)
    BY <1>1, <1>2, <1>6 DEF Due
  <1>7. ASSUME NEW d \in Ranks, d = SendTo(r), ip[d] <= ip[r]
        PROVE  Due(r, d)' = Due(r, d) \cup {ip[r]}
    BY <1>1, <1>2, <1>3, <1>4, <1>7 DEF Due
  <1>8. ASSUME NEW d \in Ranks, d = SendTo(r), Sent(ip[r], r, d)
        PROVE  Due(r, d)' = Due(r, d)
    BY <1>1, <1>2, <1>3, <1>4, <1>8 DEF Due
  <1>9. QED
    BY <1>5, <1>6, <1>7, <1>8

-----------------------------------------------------------------------------
LEMMA SameMessages ==
  ASSUME UNCHANGED program
  PROVE  Messages' = Messages /\ (WellFormedText(program) => WellFormedText(program)')
  BY DEF Messages, Slabs, WellFormedText

LEMMA ComputeKeeps ==
  ASSUME IInv, NEW r \in Ranks, Compute(r)
  PROVE  IInv'
  <1>1. /\ program[ip[r]].op = "compute" /\ mode[r] = "run" /\ Advance(r)
        /\ UNCHANGED <<program, target, mode, barriers, channel>>
    BY DEF Compute, Running, instruction
  <1>2. Typed /\ Standing /\ Busy /\ InOrder /\ NotAhead
    BY DEF IInv
  <1>3. mode' = [mode EXCEPT ![r] = "run"] /\ ~ Sends(r) /\ program[ip[r]].op # "return"
    BY <1>1, <1>2 DEF Sends, Typed
  <1>4. \A s, d \in Ranks : ~ Carries(ip[r], s, d)
    BY <1>1 DEF Carries
  <1>5. /\ ip' \in [Ranks -> DOMAIN program] /\ Standing' /\ Busy'
    BY <1>1, <1>2, <1>3, Passing
  <1>6. /\ NotAhead'
        /\ \A s, d \in Ranks : Due(s, d)' = IF d = r THEN Due(s, d) \ {ip[r]} ELSE Due(s, d)
    BY <1>1, <1>2, <1>3, <1>4, PassingDue
  <1>7. \A s, d \in Ranks : Due(s, d)' = Due(s, d)
    <2>1. \A s, d \in Ranks : ip[r] \notin Due(s, d)
      BY <1>4 DEF Due
    <2>2. QED
      BY <1>6, <2>1
  <1>8. InOrder'
    BY <1>1, <1>2, <1>7 DEF InOrder
  <1>9. copy' \in [Ranks -> [AllCells -> Versions]]
    <2>1. program[ip[r]].version \in Int
      BY <1>1, <1>2 DEF Typed, WellFormedText
    <2> DEFINE instr == instruction(r)
               written == {e.cell : e \in instr.effect}
               needed(c) == UNION {e.needs : e \in {f \in instr.effect : f.cell = c}}
               after == [c \in AllCells |-> IF c \notin written THEN copy[r][c]
                                             ELSE IF Fresh(copy[r], needed(c)) THEN instr.version
                                             ELSE Garbage]
    <2>2. copy' = [copy EXCEPT ![r] = after]
      <3>1. copy' = [copy EXCEPT ![r] = Computed(instr, copy[r])]
        BY DEF Compute
      <3>2. Computed(instr, copy[r]) = after
        BY DEF Computed
      <3>3. QED
        BY <3>1, <3>2
    <2>3. copy \in [Ranks -> [AllCells -> Int]]
      BY <1>2 DEF Typed, Versions
    <2>4. instr.version \in Int /\ Garbage \in Int
      BY <2>1 DEF instruction, Garbage
    <2>5. after \in [AllCells -> Int]
      <3>1. \A c \in AllCells : copy[r][c] \in Int
        BY <2>3
      <3> HIDE DEF instr, written, needed
      <3>2. QED
        BY <2>4, <3>1
    <2> HIDE DEF after
    <2>6. QED
      BY <2>2, <2>3, <2>5 DEF Versions
  <1>10. QED
    BY <1>1, <1>2, <1>5, <1>6, <1>8, <1>9, SameMessages DEF IInv, Typed

LEMMA EnterBarrierKeeps ==
  ASSUME IInv, NEW r \in Ranks, EnterBarrier(r)
  PROVE  IInv'
  <1>1. /\ program[ip[r]].op = "barrier" /\ mode[r] = "run"
        /\ barriers' = [barriers EXCEPT ![r] = @ + 1]
        /\ mode' = [mode EXCEPT ![r] = "barrier"]
        /\ UNCHANGED <<program, ip, target, channel, copy>>
    BY DEF EnterBarrier, Running, instruction
  <1>2. Typed /\ Standing /\ Busy /\ InOrder /\ NotAhead
    BY DEF IInv
  <1>3. mode \in [Ranks -> {"run", "sending", "barrier"}] /\ barriers \in [Ranks -> Nat]
    BY <1>2 DEF Typed
  <1>4. /\ mode' \in [Ranks -> {"run", "sending", "barrier"}] /\ barriers' \in [Ranks -> Nat]
        /\ \A q \in Ranks : mode'[q] = IF q = r THEN "barrier" ELSE mode[q]
    BY <1>1, <1>3
  <1>5. Typed'
    BY <1>1, <1>2, <1>4, SameMessages DEF Typed
  <1>6. Standing'
    BY <1>1, <1>2 DEF Standing, Concerns
  <1>7. Busy'
    BY <1>1, <1>2, <1>4 DEF Busy
  <1>8. \A s \in Ranks : SendTo(s)' = SendTo(s)
    BY <1>1 DEF SendTo, instruction
  <1>9. /\ \A k, s, d : Carries(k, s, d)' <=> Carries(k, s, d)
        /\ \A s \in Ranks : \A k, d : Sent(k, s, d)' <=> Sent(k, s, d)
    BY <1>1, <1>4, <1>8 DEF Carries, Sent
  <1>10. InOrder'
    <2>1. \A s, d \in Ranks : Due(s, d)' = Due(s, d)
      BY <1>1, <1>9 DEF Due
    <2>2. QED
      BY <1>1, <1>2, <2>1 DEF InOrder
  <1>11. NotAhead'
    BY <1>1, <1>2, <1>9 DEF NotAhead
  <1>12. QED
    BY <1>5, <1>6, <1>7, <1>10, <1>11 DEF IInv

LEMMA LeaveBarrierKeeps ==
  ASSUME IInv, NEW r \in Ranks, LeaveBarrier(r)
  PROVE  IInv'
  <1>1. /\ mode[r] = "barrier" /\ mode' = [mode EXCEPT ![r] = "run"] /\ Advance(r)
        /\ UNCHANGED <<program, target, barriers, channel, copy>>
    BY DEF LeaveBarrier
  <1>2. Typed /\ Standing /\ Busy /\ InOrder /\ NotAhead
    BY DEF IInv
  <1>3. program[ip[r]].op = "barrier"
    BY <1>1, <1>2 DEF Busy
  <1>4. ~ Sends(r) /\ \A s, d \in Ranks : ~ Carries(ip[r], s, d)
    BY <1>3 DEF Sends, Carries
  <1>5. /\ ip' \in [Ranks -> DOMAIN program] /\ mode' \in [Ranks -> {"run", "sending", "barrier"}]
        /\ Standing' /\ Busy'
    BY <1>1, <1>2, <1>3, <1>4, Passing
  <1>6. /\ NotAhead'
        /\ \A s, d \in Ranks : Due(s, d)' = IF d = r THEN Due(s, d) \ {ip[r]} ELSE Due(s, d)
    BY <1>1, <1>2, <1>3, <1>4, PassingDue
  <1>7. \A s, d \in Ranks : Due(s, d)' = Due(s, d)
    <2>1. \A s, d \in Ranks : ip[r] \notin Due(s, d)
      BY <1>4 DEF Due
    <2>2. QED
      BY <1>6, <2>1
  <1>8. InOrder'
    BY <1>1, <1>2, <1>7 DEF InOrder
  <1>9. QED
    BY <1>1, <1>2, <1>5, <1>6, <1>8, SameMessages DEF IInv, Typed

-----------------------------------------------------------------------------
LEMMA SenderStands ==
  ASSUME Typed, Standing, Busy, NotAhead, NEW r \in Ranks, IsSender(r)
  PROVE  /\ Sends(r) /\ mode[r] = "run" /\ SendTo(r) \in Ranks
         /\ program[ip[r]].op \in Transfer
         /\ ip[SendTo(r)] <= ip[r]
         /\ \A d \in Ranks : d = SendTo(r) => \A k \in Due(r, d) : k < ip[r]
  <1>1. Sends(r) /\ mode[r] = "run"
    BY DEF IsSender, Running, instruction, Sends
  <1>2. /\ SendTo(r) \in Ranks /\ Carries(ip[r], r, SendTo(r))
        /\ program[ip[r]].op = "broadcast" => SendTo(r) >= target
    BY <1>1, SenderServes
  <1>3. /\ ip \in [Ranks -> DOMAIN program] /\ DOMAIN program \subseteq Nat
        /\ SendTo(r) \in Nat /\ target \in Nat
    <2>1. DOMAIN program \subseteq Nat
      BY DEF Typed, WellFormedText
    <2>2. ip \in [Ranks -> DOMAIN program] /\ target \in Nat
      BY DEF Typed
    <2>3. QED
      BY <1>2, <2>1, <2>2, RootIsARank
  <1>4. ip[r] \in Nat /\ ip[SendTo(r)] \in Nat
    BY <1>2, <1>3
  <1>5. ~ Sent(ip[r], r, SendTo(r))
    BY <1>1, <1>2, <1>3, <1>4 DEF Sent, Sends
  <1>6. ip[SendTo(r)] <= ip[r]
    BY <1>2, <1>3, <1>4, <1>5 DEF NotAhead
  <1>7. ASSUME NEW d \in Ranks, d = SendTo(r), NEW k \in Due(r, d)
        PROVE  k < ip[r]
    <2>1. k # ip[r] /\ k \in Nat /\ Sent(k, r, d)
      BY <1>3, <1>5, <1>7 DEF Due
    <2>2. QED
      BY <1>4, <2>1 DEF Sent
  <1>8. QED
    BY <1>1, <1>2, <1>6, <1>7 DEF Sends, Transfer

(* The message joins the end of its channel.                               *)
LEMMA PutInOrder ==
  ASSUME IInv, NEW r \in Ranks, IsSender(r), Put(r), UNCHANGED program,
         \A s, d \in Ranks : (s # r \/ d # SendTo(r)) => Due(s, d)' = Due(s, d),
         \A d \in Ranks : d = SendTo(r) => Due(r, d)' = Due(r, d) \cup {ip[r]}
  PROVE  channel' \in [Ranks -> [Ranks -> Seq(Messages)]] /\ InOrder'
  <1> DEFINE m == Message(r, program[ip[r]].slab)
             d0 == SendTo(r)
  <1>1. Typed /\ Standing /\ Busy /\ InOrder /\ NotAhead
    BY DEF IInv
  <1>2. /\ d0 \in Ranks /\ program[ip[r]].op \in Transfer
        /\ \A k \in Due(r, d0) : k < ip[r]
    BY <1>1, SenderStands
  <1>3. /\ ip \in [Ranks -> DOMAIN program] /\ DOMAIN program \subseteq Nat
        /\ channel \in [Ranks -> [Ranks -> Seq(Messages)]]
        /\ copy \in [Ranks -> [AllCells -> Int]]
    BY <1>1 DEF Typed, WellFormedText, Versions
  <1>4. ip[r] \in DOMAIN program /\ ip[r] \in Nat
    BY <1>3
  <1>5. program[ip[r]].slab.len \in Nat
    BY <1>1, <1>2, <1>4 DEF Typed, WellFormedText, Transfer
  <1>6. /\ m.place = ip[r] /\ m.slab = program[ip[r]].slab
        /\ m.data \in [1 .. program[ip[r]].slab.len -> [Parts -> Int]]
        /\ m = [place |-> ip[r], slab |-> program[ip[r]].slab, data |-> m.data]
    <2>1. \A c \in AllCells : copy[r][c] \in Int
      BY <1>3
    <2>2. Garbage \in Int
      BY DEF Garbage
    <2>3. QED
      BY <2>1, <2>2 DEF Message, Contents
  <1> HIDE DEF m
  <1>7. m.data \in Seq([Parts -> Int]) /\ Len(m.data) = m.slab.len
    BY <1>5, <1>6
  <1>8. m \in Messages
    <2>1. program[ip[r]].slab \in Slabs
      BY <1>2, <1>4 DEF Slabs
    <2>2. QED
      BY <1>4, <1>6, <1>7, <2>1 DEF Messages
  <1>9. channel' = [channel EXCEPT ![r][d0] = Append(@, m)]
    BY DEF Put, instruction, m
  <1> HIDE DEF d0
  <1>10. /\ channel' \in [Ranks -> [Ranks -> Seq(Messages)]]
         /\ channel'[r][d0] = Append(channel[r][d0], m)
         /\ \A s, d \in Ranks : s # r \/ d # d0 => channel'[s][d] = channel[s][d]
    <2>1. channel[r][d0] \in Seq(Messages)
      BY <1>2, <1>3
    <2>2. Append(channel[r][d0], m) \in Seq(Messages)
      BY <1>8, <2>1
    <2>3. QED
      BY <1>2, <1>3, <1>9, <2>2
  <1>11. ASSUME NEW s \in Ranks, NEW d \in Ranks
         PROVE  Holds(channel'[s][d], program, Due(s, d)')
    <2>1. Holds(channel[s][d], program, Due(s, d)) /\ channel[s][d] \in Seq(Messages)
      BY <1>1, <1>3 DEF InOrder
    <2>2. CASE s = r /\ d = d0
      <3>1. Due(s, d)' = Due(s, d) \cup {ip[r]} /\ channel'[s][d] = Append(channel[s][d], m)
        BY <1>10, <2>2 DEF d0
      <3>2. Due(s, d) \in SUBSET Nat /\ \A k \in Due(s, d) : k < ip[r]
        BY <1>2, <1>3, <2>2 DEF Due
      <3>3. Holds(Append(channel[s][d], m), program, Due(s, d) \cup {ip[r]})
        BY <1>4, <1>6, <1>7, <1>8, <2>1, <3>2, HoldsAppended
      <3>4. QED
        BY <3>1, <3>3
    <2>3. CASE s # r \/ d # d0
      BY <1>10, <2>1, <2>3 DEF d0
    <2>4. QED
      BY <2>2, <2>3
  <1>12. QED
    BY <1>10, <1>11 DEF InOrder

LEMMA SendBufferedKeeps ==
  ASSUME IInv, NEW r \in Ranks, SendBuffered(r)
  PROVE  IInv'
  <1>1. /\ IsSender(r) /\ Put(r) /\ AfterSend(r)
        /\ UNCHANGED <<program, mode, barriers, copy>>
    BY DEF SendBuffered
  <1>2. Typed /\ Standing /\ Busy /\ InOrder /\ NotAhead
    BY DEF IInv
  <1>3. Sends(r) /\ mode[r] = "run" /\ ip[SendTo(r)] <= ip[r]
    BY <1>1, <1>2, SenderStands
  <1>4. mode' = [mode EXCEPT ![r] = "run"]
    BY <1>1, <1>2, <1>3 DEF Typed
  <1>5. /\ ip' \in [Ranks -> DOMAIN program] /\ mode' \in [Ranks -> {"run", "sending", "barrier"}]
        /\ target' \in 0 .. NumRanks /\ Standing' /\ Busy'
    BY <1>1, <1>2, <1>3, <1>4, Serving
  <1>6. /\ NotAhead'
        /\ \A s, d \in Ranks : (s # r \/ d # SendTo(r)) => Due(s, d)' = Due(s, d)
        /\ \A d \in Ranks : d = SendTo(r) => Due(r, d)' = Due(r, d) \cup {ip[r]}
    BY <1>1, <1>2, <1>3, <1>4, ServingDue
  <1>7. channel' \in [Ranks -> [Ranks -> Seq(Messages)]] /\ InOrder'
    BY <1>1, <1>6, PutInOrder
  <1>8. QED
    BY <1>1, <1>2, <1>5, <1>6, <1>7, SameMessages DEF IInv, Typed

LEMMA SendBlockingKeeps ==
  ASSUME IInv, NEW r \in Ranks, SendBlocking(r)
  PROVE  IInv'
  <1>1. /\ IsSender(r) /\ Put(r) /\ mode' = [mode EXCEPT ![r] = "sending"]
        /\ UNCHANGED <<program, ip, target, barriers, copy>>
    BY DEF SendBlocking
  <1>2. Typed /\ Standing /\ Busy /\ InOrder /\ NotAhead
    BY DEF IInv
  <1>3. Sends(r) /\ mode[r] = "run" /\ ip[SendTo(r)] <= ip[r] /\ SendTo(r) \in Ranks
    BY <1>1, <1>2, SenderStands
  <1>4. Carries(ip[r], r, SendTo(r)) /\ ip[r] \in DOMAIN program
    BY <1>2, <1>3, SenderServes DEF Typed
  <1>5. mode \in [Ranks -> {"run", "sending", "barrier"}]
    BY <1>2 DEF Typed
  <1>6. /\ mode' \in [Ranks -> {"run", "sending", "barrier"}]
        /\ \A q \in Ranks : mode'[q] = IF q = r THEN "sending" ELSE mode[q]
    BY <1>1, <1>5
  <1>7. Standing'
    BY <1>1, <1>2 DEF Standing, Concerns
  <1>8. Busy'
    BY <1>1, <1>2, <1>3, <1>6 DEF Busy, Sends
  <1>9. \A s \in Ranks : SendTo(s)' = SendTo(s)
    BY <1>1 DEF SendTo, instruction
  <1>10. /\ \A k, s, d : Carries(k, s, d)' <=> Carries(k, s, d)
         /\ \A s \in Ranks : \A k, d : Sent(k, s, d)' <=>
              Sent(k, s, d) \/ (s = r /\ k = ip[r] /\ d = SendTo(r))
    BY <1>1, <1>3, <1>6, <1>9 DEF Carries, Sent
  <1>11. NotAhead'
    BY <1>1, <1>2, <1>10 DEF NotAhead
  <1>12. \A s, d \in Ranks : (s # r \/ d # SendTo(r)) => Due(s, d)' = Due(s, d)
    BY <1>1, <1>10 DEF Due
  <1>13. \A d \in Ranks : d = SendTo(r) => Due(r, d)' = Due(r, d) \cup {ip[r]}
    BY <1>1, <1>3, <1>4, <1>10 DEF Due
  <1>14. channel' \in [Ranks -> [Ranks -> Seq(Messages)]] /\ InOrder'
    BY <1>1, <1>12, <1>13, PutInOrder
  <1>15. QED
    BY <1>1, <1>2, <1>6, <1>7, <1>8, <1>11, <1>14, SameMessages DEF IInv, Typed

LEMMA SendTakenKeeps ==
  ASSUME IInv, NEW r \in Ranks, SendTaken(r)
  PROVE  IInv'
  <1>1. /\ mode[r] = "sending" /\ mode' = [mode EXCEPT ![r] = "run"] /\ AfterSend(r)
        /\ UNCHANGED <<program, barriers, channel, copy>>
    BY DEF SendTaken
  <1>2. Typed /\ Standing /\ Busy /\ InOrder /\ NotAhead
    BY DEF IInv
  <1>3. Sends(r)
    BY <1>1, <1>2 DEF Busy, Sends
  <1>4. \A d \in Ranks : d = SendTo(r) => Sent(ip[r], r, d)
    BY <1>1 DEF Sent
  <1>5. /\ ip' \in [Ranks -> DOMAIN program] /\ mode' \in [Ranks -> {"run", "sending", "barrier"}]
        /\ target' \in 0 .. NumRanks /\ Standing' /\ Busy'
    BY <1>1, <1>2, <1>3, Serving
  <1>6. NotAhead' /\ \A s, d \in Ranks : Due(s, d)' = Due(s, d)
    BY <1>1, <1>2, <1>3, <1>4, ServingDue
  <1>7. InOrder'
    BY <1>1, <1>2, <1>6 DEF InOrder
  <1>8. QED
    BY <1>1, <1>2, <1>5, <1>6, <1>7, SameMessages DEF IInv, Typed

-----------------------------------------------------------------------------
LEMMA ReceiveKeeps ==
  ASSUME IInv, NEW r \in Ranks, Receive(r)
  PROVE  IInv'
  <1> DEFINE s0 == Source(r)
             slab == program[ip[r]].slab
             msg == Head(channel[s0][r])
  <1>1. /\ IsReceiver(r) /\ channel[s0][r] # <<>>
        /\ copy' = [copy EXCEPT ![r] = Stored(copy[r], slab, msg.data)]
        /\ channel' = [channel EXCEPT ![s0][r] = Tail(@)]
        /\ Advance(r)
        /\ UNCHANGED <<program, target, mode, barriers>>
    BY DEF Receive, instruction
  <1>2. Typed /\ Standing /\ Busy /\ InOrder /\ NotAhead
    BY DEF IInv
  <1>3. /\ ip \in [Ranks -> DOMAIN program] /\ ip[r] \in DOMAIN program
        /\ channel \in [Ranks -> [Ranks -> Seq(Messages)]]
        /\ copy \in [Ranks -> [AllCells -> Int]]
    BY <1>2 DEF Typed, Versions
  <1>4. s0 \in Ranks /\ Carries(ip[r], s0, r) /\ program[ip[r]].op \in Transfer /\ mode[r] = "run"
    <2>1. CASE program[ip[r]].op = "gather" /\ r = rootRank /\ mode[r] = "run"
      <3>1. program[ip[r]].owner \in Ranks
        BY <1>2, <1>3, <2>1 DEF Typed, WellFormedText
      <3>2. s0 = NodeToRank[program[ip[r]].owner]
        BY <2>1 DEF Source, instruction
      <3>3. QED
        BY <2>1, <3>1, <3>2, NodeToRankAssumption DEF Carries, Transfer
    <2>2. CASE program[ip[r]].op = "broadcast" /\ r # rootRank /\ mode[r] = "run"
      BY <2>2, RootIsARank DEF Source, Carries, Transfer, Destinations
    <2>3. QED
      BY <1>1, <2>1, <2>2 DEF IsReceiver, Running, instruction
  <1>5. /\ msg \in Messages /\ msg.place = ip[r] /\ Sent(ip[r], s0, r)
        /\ msg.slab = slab /\ Len(msg.data) = slab.len
    BY <1>1, <1>2, <1>4, HeadIsDue
  <1> HIDE DEF s0
  <1>6. ~ Sends(r) /\ program[ip[r]].op # "return" /\ mode' = [mode EXCEPT ![r] = "run"]
    <2>1. mode' = [mode EXCEPT ![r] = "run"]
      BY <1>1, <1>2, <1>4 DEF Typed
    <2>2. ~ Sends(r)
      BY <1>1 DEF IsReceiver, Running, instruction, Sends
    <2>3. QED
      BY <1>4, <2>1, <2>2 DEF Transfer
  <1>7. \A s \in Ranks : Carries(ip[r], s, r) => Sent(ip[r], s, r)
    <2>1. \A s \in Ranks : Carries(ip[r], s, r) => s = s0
      BY <1>2, <1>3, <1>4, CarriesConcerns
    <2>2. QED
      BY <1>5, <2>1
  <1>8. /\ ip' \in [Ranks -> DOMAIN program] /\ mode' \in [Ranks -> {"run", "sending", "barrier"}]
        /\ Standing' /\ Busy'
    BY <1>1, <1>2, <1>6, Passing
  <1>9. /\ NotAhead'
        /\ \A s, d \in Ranks : Due(s, d)' = IF d = r THEN Due(s, d) \ {ip[r]} ELSE Due(s, d)
    BY <1>1, <1>2, <1>6, <1>7, PassingDue
  <1>10. /\ channel' \in [Ranks -> [Ranks -> Seq(Messages)]]
         /\ channel'[s0][r] = Tail(channel[s0][r])
         /\ \A s, d \in Ranks : s # s0 \/ d # r => channel'[s][d] = channel[s][d]
    <2>1. channel[s0][r] \in Seq(Messages)
      BY <1>3, <1>4
    <2>2. Tail(channel[s0][r]) \in Seq(Messages)
      BY <1>1, <2>1
    <2>3. QED
      BY <1>1, <1>3, <1>4, <2>2
  <1>11. ASSUME NEW s \in Ranks, NEW d \in Ranks
         PROVE  Holds(channel'[s][d], program, Due(s, d)')
    <2>1. Holds(channel[s][d], program, Due(s, d)) /\ channel[s][d] \in Seq(Messages)
      BY <1>2, <1>3 DEF InOrder
    <2>2. CASE s = s0 /\ d = r
      <3>1. Due(s, d) \in SUBSET Nat
        BY <1>2 DEF Due, Typed, WellFormedText
      <3>2. Holds(Tail(channel[s][d]), program, Due(s, d) \ {msg.place})
        BY <1>1, <2>1, <2>2, <3>1, HoldsTaken
      <3>3. QED
        BY <1>5, <1>9, <1>10, <2>2, <3>2
    <2>3. CASE d # r
      BY <1>9, <1>10, <2>1, <2>3
    <2>4. CASE s # s0 /\ d = r
      <3>1. ~ Carries(ip[r], s, r)
        BY <1>2, <1>3, <1>4, <2>4, CarriesConcerns
      <3>2. Due(s, d)' = Due(s, d)
        BY <1>9, <2>4, <3>1 DEF Due
      <3>3. QED
        BY <1>10, <2>1, <2>4, <3>2
    <2>5. QED
      BY <2>2, <2>3, <2>4
  <1>12. InOrder'
    BY <1>1, <1>11 DEF InOrder
  <1>13. copy' \in [Ranks -> [AllCells -> Versions]]
    <2>1. slab.lo \in Int /\ slab.len \in Nat
      BY <1>2, <1>3, <1>4 DEF Typed, WellFormedText, Transfer
    <2>2. msg.data \in Seq([Parts -> Int])
      BY <1>5 DEF Messages
    <2>3. \A i \in 1 .. slab.len : msg.data[i] \in [Parts -> Int]
      BY <1>5, <2>1, <2>2
    <2>4. ASSUME NEW c \in AllCells, NEW k \in 1 .. slab.len, CellAt(slab, k, c[3]) = c
          PROVE  msg.data[c[2] - slab.lo + 1][c[3]] \in Int
      <3>1. c[2] = slab.lo + k - 1
        BY <2>4 DEF CellAt
      <3>2. c[2] - slab.lo + 1 = k
        BY <2>1, <3>1
      <3>3. c[3] \in Parts
        BY DEF Parts
      <3>4. QED
        BY <2>3, <3>2, <3>3
    <2>5. \A c \in AllCells : copy[r][c] \in Int
      BY <1>3
    <2> HIDE DEF slab, msg
    <2>6. Stored(copy[r], slab, msg.data) \in [AllCells -> Int]
      BY <2>4, <2>5 DEF Stored
    <2>7. QED
      BY <1>1, <1>3, <2>6 DEF Versions
  <1>14. QED
    BY <1>1, <1>2, <1>8, <1>9, <1>10, <1>12, <1>13, SameMessages DEF IInv, Typed

-----------------------------------------------------------------------------
LEMMA InitKeeps == Init => IInv
  <1> SUFFICES ASSUME Init PROVE IInv
    OBVIOUS
  <1>1. WellFormedText(program)
    BY ProgramsAssumption DEF Init
  <1>2. Len(program) \in Nat \ {0} /\ DOMAIN program = 1 .. Len(program)
    BY <1>1 DEF WellFormedText
  <1>3. ASSUME NEW r \in Ranks
        PROVE  /\ ip[r] \in DOMAIN program /\ Concerns(program[ip[r]], r)
               /\ \A j \in DOMAIN program : 0 < j /\ Concerns(program[j], r) => ip[r] <= j
    <2>1. ip[r] = NextFor(program, r, 0) /\ 0 \in 0 .. Len(program) - 1
      BY <1>2 DEF Init
    <2>2. QED
      BY <1>1, <2>1, NextConcerns
  <1>4. Typed
    <2>1. ip \in [Ranks -> DOMAIN program]
      BY <1>3 DEF Init
    <2>2. channel \in [Ranks -> [Ranks -> Seq(Messages)]]
      BY DEF Init
    <2>3. copy \in [Ranks -> [AllCells -> Versions]] /\ target \in 0 .. NumRanks
      BY RanksAssumption DEF Init, Versions, Untouched
    <2>4. QED
      BY <1>1, <2>1, <2>2, <2>3 DEF Init, Typed
  <1>5. Standing
    BY <1>3 DEF Standing
  <1>6. Busy
    <2>1. program[ip[rootRank]].op = "broadcast" => Destinations # {}
      BY <1>3, RootIsARank DEF Concerns, InBroadcast
    <2>2. \A d \in Destinations : d >= 0
      BY RootIsARank
    <2>3. QED
      BY <2>1, <2>2 DEF Init, Busy
  <1>7. ASSUME NEW s \in Ranks, NEW d \in Ranks, NEW k \in DOMAIN program, Carries(k, s, d)
        PROVE  ~ Sent(k, s, d) /\ ip[d] <= k
    <2>1. Concerns(program[k], s) /\ Concerns(program[k], d)
      BY <1>4, <1>7, CarriesConcerns
    <2>2. 0 < k /\ ip[s] <= k /\ ip[d] <= k
      BY <1>2, <1>3, <2>1
    <2>3. d \in Nat /\ ip[s] \in Nat /\ k \in Nat
      BY <1>2, <1>3, RootIsARank
    <2>4. QED
      BY <2>2, <2>3 DEF Init, Sent
  <1>8. InOrder
    <2>1. ASSUME NEW s \in Ranks, NEW d \in Ranks PROVE Holds(channel[s][d], program, Due(s, d))
      <3>1. channel[s][d] = <<>>
        BY DEF Init
      <3>2. Due(s, d) = {}
        BY <1>7 DEF Due
      <3>3. QED
        BY <3>1, <3>2 DEF Holds
    <2>2. QED
      BY <2>1 DEF InOrder
  <1>9. NotAhead
    <2>1. ASSUME NEW s \in Ranks, NEW d \in Ranks, NEW k \in DOMAIN program,
                 Carries(k, s, d), k < ip[d]
          PROVE  Sent(k, s, d)
      <3>1. ip[d] <= k /\ ip[d] \in Nat /\ k \in Nat
        BY <1>2, <1>3, <1>7, <2>1
      <3>2. QED
        BY <2>1, <3>1
    <2>2. QED
      BY <2>1 DEF NotAhead
  <1>10. QED
    BY <1>4, <1>5, <1>6, <1>8, <1>9 DEF IInv

LEMMA StutterKeeps == IInv /\ UNCHANGED vars => IInv'
  <1> SUFFICES ASSUME IInv, UNCHANGED vars PROVE IInv'
    OBVIOUS
  <1>1. UNCHANGED <<program, ip, target, mode, barriers, channel, copy>>
    BY DEF vars
  <1>2. Typed' /\ Standing' /\ Busy'
    BY <1>1, SameMessages DEF IInv, Typed, Standing, Busy, Concerns
  <1>3. \A s \in Ranks : SendTo(s)' = SendTo(s)
    BY <1>1 DEF SendTo, instruction
  <1>4. /\ \A k, s, d : Carries(k, s, d)' <=> Carries(k, s, d)
        /\ \A s \in Ranks : \A k, d : Sent(k, s, d)' <=> Sent(k, s, d)
    BY <1>1, <1>3 DEF Carries, Sent
  <1>5. \A s, d \in Ranks : Due(s, d)' = Due(s, d)
    BY <1>1, <1>4 DEF Due
  <1>6. QED
    BY <1>1, <1>2, <1>4, <1>5 DEF IInv, InOrder, NotAhead

LEMMA StepKeeps == IInv /\ [Next]_vars => IInv'
  BY ComputeKeeps, EnterBarrierKeeps, LeaveBarrierKeeps, SendBufferedKeeps, SendBlockingKeeps,
     SendTakenKeeps, ReceiveKeeps, StutterKeeps DEF Next, RankStep, Finished

(* The channel from one rank to another holds the transfers due, in order, *)
(* whatever the ranks do.                                                  *)
THEOREM ChannelInvariant == Spec => []IInv
  BY InitKeeps, StepKeeps, PTL DEF Spec

(* Every rank stands at one of its own instructions, and every message is  *)
(* as long as the slab it carries.                                         *)
THEOREM RunTypeCorrect == Spec => []TypeOK
  <1>1. IInv => TypeOK
    <2> SUFFICES ASSUME IInv, NEW s \in Ranks, NEW d \in Ranks, NEW i \in 1 .. Len(channel[s][d])
                 PROVE  Len(channel[s][d][i].data) = channel[s][d][i].slab.len
      BY DEF IInv, Typed, TypeOK
    <2>1. QED
      BY DEF IInv, InOrder, Holds
  <1>2. QED
    BY <1>1, ChannelInvariant, PTL

(* Tag 0 everywhere is enough: a receive takes the slab it stands for      *)
(* (utils.cc:700-815).                                                     *)
THEOREM ReceivesAreMatched == Spec => []ReceivesMatchSends
  <1>1. IInv => ReceivesMatchSends
    <2> SUFFICES ASSUME IInv, NEW r \in Ranks, IsReceiver(r), channel[Source(r)][r] # <<>>
                 PROVE  Head(channel[Source(r)][r]).slab = program[ip[r]].slab
      BY DEF ReceivesMatchSends, instruction
    <2>1. Source(r) \in Ranks /\ Carries(ip[r], Source(r), r)
      <3>1. CASE program[ip[r]].op = "gather" /\ r = rootRank
        <4>1. program[ip[r]].owner \in Ranks
          BY <3>1 DEF IInv, Typed, WellFormedText
        <4>2. Source(r) = NodeToRank[program[ip[r]].owner]
          BY <3>1 DEF Source, instruction
        <4>3. QED
          BY <3>1, <4>1, <4>2, NodeToRankAssumption DEF Carries
      <3>2. CASE program[ip[r]].op = "broadcast" /\ r # rootRank
        BY <3>2, RootIsARank DEF Source, Carries, Destinations
      <3>3. QED
        BY <3>1, <3>2 DEF IsReceiver, Running, instruction
    <2>2. QED
      BY <2>1, HeadIsDue DEF IInv
  <1>2. QED
    BY <1>1, ChannelInvariant, PTL

(* Nothing is under way when all ranks have returned.                      *)
THEOREM AllIsDelivered == Spec => []NothingInFlight
  <1>1. IInv => NothingInFlight
    <2> SUFFICES ASSUME IInv, AllReturned, NEW s \in Ranks, NEW d \in Ranks,
                        channel[s][d] # <<>>
                 PROVE  FALSE
      BY DEF NothingInFlight
    <2>1. /\ channel[s][d] \in Seq(Messages) /\ Len(program) \in Nat
          /\ DOMAIN program = 1 .. Len(program)
          /\ \A k \in DOMAIN program : program[k].op = "return" <=> k = Len(program)
          /\ ip[d] \in DOMAIN program
      BY DEF IInv, Typed, WellFormedText
    <2>2. channel[s][d][1].place \in Due(s, d)
      <3>1. 1 \in 1 .. Len(channel[s][d])
        BY <2>1
      <3>2. QED
        BY <3>1 DEF IInv, InOrder, Holds
    <2>3. ip[d] = Len(program)
      BY <2>1 DEF AllReturned, Returned, Running, instruction
    <2>4. channel[s][d][1].place = Len(program)
      BY <2>1, <2>2, <2>3 DEF Due
    <2>5. program[Len(program)].op = "return"
      BY <2>1, <2>3
    <2>6. QED
      BY <2>2, <2>4, <2>5 DEF Due, Carries
  <1>2. QED
    BY <1>1, ChannelInvariant, PTL

-----------------------------------------------------------------------------
(* A rank has entered the barriers it has passed, and the one it is in.    *)
Passed(r) == {k \in DOMAIN program : program[k].op = "barrier" /\ k < ip[r]}

BarriersCounted ==
  \A r \in Ranks :
    barriers[r] = Cardinality(Passed(r)) + (IF mode[r] = "barrier" THEN 1 ELSE 0)

LEMMA PassedIsFinite ==
  ASSUME Typed, NEW r \in Ranks
  PROVE  IsFiniteSet(Passed(r)) /\ Cardinality(Passed(r)) \in Nat
  <1>1. DOMAIN program = 1 .. Len(program) /\ Len(program) \in Nat
    BY DEF Typed, WellFormedText
  <1>2. IsFiniteSet(1 .. Len(program))
    BY <1>1, FS_Interval
  <1>3. Passed(r) \subseteq 1 .. Len(program)
    BY <1>1 DEF Passed
  <1>4. QED
    BY <1>2, <1>3, FS_Subset, FS_CardinalityType

(* A rank that moves on passes the barrier it stood at, and no other.      *)
LEMMA AdvancePasses ==
  ASSUME Typed, NEW r \in Ranks, program[ip[r]].op # "return", Advance(r), UNCHANGED program
  PROVE  /\ Passed(r)' = IF program[ip[r]].op = "barrier" THEN Passed(r) \cup {ip[r]}
                                                          ELSE Passed(r)
         /\ \A q \in Ranks : q # r => Passed(q)' = Passed(q)
         /\ ip[r] \notin Passed(r)
  <1> DEFINE n == NextFor(program, r, ip[r])
  <1>1. /\ n \in DOMAIN program /\ ip[r] < n
        /\ \A j \in DOMAIN program : ip[r] < j /\ Concerns(program[j], r) => n <= j
    BY NextOfRank
  <1>2. ip' = [ip EXCEPT ![r] = n] /\ ip \in [Ranks -> DOMAIN program]
    BY DEF Advance, Typed
  <1>3. DOMAIN program \subseteq Nat
    BY DEF Typed, WellFormedText
  <1> HIDE DEF n
  <1>4. ip[r] \in DOMAIN program /\ ip[r] \in Nat /\ n \in Nat /\ ip'[r] = n
    BY <1>1, <1>2, <1>3
  <1>5. \A k \in DOMAIN program : program[k].op = "barrier" /\ ip[r] < k => n <= k
    BY <1>1 DEF Concerns
  <1>6. \A k \in DOMAIN program :
          program[k].op = "barrier" /\ k < n <=> program[k].op = "barrier" /\ (k < ip[r] \/ k = ip[r])
    BY <1>1, <1>3, <1>4, <1>5
  <1>7. Passed(r)' = {k \in DOMAIN program : program[k].op = "barrier" /\ (k < ip[r] \/ k = ip[r])}
    BY <1>4, <1>6 DEF Passed
  <1>8. Passed(r)' = IF program[ip[r]].op = "barrier" THEN Passed(r) \cup {ip[r]} ELSE Passed(r)
    BY <1>4, <1>7 DEF Passed
  <1>9. \A q \in Ranks : q # r => Passed(q)' = Passed(q)
    BY <1>2 DEF Passed
  <1>10. ip[r] \notin Passed(r)
    BY <1>4 DEF Passed
  <1>11. QED
    BY <1>8, <1>9, <1>10

LEMMA RankMoves ==
  ASSUME IInv, NEW r \in Ranks, RankStep(r)
  PROVE  /\ UNCHANGED program
         /\ UNCHANGED ip \/ (Advance(r) /\ program[ip[r]].op # "return")
  <1>1. Typed /\ Standing /\ Busy /\ NotAhead
    BY DEF IInv
  <1>2. CASE Compute(r) \/ EnterBarrier(r) \/ LeaveBarrier(r)
    BY <1>1, <1>2 DEF Compute, EnterBarrier, LeaveBarrier, Running, instruction, Busy
  <1>3. CASE SendBuffered(r) \/ SendBlocking(r)
    <2>1. Sends(r)
      BY <1>1, <1>3, SenderStands DEF SendBuffered, SendBlocking
    <2>2. QED
      BY <1>3, <2>1 DEF SendBuffered, SendBlocking, AfterSend, Sends
  <1>4. CASE SendTaken(r)
    BY <1>1, <1>4 DEF SendTaken, AfterSend, Busy
  <1>5. CASE Receive(r)
    BY <1>5 DEF Receive, IsReceiver, Running, instruction
  <1>6. QED
    BY <1>2, <1>3, <1>4, <1>5 DEF RankStep

LEMMA BarriersStayCounted ==
  ASSUME IInv, BarriersCounted, NEW r \in Ranks, RankStep(r)
  PROVE  BarriersCounted'
  <1>1. /\ Typed /\ Busy /\ mode \in [Ranks -> {"run", "sending", "barrier"}]
        /\ barriers \in [Ranks -> Nat]
    BY DEF IInv, Typed
  <1>2. /\ UNCHANGED program
        /\ UNCHANGED ip \/ (Advance(r) /\ program[ip[r]].op # "return")
    BY RankMoves
  <1>3. \A q \in Ranks : Cardinality(Passed(q)) \in Nat
    BY <1>1, PassedIsFinite
  <1>4. CASE EnterBarrier(r)
    <2>1. /\ mode[r] = "run" /\ mode' = [mode EXCEPT ![r] = "barrier"] /\ UNCHANGED ip
          /\ barriers' = [barriers EXCEPT ![r] = @ + 1]
      BY <1>4 DEF EnterBarrier, Running
    <2>2. \A q \in Ranks : Passed(q)' = Passed(q)
      BY <1>2, <2>1 DEF Passed
    <2>3. barriers[r] = Cardinality(Passed(r)) /\ barriers'[r] = barriers[r] + 1
      BY <1>1, <1>3, <2>1 DEF BarriersCounted
    <2>4. \A q \in Ranks : q # r => barriers'[q] = barriers[q] /\ mode'[q] = mode[q]
      BY <1>1, <2>1
    <2>5. mode'[r] = "barrier"
      BY <1>1, <2>1
    <2>6. QED
      BY <2>2, <2>3, <2>4, <2>5 DEF BarriersCounted
  <1>5. CASE LeaveBarrier(r)
    <2>1. /\ program[ip[r]].op = "barrier" /\ mode[r] = "barrier"
          /\ mode' = [mode EXCEPT ![r] = "run"] /\ Advance(r) /\ UNCHANGED <<program, barriers>>
      BY <1>1, <1>5 DEF LeaveBarrier, Busy
    <2>2. /\ Passed(r)' = Passed(r) \cup {ip[r]} /\ ip[r] \notin Passed(r)
          /\ \A q \in Ranks : q # r => Passed(q)' = Passed(q)
      BY <1>1, <2>1, AdvancePasses
    <2>3. Cardinality(Passed(r)') = Cardinality(Passed(r)) + 1
      BY <1>1, <2>2, PassedIsFinite, FS_AddElement
    <2>4. barriers[r] = Cardinality(Passed(r)) + 1 /\ barriers'[r] = barriers[r]
      BY <2>1 DEF BarriersCounted
    <2>5. mode'[r] = "run" /\ \A q \in Ranks : q # r => mode'[q] = mode[q]
      BY <1>1, <2>1
    <2>6. \A q \in Ranks : q # r =>
            barriers'[q] = Cardinality(Passed(q)') + (IF mode'[q] = "barrier" THEN 1 ELSE 0)
      BY <2>1, <2>2, <2>5 DEF BarriersCounted
    <2>7. barriers'[r] = Cardinality(Passed(r)') + (IF mode'[r] = "barrier" THEN 1 ELSE 0)
      BY <1>3, <2>3, <2>4, <2>5
    <2>8. QED
      BY <2>6, <2>7 DEF BarriersCounted
  <1>6. CASE ~ EnterBarrier(r) /\ ~ LeaveBarrier(r)
    <2>1. /\ mode[r] # "barrier" /\ program[ip[r]].op # "barrier"
          /\ UNCHANGED barriers /\ mode' \in [Ranks -> {"run", "sending", "barrier"}]
          /\ mode'[r] # "barrier" /\ \A q \in Ranks : q # r => mode'[q] = mode[q]
      <3>1. CASE Compute(r) \/ Receive(r)
        BY <1>1, <3>1 DEF Compute, Receive, IsReceiver, Running, instruction
      <3>2. CASE SendBuffered(r) \/ SendBlocking(r)
        BY <1>1, <3>2 DEF SendBuffered, SendBlocking, IsSender, Running, instruction
      <3>3. CASE SendTaken(r)
        BY <1>1, <3>3 DEF SendTaken, Busy
      <3>4. QED
        BY <1>6, <3>1, <3>2, <3>3 DEF RankStep
    <2>2. \A q \in Ranks : Passed(q)' = Passed(q)
      <3>1. CASE UNCHANGED ip
        BY <1>2, <3>1 DEF Passed
      <3>2. CASE Advance(r) /\ program[ip[r]].op # "return"
        BY <1>1, <1>2, <2>1, <3>2, AdvancePasses
      <3>3. QED
        BY <1>2, <3>1, <3>2
    <2>3. \A q \in Ranks : (mode'[q] = "barrier") <=> (mode[q] = "barrier")
      BY <2>1
    <2>4. QED
      BY <2>1, <2>2, <2>3 DEF BarriersCounted
  <1>7. QED
    BY <1>4, <1>5, <1>6

LEMMA InitCounts == Init => BarriersCounted
  <1> SUFFICES ASSUME Init, NEW r \in Ranks
               PROVE  Cardinality(Passed(r)) = 0
    BY DEF BarriersCounted, Init
  <1>1. WellFormedText(program) /\ Len(program) \in Nat \ {0} /\ DOMAIN program = 1 .. Len(program)
    BY ProgramsAssumption DEF Init, WellFormedText
  <1>2. ip[r] = NextFor(program, r, 0) /\ 0 \in 0 .. Len(program) - 1
    BY <1>1 DEF Init
  <1>3. /\ ip[r] \in DOMAIN program
        /\ \A j \in DOMAIN program : 0 < j /\ Concerns(program[j], r) => ip[r] <= j
    BY <1>1, <1>2, NextConcerns
  <1>4. \A k \in DOMAIN program : program[k].op = "barrier" => Concerns(program[k], r)
    BY DEF Concerns
  <1>5. Passed(r) = {}
    BY <1>1, <1>3, <1>4 DEF Passed
  <1>6. QED
    BY <1>5, FS_EmptySet

(* A sender no rank is behind: it can send, or its message has been taken, *)
(* or the receiver stands there to take it.                                *)
LEMMA SenderIsServed ==
  ASSUME IInv, NEW s \in Ranks, Sends(s), \A q \in Ranks : ip[s] <= ip[q]
  PROVE  \E r \in Ranks : CanMove(r)
  <1>1. /\ Typed /\ Standing /\ Busy /\ InOrder /\ NotAhead
        /\ mode \in [Ranks -> {"run", "sending", "barrier"}]
    BY DEF IInv, Typed
  <1>2. CASE mode[s] = "run"
    BY <1>2 DEF CanMove, IsSender, Running, instruction, Sends
  <1>3. CASE mode[s] = "sending" /\ channel[s][SendTo(s)] = <<>>
    BY <1>3 DEF CanMove
  <1>4. CASE mode[s] = "sending" /\ channel[s][SendTo(s)] # <<>>
    <2> DEFINE d == SendTo(s)
               p == channel[s][d][1].place
    <2>1. d \in Ranks /\ Carries(ip[s], s, d) /\ ip[s] \in DOMAIN program /\ ip[d] \in DOMAIN program
      BY <1>1, SenderServes DEF Typed
    <2>2. channel[s][d] \in Seq(Messages) /\ 1 \in 1 .. Len(channel[s][d])
      BY <1>1, <1>4, <2>1 DEF Typed
    <2>3. p \in Due(s, d)
      BY <1>1, <2>1, <2>2 DEF InOrder, Holds
    <2> HIDE DEF d, p
    <2>4. p \in DOMAIN program /\ Sent(p, s, d) /\ ip[d] <= p /\ DOMAIN program \subseteq Nat
      BY <1>1, <2>3 DEF Due, Typed, WellFormedText
    <2>5. ip[s] <= ip[d]
      BY <2>1
    <2>6. ip[d] = ip[s]
      BY <2>1, <2>4, <2>5 DEF Sent
    <2>7. s # d /\ ~ Carries(ip[s], d, s)
      BY <1>1, <2>1, CarriesConcerns
    <2>8. CASE program[ip[s]].op = "gather"
      <3>1. d = rootRank /\ s = NodeToRank[program[ip[s]].owner]
        BY <2>1, <2>8 DEF Carries
      <3>2. mode[d] = "run"
        BY <1>1, <2>1, <2>6, <2>8, <3>1 DEF Busy
      <3>3. IsReceiver(d) /\ Source(d) = s
        BY <2>6, <2>8, <3>1, <3>2 DEF IsReceiver, Source, Running, instruction
      <3>4. QED
        BY <1>4, <2>1, <3>3 DEF CanMove, d
    <2>9. CASE program[ip[s]].op = "broadcast"
      <3>1. d # rootRank /\ s = rootRank
        BY <2>1, <2>9 DEF Carries, Destinations
      <3>2. mode[d] = "run"
        BY <1>1, <2>1, <2>6, <2>9, <3>1 DEF Busy
      <3>3. IsReceiver(d) /\ Source(d) = s
        BY <2>6, <2>9, <3>1, <3>2 DEF IsReceiver, Source, Running, instruction
      <3>4. QED
        BY <1>4, <2>1, <3>3 DEF CanMove, d
    <2>10. QED
      BY <2>1, <2>8, <2>9 DEF Carries
  <1>5. QED
    BY <1>1, <1>2, <1>3, <1>4 DEF Busy, Sends

(* The rank furthest behind is never held up for good.                     *)
LEMMA FurthestBehindMoves ==
  ASSUME IInv, BarriersCounted, NEW r \in Ranks, \A q \in Ranks : ip[r] <= ip[q],
         program[ip[r]].op # "return"
  PROVE  \E q \in Ranks : CanMove(q)
  <1>1. /\ Typed /\ Standing /\ Busy /\ InOrder /\ NotAhead
        /\ mode \in [Ranks -> {"run", "sending", "barrier"}]
        /\ ip \in [Ranks -> DOMAIN program] /\ DOMAIN program \subseteq Nat
        /\ barriers \in [Ranks -> Nat]
    BY DEF IInv, Typed, WellFormedText
  <1>2. ip[r] \in DOMAIN program
        /\ program[ip[r]].op \in {"compute", "barrier", "gather", "broadcast", "return"}
    BY <1>1 DEF Typed, WellFormedText
  <1>3. CASE program[ip[r]].op = "compute"
    <2>1. mode[r] = "run"
      BY <1>1, <1>3 DEF Busy
    <2>2. QED
      BY <1>3, <2>1 DEF CanMove, Running, instruction
  <1>4. CASE program[ip[r]].op = "barrier"
    <2>1. CASE \E q \in Ranks : ip[q] = ip[r] /\ mode[q] = "run"
      BY <1>4, <2>1 DEF CanMove, Running, instruction
    <2>2. CASE \A q \in Ranks : ip[q] = ip[r] => mode[q] # "run"
      <3>1. mode[r] = "barrier"
        BY <1>1, <1>4, <2>2 DEF Busy
      <3>2. barriers[r] = Cardinality(Passed(r)) + 1
        BY <3>1 DEF BarriersCounted
      <3>3. ASSUME NEW q \in Ranks PROVE barriers[q] >= barriers[r]
        <4>1. Cardinality(Passed(q)) \in Nat /\ Cardinality(Passed(r)) \in Nat
          BY <1>1, PassedIsFinite
        <4>2. CASE ip[q] = ip[r]
          <5>1. mode[q] = "barrier"
            BY <1>1, <1>4, <2>2, <4>2 DEF Busy
          <5>2. Passed(q) = Passed(r)
            BY <4>2 DEF Passed
          <5>3. QED
            BY <3>2, <4>1, <5>1, <5>2 DEF BarriersCounted
        <4>3. CASE ip[q] # ip[r]
          <5>1. ip[r] < ip[q] /\ ip[r] \in Nat /\ ip[q] \in Nat
            BY <1>1, <4>3
          <5>2. Passed(r) \cup {ip[r]} \subseteq Passed(q) /\ ip[r] \notin Passed(r)
            BY <1>1, <1>2, <1>4, <5>1 DEF Passed
          <5>3. Cardinality(Passed(r) \cup {ip[r]}) = Cardinality(Passed(r)) + 1
            BY <1>1, <5>2, PassedIsFinite, FS_AddElement
          <5>4. Cardinality(Passed(r) \cup {ip[r]}) <= Cardinality(Passed(q))
            BY <1>1, <5>2, PassedIsFinite, FS_Subset
          <5>5. barriers[q] >= Cardinality(Passed(q))
            BY <4>1 DEF BarriersCounted
          <5>6. QED
            BY <1>1, <3>2, <4>1, <5>3, <5>4, <5>5
        <4>4. QED
          BY <4>2, <4>3
      <3>4. QED
        BY <3>1, <3>3 DEF CanMove
    <2>3. QED
      BY <2>1, <2>2
  <1>5. CASE program[ip[r]].op \in Transfer
    <2>1. CASE Sends(r)
      BY <2>1, SenderIsServed
    <2>2. CASE ~ Sends(r)
      <3>1. PICK s \in Ranks : Carries(ip[r], s, r) /\ Source(r) = s
        <4>1. CASE program[ip[r]].op = "gather"
          <5>1. r = rootRank
            BY <1>5, <2>2, <4>1 DEF Sends
          <5>2. program[ip[r]].owner \in Ranks
            BY <1>1, <1>2, <4>1 DEF Typed, WellFormedText
          <5>3. QED
            BY <4>1, <5>1, <5>2, NodeToRankAssumption DEF Carries, Source, instruction
        <4>2. CASE program[ip[r]].op = "broadcast"
          <5>1. r # rootRank
            BY <2>2, <4>2 DEF Sends
          <5>2. QED
            BY <4>2, <5>1, RootIsARank DEF Carries, Source, Destinations
        <4>3. QED
          BY <1>5, <4>1, <4>2 DEF Transfer
      <3>2. CASE ip[s] = ip[r]
        <4>1. Sends(s)
          BY <1>1, <3>1, <3>2, CarrierSends
        <4>2. \A q \in Ranks : ip[s] <= ip[q]
          BY <3>2
        <4>3. QED
          BY <4>1, <4>2, SenderIsServed
      <3>3. CASE ip[s] # ip[r]
        <4>1. ip[r] < ip[s]
          BY <1>1, <3>3
        <4>2. ip[r] \in Due(s, r)
          BY <1>1, <1>2, <3>1, <4>1 DEF Due, Sent
        <4>3. channel[s][r] # <<>>
          BY <1>1, <3>1, <4>2 DEF InOrder, Holds
        <4>4. mode[r] = "run"
          BY <1>1, <1>5, <2>2 DEF Busy, Sends, Transfer
        <4>5. IsReceiver(r)
          BY <1>5, <2>2, <4>4 DEF IsReceiver, Running, instruction, Sends, Transfer
        <4>6. QED
          BY <3>1, <4>3, <4>5 DEF CanMove
      <3>4. QED
        BY <3>2, <3>3
    <2>3. QED
      BY <2>1, <2>2
  <1>6. QED
    BY <1>2, <1>3, <1>4, <1>5 DEF Transfer

(* The emitted program does not deadlock, for any text, number of ranks    *)
(* and table, and whichever sends MPI chooses to block (utils.cc:700-815). *)
THEOREM DeadlockFree == Spec => []NeverStuck
  <1>1. IInv /\ BarriersCounted /\ [Next]_vars => (IInv /\ BarriersCounted)'
    <2> SUFFICES ASSUME IInv, BarriersCounted, [Next]_vars PROVE IInv' /\ BarriersCounted'
      OBVIOUS
    <2>1. IInv'
      BY StepKeeps
    <2>2. CASE UNCHANGED vars
      BY <2>1, <2>2 DEF vars, BarriersCounted, Passed
    <2>3. CASE \E r \in Ranks : RankStep(r)
      BY <2>1, <2>3, BarriersStayCounted
    <2>4. QED
      BY <2>1, <2>2, <2>3 DEF Next, Finished
  <1>2. IInv /\ BarriersCounted => NeverStuck
    <2> SUFFICES ASSUME IInv, BarriersCounted, ~ \E r \in Ranks : CanMove(r)
                 PROVE  AllReturned
      BY DEF NeverStuck
    <2> DEFINE places == {ip[q] : q \in Ranks}
    <2>1. /\ ip \in [Ranks -> DOMAIN program] /\ DOMAIN program = 1 .. Len(program)
          /\ Len(program) \in Nat /\ Busy
          /\ \A k \in DOMAIN program : program[k].op = "return" <=> k = Len(program)
      BY DEF IInv, Typed, WellFormedText
    <2>2. \E p \in places : \A k \in places : p <= k
      <3>1. places \in SUBSET Nat /\ places # {}
        BY <2>1, RootIsARank
      <3> HIDE DEF places
      <3>2. QED
        BY <3>1, LeastMember
    <2>3. PICK r \in Ranks : \A q \in Ranks : ip[r] <= ip[q]
      BY <2>2
    <2>4. program[ip[r]].op = "return"
      BY <2>3, FurthestBehindMoves
    <2>5. ASSUME NEW q \in Ranks PROVE Returned(q)
      <3>1. ip[r] = Len(program) /\ ip[q] \in DOMAIN program /\ ip[r] <= ip[q]
        BY <2>1, <2>3, <2>4
      <3>2. program[ip[q]].op = "return"
        BY <2>1, <3>1
      <3>3. mode[q] = "run"
        <4>1. mode[q] \in {"run", "sending", "barrier"}
          BY DEF IInv, Typed
        <4>2. QED
          BY <2>1, <3>2, <4>1 DEF Busy
      <3>4. QED
        BY <3>2, <3>3 DEF Returned, Running, instruction
    <2>6. QED
      BY <2>5 DEF AllReturned
  <1>3. QED
    BY <1>1, <1>2, InitKeeps, InitCounts, PTL DEF Spec

-----------------------------------------------------------------------------
(* A rank that moves on gains a whole instruction's worth of steps.        *)
LEMMA MoreLeft ==
  ASSUME NEW a \in Nat, NEW b \in Nat, b < a, NEW w \in Nat
  PROVE  /\ a * w \in Nat /\ b * w \in Nat
         /\ b * w + w <= a * w
  <1> DEFINE d == a - b - 1
  <1>1. d \in Nat /\ a = b + 1 + d
    OBVIOUS
  <1> HIDE DEF d
  <1>2. a * w = b * w + w + d * w
    BY <1>1
  <1>3. \A x, y \in Nat : x * y \in Nat
    OBVIOUS
  <1>4. a * w \in Nat /\ b * w \in Nat /\ d * w \in Nat
    BY <1>1, <1>3
  <1>5. QED
    BY <1>2, <1>4

(* What a step does to the place and the mode of the rank that takes it.   *)
LEMMA StepKinds ==
  ASSUME IInv, NEW r \in Ranks, RankStep(r)
  PROVE  /\ \A s \in Ranks : s # r =>
              ip'[s] = ip[s] /\ mode'[s] = mode[s] /\ (s = rootRank => target' = target)
         /\ \/ /\ ip'[r] = ip[r] /\ mode[r] = "run" /\ mode'[r] # "run" /\ target' = target
            \/ /\ ip'[r] = ip[r] /\ r = rootRank /\ target' > target /\ mode'[r] = "run"
            \/ /\ ip[r] < ip'[r] /\ ip'[r] \in DOMAIN program /\ mode'[r] = "run"
               /\ r = rootRank => target' = 0
  <1>1. /\ Typed /\ Standing /\ Busy /\ NotAhead
        /\ mode \in [Ranks -> {"run", "sending", "barrier"}]
        /\ ip \in [Ranks -> DOMAIN program] /\ target \in Nat
    BY DEF IInv, Typed
  <1>2. ASSUME Advance(r), program[ip[r]].op # "return"
        PROVE  /\ ip[r] < ip'[r] /\ ip'[r] \in DOMAIN program
               /\ \A s \in Ranks : s # r => ip'[s] = ip[s]
    <2>1. NextFor(program, r, ip[r]) \in DOMAIN program /\ ip[r] < NextFor(program, r, ip[r])
      BY <1>1, <1>2, NextOfRank
    <2>2. ip' = [ip EXCEPT ![r] = NextFor(program, r, ip[r])]
      BY <1>2 DEF Advance
    <2>3. QED
      BY <1>1, <2>1, <2>2
  <1>3. ASSUME Sends(r), AfterSend(r)
        PROVE  /\ \A s \in Ranks : s # r => ip'[s] = ip[s] /\ (s = rootRank => target' = target)
               /\ \/ ip' = ip /\ r = rootRank /\ target' > target
                  \/ /\ ip[r] < ip'[r] /\ ip'[r] \in DOMAIN program
                     /\ r = rootRank => target' = 0
    <2>1. CASE program[ip[r]].op = "broadcast" /\ \E d \in Destinations : d > SendTo(r)
      <3>1. SendTo(r) \in Nat /\ SendTo(r) >= target
        BY <1>1, <1>3, <2>1, SenderServes, RootIsARank
      <3>2. target' = SendTo(r) + 1 /\ ip' = ip /\ r = rootRank
        BY <1>3, <2>1 DEF AfterSend, instruction, Sends
      <3>3. QED
        BY <1>1, <3>1, <3>2
    <2>2. CASE ~ (program[ip[r]].op = "broadcast" /\ \E d \in Destinations : d > SendTo(r))
      <3>1. /\ target' = (IF program[ip[r]].op = "broadcast" THEN 0 ELSE target) /\ Advance(r)
            /\ program[ip[r]].op # "return"
        BY <1>3, <2>2 DEF AfterSend, instruction, Sends
      <3>2. QED
        BY <1>2, <1>3, <3>1 DEF Sends
    <2>3. QED
      BY <2>1, <2>2
  <1>4. r = rootRank /\ ~ Sends(r) => target = 0
    BY <1>1 DEF Busy, Sends
  <1>5. CASE Compute(r) \/ LeaveBarrier(r) \/ Receive(r)
    <2>1. /\ Advance(r) /\ program[ip[r]].op # "return" /\ ~ Sends(r) /\ UNCHANGED target
          /\ mode'[r] = "run" /\ \A s \in Ranks : s # r => mode'[s] = mode[s]
      <3>1. CASE Compute(r)
        BY <3>1 DEF Compute, Running, instruction, Sends
      <3>2. CASE LeaveBarrier(r)
        BY <1>1, <3>2 DEF LeaveBarrier, Busy, Sends
      <3>3. CASE Receive(r)
        BY <3>3 DEF Receive, IsReceiver, Running, instruction, Sends
      <3>4. QED
        BY <1>5, <3>1, <3>2, <3>3
    <2>2. QED
      BY <1>2, <1>4, <2>1
  <1>6. CASE EnterBarrier(r) \/ SendBlocking(r)
    BY <1>1, <1>6 DEF EnterBarrier, SendBlocking, IsSender, Running
  <1>7. CASE SendBuffered(r) \/ SendTaken(r)
    <2>1. /\ Sends(r) /\ AfterSend(r) /\ mode'[r] = "run"
          /\ \A s \in Ranks : s # r => mode'[s] = mode[s]
      <3>1. CASE SendBuffered(r)
        BY <1>1, <3>1, SenderStands DEF SendBuffered
      <3>2. CASE SendTaken(r)
        BY <1>1, <3>2 DEF SendTaken, Busy, Sends
      <3>3. QED
        BY <1>7, <3>1, <3>2
    <2>2. QED
      BY <1>3, <2>1
  <1>8. QED
    BY <1>5, <1>6, <1>7 DEF RankStep

LEMMA FewStepsLeft ==
  ASSUME IInv, NEW r \in Ranks
  PROVE  StepsLeft(r) \in Nat
  <1> DEFINE w == 2 * NumRanks + 2
  <1>1. /\ ip[r] \in DOMAIN program /\ DOMAIN program = 1 .. Len(program) /\ Len(program) \in Nat
        /\ \A k \in DOMAIN program : program[k].op = "return" <=> k = Len(program)
        /\ mode[r] \in {"run", "sending", "barrier"} /\ target \in 0 .. NumRanks /\ Busy
    BY DEF IInv, Typed, WellFormedText
  <1>2. NumRanks \in Nat /\ w \in Nat
    BY RanksAssumption
  <1>3. CASE ip[r] = Len(program)
    <2>1. program[ip[r]].op = "return"
      BY <1>1, <1>3
    <2>2. mode[r] = "run" /\ (r = rootRank => target = 0)
      BY <1>1, <2>1 DEF Busy
    <2>3. (Len(program) - ip[r]) * w = 0
      BY <1>1, <1>2, <1>3
    <2>4. QED
      BY <2>2, <2>3 DEF StepsLeft
  <1>4. CASE ip[r] # Len(program)
    <2>1. Len(program) - ip[r] \in Nat /\ 0 < Len(program) - ip[r]
      BY <1>1, <1>4
    <2> DEFINE total == (Len(program) - ip[r]) * w
    <2>2. total \in Nat /\ w <= total
      <3>1. 0 * w = 0
        BY <1>2
      <3>2. QED
        BY <1>2, <2>1, <3>1, MoreLeft
    <2>3. StepsLeft(r) = total - (IF mode[r] = "run" THEN 0 ELSE 1)
                               - (IF r = rootRank THEN 2 * target ELSE 0)
      BY DEF StepsLeft
    <2> HIDE DEF total
    <2>4. QED
      BY <1>1, <1>2, <2>2, <2>3
  <1>5. QED
    BY <1>3, <1>4

(* Each step of the emitted program uses up one of the finitely many steps *)
(* left to the rank that takes it.                                         *)
THEOREM RunsAreFinite == Spec => StepsRunOut
  <1> DEFINE counted == \A q \in Ranks : StepsLeft(q) \in Nat
  <1>a. IInv => counted
    BY FewStepsLeft
  <1>b. IInv' => counted'
    BY <1>a, PTL
  <1>1. ASSUME IInv, IInv', NEW r \in Ranks, RankStep(r)
        PROVE  /\ 0 <= StepsLeft(r)' /\ StepsLeft(r)' < StepsLeft(r)
               /\ \A s \in Ranks \ {r} : StepsLeft(s)' = StepsLeft(s)
    <2> DEFINE w == 2 * NumRanks + 2
               a == Len(program) - ip[r]
               b == Len(program) - ip'[r]
               inner == (IF mode[r] = "run" THEN 0 ELSE 1) + (IF r = rootRank THEN 2 * target ELSE 0)
    <2>1. UNCHANGED program
      BY <1>1, RankMoves
    <2>2. /\ \A s \in Ranks : s # r =>
               ip'[s] = ip[s] /\ mode'[s] = mode[s] /\ (s = rootRank => target' = target)
          /\ \/ /\ ip'[r] = ip[r] /\ mode[r] = "run" /\ mode'[r] # "run" /\ target' = target
             \/ /\ ip'[r] = ip[r] /\ r = rootRank /\ target' > target /\ mode'[r] = "run"
             \/ /\ ip[r] < ip'[r] /\ ip'[r] \in DOMAIN program /\ mode'[r] = "run"
                /\ r = rootRank => target' = 0
      BY <1>1, StepKinds
    <2>3. /\ ip[r] \in 1 .. Len(program) /\ Len(program) \in Nat /\ DOMAIN program = 1 .. Len(program)
          /\ target \in 0 .. NumRanks /\ target' \in 0 .. NumRanks /\ NumRanks \in Nat
      BY <1>1, <2>1, RanksAssumption DEF IInv, Typed, WellFormedText
    <2>4. StepsLeft(r) \in Nat /\ StepsLeft(r)' \in Nat
      <3>1. StepsLeft(r) \in Nat
        BY <1>1, <1>a
      <3>2. StepsLeft(r)' \in Nat
        BY <1>1, <1>b
      <3>3. QED
        BY <3>1, <3>2
    <2>5. ASSUME NEW s \in Ranks, s # r PROVE StepsLeft(s)' = StepsLeft(s)
      BY <2>1, <2>2, <2>5 DEF StepsLeft
    <2>6. a \in Nat /\ w \in Nat /\ a * w \in Nat /\ inner \in 0 .. w - 1 /\ StepsLeft(r) = a * w - inner
      <3>1. a \in Nat /\ w \in Nat
        BY <2>3
      <3>2. a * w \in Nat
        BY <3>1
      <3>3. inner \in 0 .. w - 1
        BY <2>3
      <3>4. StepsLeft(r) = a * w - (IF mode[r] = "run" THEN 0 ELSE 1)
                                 - (IF r = rootRank THEN 2 * target ELSE 0)
        BY DEF StepsLeft
      <3> DEFINE total == a * w
      <3>5. StepsLeft(r) = total - inner
        <4>1. total \in Nat /\ target \in Nat
          BY <2>3, <3>2
        <4>2. StepsLeft(r) = total - (IF mode[r] = "run" THEN 0 ELSE 1)
                                   - (IF r = rootRank THEN 2 * target ELSE 0)
          BY <3>4
        <4> HIDE DEF total
        <4>3. QED
          BY <4>1, <4>2
      <3>6. QED
        BY <3>1, <3>2, <3>3, <3>5
    <2>7. StepsLeft(r)' = b * w - (IF mode'[r] = "run" THEN 0 ELSE 1)
                                - (IF r = rootRank THEN 2 * target' ELSE 0)
      BY <2>1 DEF StepsLeft
    <2>8. CASE ip'[r] = ip[r]
      <3>1. b * w = a * w
        BY <2>8
      <3> HIDE DEF w, a, b
      <3>2. QED
        BY <2>2, <2>3, <2>4, <2>5, <2>6, <2>7, <2>8, <3>1
    <2>9. CASE ip[r] < ip'[r]
      <3>1. b \in Nat /\ b < a
        BY <2>2, <2>3, <2>9
      <3>2. b * w \in Nat /\ b * w + w <= a * w
        BY <2>6, <3>1, MoreLeft
      <3>3. StepsLeft(r)' = b * w
        BY <2>2, <2>3, <2>7, <2>9, <3>2
      <3> HIDE DEF w, a, b, inner
      <3>4. QED
        BY <2>4, <2>5, <2>6, <3>2, <3>3
    <2>10. QED
      BY <2>2, <2>8, <2>9
  <1>2. IInv /\ IInv' /\ [Next]_vars =>
          [\E r \in Ranks : /\ 0 <= StepsLeft(r)' /\ StepsLeft(r)' < StepsLeft(r)
                            /\ \A s \in Ranks \ {r} : StepsLeft(s)' = StepsLeft(s)]_vars
    BY <1>1 DEF Next, Finished
  <1>3. QED
    BY <1>2, ChannelInvariant, PTL DEF Spec, StepsRunOut

-----------------------------------------------------------------------------
(* The recursive definition of MemoryBefore has a solution: a text with a  *)
(* least prefix without one would have a prefix just shorter with one.     *)
Runs(f, code, n) ==
  f = [k \in 1 .. n |-> IF k = 1 THEN Untouched ELSE Executed(code[k - 1], f[k - 1])]

LEMMA RunsExist ==
  ASSUME NEW code, NEW n \in Nat
  PROVE  \E f : Runs(f, code, n)
  <1> DEFINE bad == {m \in Nat : ~ \E f : Runs(f, code, m)}
  <1> SUFFICES ASSUME bad # {} PROVE FALSE
    OBVIOUS
  <1>1. PICK m \in bad : \A y \in bad : m <= y
    <2>1. bad \in SUBSET Nat
      OBVIOUS
    <2> HIDE DEF bad
    <2>2. QED
      BY <2>1, LeastMember
  <1>2. m # 0
    <2>1. Runs([k \in 1 .. 0 |-> Untouched], code, 0)
      BY DEF Runs
    <2>2. QED
      BY <2>1
  <1>3. m - 1 \in Nat /\ m - 1 \notin bad
    BY <1>1, <1>2
  <1>4. PICK f : Runs(f, code, m - 1)
    BY <1>3
  <1> DEFINE last == IF m = 1 THEN Untouched ELSE Executed(code[m - 1], f[m - 1])
             g == [k \in 1 .. m |-> IF k = m THEN last ELSE f[k]]
  <1>5. ASSUME NEW k \in 1 .. m
        PROVE  g[k] = IF k = 1 THEN Untouched ELSE Executed(code[k - 1], g[k - 1])
    <2>1. k # 1 => k - 1 \in 1 .. m /\ k - 1 # m
      BY <1>3
    <2>2. k # 1 => g[k - 1] = f[k - 1]
      BY <2>1
    <2>3. CASE k = m
      BY <2>2, <2>3
    <2>4. CASE k # m
      <3>1. k \in 1 .. m - 1
        BY <2>4, <1>3
      <3>2. f[k] = IF k = 1 THEN Untouched ELSE Executed(code[k - 1], f[k - 1])
        BY <1>4, <3>1 DEF Runs
      <3>3. QED
        BY <2>2, <2>4, <3>2
    <2>5. QED
      BY <2>3, <2>4
  <1>6. Runs(g, code, m)
    <2>1. g = [k \in 1 .. m |-> g[k]]
      OBVIOUS
    <2> HIDE DEF g
    <2>2. QED
      BY <1>5, <2>1 DEF Runs
  <1>7. QED
    BY <1>1, <1>6

LEMMA MemoryRuns ==
  ASSUME NEW code, Len(code) \in Nat
  PROVE  Runs(MemoryBefore(code), code, Len(code))
  <1>1. \E f : Runs(f, code, Len(code))
    BY RunsExist
  <1>2. MemoryBefore(code) = CHOOSE f : Runs(f, code, Len(code))
    BY DEF MemoryBefore, Runs
  <1>3. QED
    BY <1>1, <1>2

LEMMA MemorySteps ==
  ASSUME NEW code, WellFormedText(code)
  PROVE  /\ MemoryBefore(code)[1] = Untouched
         /\ \A k \in DOMAIN code : k + 1 \in DOMAIN code =>
              MemoryBefore(code)[k + 1] = Executed(code[k], MemoryBefore(code)[k])
  <1> DEFINE M == MemoryBefore(code)
  <1>1. Len(code) \in Nat \ {0} /\ DOMAIN code = 1 .. Len(code)
    BY DEF WellFormedText
  <1>2. M = [k \in 1 .. Len(code) |-> IF k = 1 THEN Untouched ELSE Executed(code[k - 1], M[k - 1])]
    BY <1>1, MemoryRuns DEF Runs
  <1> HIDE DEF M
  <1>3. M[1] = Untouched
    BY <1>1, <1>2
  <1>4. ASSUME NEW k \in DOMAIN code, k + 1 \in DOMAIN code
        PROVE  M[k + 1] = Executed(code[k], M[k])
    <2>1. k + 1 # 1 /\ (k + 1) - 1 = k
      BY <1>1
    <2>2. QED
      BY <1>1, <1>2, <1>4, <2>1
  <1>5. QED
    BY <1>3, <1>4 DEF M

(* An instruction leaves the memory of the ranks it does not concern.      *)
LEMMA Unconcerned ==
  ASSUME NEW instr, NEW memories, NEW r \in Ranks, ~ Concerns(instr, r),
         instr.op = "broadcast" => r = rootRank
  PROVE  Executed(instr, memories)[r] = memories[r]
  <1>1. ~ (instr.op = "compute" /\ Concerns(instr, r))
    OBVIOUS
  <1>2. ~ (instr.op = "gather" /\ r = rootRank)
    BY DEF Concerns, InGather
  <1>3. QED
    BY <1>1, <1>2 DEF Executed

LEMMA BroadcastConcerns ==
  ASSUME NEW instr, NEW r \in Ranks, ~ Concerns(instr, r)
  PROVE  instr.op = "broadcast" => r = rootRank
  BY DEF Concerns, InBroadcast

(* ... so its memory is the same at its next instruction as just after the *)
(* last one that concerned it.                                             *)
LEMMA Undisturbed ==
  ASSUME NEW code, WellFormedText(code), NEW r \in Ranks,
         NEW i \in DOMAIN code, NEW k \in DOMAIN code, i <= k,
         \A j \in DOMAIN code : i <= j /\ j < k => ~ Concerns(code[j], r)
  PROVE  MemoryBefore(code)[k][r] = MemoryBefore(code)[i][r]
  <1> DEFINE M == MemoryBefore(code)
             bad == {j \in DOMAIN code : i <= j /\ j <= k /\ M[j][r] # M[i][r]}
  <1>1. Len(code) \in Nat \ {0} /\ DOMAIN code = 1 .. Len(code)
    BY DEF WellFormedText
  <1>2. \A j \in DOMAIN code : j + 1 \in DOMAIN code => M[j + 1] = Executed(code[j], M[j])
    BY MemorySteps
  <1> HIDE DEF M
  <1> SUFFICES ASSUME bad # {} PROVE FALSE
    BY <1>1 DEF M
  <1>3. PICK j \in bad : \A y \in bad : j <= y
    <2>1. bad \in SUBSET Nat
      BY <1>1
    <2> HIDE DEF bad
    <2>2. QED
      BY <2>1, LeastMember
  <1>4. j # i
    OBVIOUS
  <1>5. j - 1 \in DOMAIN code /\ i <= j - 1 /\ j - 1 < k /\ (j - 1) + 1 = j
    BY <1>1, <1>3, <1>4
  <1>6. M[j - 1][r] = M[i][r]
    BY <1>1, <1>3, <1>5
  <1>7. M[j] = Executed(code[j - 1], M[j - 1])
    BY <1>2, <1>3, <1>5
  <1>8. ~ Concerns(code[j - 1], r)
    BY <1>5
  <1>9. M[j][r] = M[j - 1][r]
    BY <1>7, <1>8, Unconcerned, BroadcastConcerns
  <1>10. QED
    BY <1>3, <1>6, <1>9

(* The memory of r at the instruction it moves to.                         *)
LEMMA MovedOn ==
  ASSUME Typed, NEW r \in Ranks, program[ip[r]].op # "return", Advance(r)
  PROVE  /\ ip[r] \in DOMAIN program
         /\ MemoryBefore(program)[ip'[r]][r]
              = Executed(program[ip[r]], MemoryBefore(program)[ip[r]])[r]
         /\ \A q \in Ranks : q # r => ip'[q] = ip[q]
  <1> DEFINE n == NextFor(program, r, ip[r])
  <1>1. /\ n \in DOMAIN program /\ ip[r] < n
        /\ \A j \in DOMAIN program : ip[r] < j /\ Concerns(program[j], r) => n <= j
    BY NextOfRank
  <1>2. ip' = [ip EXCEPT ![r] = n] /\ ip \in [Ranks -> DOMAIN program]
    BY DEF Advance, Typed
  <1>3. WellFormedText(program) /\ Len(program) \in Nat /\ DOMAIN program = 1 .. Len(program)
    BY DEF Typed, WellFormedText
  <1> HIDE DEF n
  <1>4. ip[r] + 1 \in DOMAIN program /\ ip[r] + 1 <= n /\ ip[r] \in DOMAIN program
    BY <1>1, <1>2, <1>3
  <1>5. \A j \in DOMAIN program : ip[r] + 1 <= j /\ j < n => ~ Concerns(program[j], r)
    BY <1>1, <1>2, <1>3
  <1>6. MemoryBefore(program)[n][r] = MemoryBefore(program)[ip[r] + 1][r]
    BY <1>1, <1>3, <1>4, <1>5, Undisturbed
  <1>7. MemoryBefore(program)[ip[r] + 1] = Executed(program[ip[r]], MemoryBefore(program)[ip[r]])
    BY <1>3, <1>4, MemorySteps
  <1>8. QED
    BY <1>2, <1>4, <1>6, <1>7

-----------------------------------------------------------------------------
(* What a message carries is what its sender has in lockstep.              *)
MessagesInStep ==
  \A s, d \in Ranks : \A i \in 1 .. Len(channel[s][d]) :
    channel[s][d][i].data =
      Contents(MemoryBefore(program)[channel[s][d][i].place][s], channel[s][d][i].slab)

AllInStep == InStep /\ MessagesInStep

(* A move of r that leaves all memories as they are: past a barrier, or    *)
(* past a send.                                                            *)
LEMMA MovesInStep ==
  ASSUME Typed, InStep, NEW r \in Ranks, Advance(r), UNCHANGED <<program, copy>>,
         program[ip[r]].op = "barrier" \/ Sends(r)
  PROVE  InStep'
  <1>1. /\ MemoryBefore(program)[ip'[r]][r]
             = Executed(program[ip[r]], MemoryBefore(program)[ip[r]])[r]
        /\ \A q \in Ranks : q # r => ip'[q] = ip[q]
    BY MovedOn DEF Sends
  <1>2. Executed(program[ip[r]], MemoryBefore(program)[ip[r]])[r] = MemoryBefore(program)[ip[r]][r]
    BY DEF Executed, Sends
  <1>3. QED
    BY <1>1, <1>2 DEF InStep

LEMMA ComputeInStep ==
  ASSUME IInv, AllInStep, NEW r \in Ranks, Compute(r)
  PROVE  AllInStep'
  <1>1. /\ program[ip[r]].op = "compute" /\ Advance(r)
        /\ copy' = [copy EXCEPT ![r] = Computed(program[ip[r]], copy[r])]
        /\ UNCHANGED <<program, channel>>
    BY DEF Compute, Running, instruction
  <1>2. Typed /\ Standing /\ copy \in [Ranks -> [AllCells -> Versions]]
    BY DEF IInv, Typed
  <1>3. /\ MemoryBefore(program)[ip'[r]][r]
             = Executed(program[ip[r]], MemoryBefore(program)[ip[r]])[r]
        /\ \A q \in Ranks : q # r => ip'[q] = ip[q]
    BY <1>1, <1>2, MovedOn
  <1>4. Executed(program[ip[r]], MemoryBefore(program)[ip[r]])[r]
          = Computed(program[ip[r]], MemoryBefore(program)[ip[r]][r])
    BY <1>1, <1>2 DEF Executed, Standing
  <1>5. copy[r] = MemoryBefore(program)[ip[r]][r]
    BY DEF AllInStep, InStep
  <1>6. copy'[r] = Computed(program[ip[r]], copy[r]) /\ \A q \in Ranks : q # r => copy'[q] = copy[q]
    BY <1>1, <1>2
  <1>7. InStep'
    BY <1>1, <1>3, <1>4, <1>5, <1>6 DEF AllInStep, InStep
  <1>8. MessagesInStep'
    BY <1>1 DEF AllInStep, MessagesInStep
  <1>9. QED
    BY <1>7, <1>8 DEF AllInStep

(* A message put into a channel carries the sender's memory of that moment. *)
LEMMA PutInStep ==
  ASSUME IInv, AllInStep, NEW r \in Ranks, IsSender(r), Put(r), UNCHANGED program
  PROVE  MessagesInStep'
  <1> DEFINE m == Message(r, program[ip[r]].slab)
             d0 == SendTo(r)
  <1>1. Typed /\ Standing /\ Busy /\ NotAhead /\ InStep /\ MessagesInStep
    BY DEF IInv, AllInStep
  <1>2. d0 \in Ranks
    BY <1>1, SenderStands
  <1>3. channel \in [Ranks -> [Ranks -> Seq(Messages)]] /\ channel[r][d0] \in Seq(Messages)
    BY <1>1, <1>2 DEF Typed
  <1>4. /\ m.place = ip[r] /\ m.slab = program[ip[r]].slab
        /\ m.data = Contents(MemoryBefore(program)[m.place][r], m.slab)
    <2>1. copy[r] = MemoryBefore(program)[ip[r]][r]
      BY <1>1 DEF InStep
    <2>2. QED
      BY <2>1 DEF Message
  <1>5. channel' = [channel EXCEPT ![r][d0] = Append(@, m)]
    BY DEF Put, instruction
  <1> HIDE DEF m, d0
  <1>6. /\ channel'[r][d0] = Append(channel[r][d0], m)
        /\ \A s, d \in Ranks : s # r \/ d # d0 => channel'[s][d] = channel[s][d]
    BY <1>2, <1>3, <1>5
  <1>7. ASSUME NEW s \in Ranks, NEW d \in Ranks, NEW i \in 1 .. Len(channel'[s][d])
        PROVE  channel'[s][d][i].data
                 = Contents(MemoryBefore(program)[channel'[s][d][i].place][s], channel'[s][d][i].slab)
    <2>1. CASE s = r /\ d = d0
      <3>1. CASE i \in 1 .. Len(channel[r][d0])
        <4>1. channel'[s][d][i] = channel[s][d][i]
          <5> DEFINE old == channel[r][d0]
          <5>1. old \in Seq(Messages) /\ channel'[s][d] = Append(old, m)
            BY <1>3, <1>6, <2>1
          <5>2. i \in 1 .. Len(old) /\ channel[s][d] = old
            BY <2>1, <3>1
          <5> HIDE DEF old
          <5>3. Append(old, m)[i] = old[i]
            BY <5>1, <5>2
          <5>4. QED
            BY <5>1, <5>2, <5>3
        <4>2. QED
          BY <1>1, <2>1, <3>1, <4>1 DEF MessagesInStep
      <3>2. CASE i \notin 1 .. Len(channel[r][d0])
        <4>1. channel'[s][d][i] = m
          <5> DEFINE old == channel[r][d0]
          <5>1. old \in Seq(Messages) /\ channel'[s][d] = Append(old, m)
            BY <1>3, <1>6, <2>1
          <5> HIDE DEF old
          <5>2. i = Len(old) + 1
            BY <1>7, <3>2, <5>1 DEF old
          <5>3. QED
            BY <5>1, <5>2
        <4>2. QED
          BY <1>4, <2>1, <4>1
      <3>3. QED
        BY <3>1, <3>2
    <2>2. CASE s # r \/ d # d0
      <3>1. channel'[s][d] = channel[s][d]
        BY <1>6, <2>2
      <3>2. QED
        BY <1>1, <1>7, <3>1 DEF MessagesInStep
    <2>3. QED
      BY <2>1, <2>2
  <1>8. QED
    BY <1>7 DEF MessagesInStep

(* After a send the sender stays, or moves on with its memory as it was.   *)
LEMMA AfterSendInStep ==
  ASSUME Typed, InStep, NEW r \in Ranks, Sends(r), AfterSend(r), UNCHANGED <<program, copy>>
  PROVE  InStep'
  <1>1. CASE UNCHANGED ip
    BY <1>1 DEF InStep
  <1>2. CASE Advance(r)
    BY <1>2, MovesInStep
  <1>3. QED
    BY <1>1, <1>2 DEF AfterSend

LEMMA ReceiveInStep ==
  ASSUME IInv, AllInStep, NEW r \in Ranks, Receive(r)
  PROVE  AllInStep'
  <1> DEFINE s0 == Source(r)
             slab == program[ip[r]].slab
             msg == Head(channel[s0][r])
             M == MemoryBefore(program)
  <1>1. /\ IsReceiver(r) /\ channel[s0][r] # <<>> /\ Advance(r)
        /\ copy' = [copy EXCEPT ![r] = Stored(copy[r], slab, msg.data)]
        /\ channel' = [channel EXCEPT ![s0][r] = Tail(@)]
        /\ UNCHANGED program
    BY DEF Receive, instruction
  <1>2. Typed /\ InOrder /\ InStep /\ MessagesInStep
    BY DEF IInv, AllInStep
  <1>3. /\ ip[r] \in DOMAIN program
        /\ channel \in [Ranks -> [Ranks -> Seq(Messages)]]
        /\ copy \in [Ranks -> [AllCells -> Versions]]
    BY <1>2 DEF Typed
  <1>4. /\ s0 \in Ranks /\ Carries(ip[r], s0, r) /\ program[ip[r]].op # "return"
        /\ Executed(program[ip[r]], M[ip[r]])[r]
             = Stored(M[ip[r]][r], slab, Contents(M[ip[r]][s0], slab))
    <2>1. CASE program[ip[r]].op = "gather" /\ r = rootRank
      <3>1. program[ip[r]].owner \in Ranks /\ s0 = NodeToRank[program[ip[r]].owner]
        BY <1>2, <1>3, <2>1 DEF Typed, WellFormedText, Source, instruction
      <3>2. QED
        BY <2>1, <3>1, NodeToRankAssumption DEF Carries, Executed
    <2>2. CASE program[ip[r]].op = "broadcast" /\ r # rootRank
      <3>1. s0 = rootRank
        BY <2>2 DEF Source
      <3>2. QED
        BY <2>2, <3>1, RootIsARank DEF Carries, Destinations, Executed
    <2>3. QED
      BY <1>1, <2>1, <2>2 DEF IsReceiver, Running, instruction
  <1>5. msg.place = ip[r] /\ msg.slab = slab
    BY <1>1, <1>2, <1>4, HeadIsDue
  <1>6. channel[s0][r] \in Seq(Messages) /\ Len(channel[s0][r]) \in Nat \ {0}
        /\ msg = channel[s0][r][1]
    BY <1>1, <1>3, <1>4
  <1>7. msg.data = Contents(M[ip[r]][s0], slab)
    <2>1. 1 \in 1 .. Len(channel[s0][r])
      BY <1>6
    <2> HIDE DEF M, slab, s0, msg
    <2>2. msg.data = Contents(M[msg.place][s0], msg.slab)
      BY <1>2, <1>4, <1>6, <2>1 DEF MessagesInStep, M
    <2>3. QED
      BY <1>5, <2>2
  <1>8. /\ M[ip'[r]][r] = Executed(program[ip[r]], M[ip[r]])[r]
        /\ \A q \in Ranks : q # r => ip'[q] = ip[q]
    BY <1>1, <1>2, <1>4, MovedOn
  <1>9. InStep'
    <2>1. copy[r] = M[ip[r]][r]
      BY <1>2 DEF InStep
    <2>2. copy'[r] = M[ip'[r]][r]
      BY <1>1, <1>3, <1>4, <1>7, <1>8, <2>1
    <2>3. \A q \in Ranks : q # r => copy'[q] = copy[q]
      BY <1>1, <1>3
    <2>4. QED
      BY <1>1, <1>2, <1>8, <2>2, <2>3 DEF InStep
  <1> HIDE DEF s0, M, slab, msg
  <1>10. MessagesInStep'
    <2>1. /\ channel'[s0][r] = Tail(channel[s0][r])
          /\ \A s, d \in Ranks : s # s0 \/ d # r => channel'[s][d] = channel[s][d]
      BY <1>1, <1>3, <1>4
    <2>2. ASSUME NEW s \in Ranks, NEW d \in Ranks, NEW i \in 1 .. Len(channel'[s][d])
          PROVE  \E j \in 1 .. Len(channel[s][d]) : channel'[s][d][i] = channel[s][d][j]
      <3>1. CASE s = s0 /\ d = r
        <4> DEFINE old == channel[s][d]
        <4>1. old \in Seq(Messages) /\ old # <<>> /\ channel'[s][d] = Tail(old)
          BY <1>1, <1>6, <2>1, <3>1
        <4> HIDE DEF old
        <4>2. Len(old) \in Nat /\ Len(Tail(old)) = Len(old) - 1
          BY <4>1
        <4>3. i \in 1 .. Len(Tail(old))
          BY <2>2, <4>1
        <4>4. i + 1 \in 1 .. Len(old) /\ Tail(old)[i] = old[i + 1]
          BY <4>1, <4>2, <4>3
        <4>5. QED
          BY <4>1, <4>4 DEF old
      <3>2. CASE s # s0 \/ d # r
        BY <2>1, <2>2, <3>2
      <3>3. QED
        BY <3>1, <3>2
    <2>3. QED
      BY <1>1, <1>2, <2>2 DEF MessagesInStep
  <1>11. QED
    BY <1>9, <1>10 DEF AllInStep

LEMMA OtherStepsInStep ==
  ASSUME IInv, AllInStep, NEW r \in Ranks,
         EnterBarrier(r) \/ LeaveBarrier(r) \/ SendBuffered(r) \/ SendBlocking(r) \/ SendTaken(r)
  PROVE  AllInStep'
  <1>1. Typed /\ Standing /\ Busy /\ NotAhead /\ InStep /\ MessagesInStep
    BY DEF IInv, AllInStep
  <1>2. CASE EnterBarrier(r)
    BY <1>1, <1>2 DEF EnterBarrier, AllInStep, InStep, MessagesInStep
  <1>3. CASE LeaveBarrier(r)
    <2>1. program[ip[r]].op = "barrier" /\ Advance(r) /\ UNCHANGED <<program, copy, channel>>
      BY <1>1, <1>3 DEF LeaveBarrier, Busy
    <2>2. InStep'
      BY <1>1, <2>1, MovesInStep
    <2>3. QED
      BY <1>1, <2>1, <2>2 DEF AllInStep, MessagesInStep
  <1>4. CASE SendBuffered(r)
    <2>1. IsSender(r) /\ Put(r) /\ AfterSend(r) /\ UNCHANGED <<program, copy>>
      BY <1>4 DEF SendBuffered
    <2>2. Sends(r)
      BY <1>1, <2>1, SenderStands
    <2>3. InStep'
      BY <1>1, <2>1, <2>2, AfterSendInStep
    <2>4. QED
      BY <2>1, <2>3, PutInStep DEF AllInStep
  <1>5. CASE SendBlocking(r)
    <2>1. IsSender(r) /\ Put(r) /\ UNCHANGED <<program, ip, copy>>
      BY <1>5 DEF SendBlocking
    <2>2. QED
      BY <1>1, <2>1, PutInStep DEF AllInStep, InStep
  <1>6. CASE SendTaken(r)
    <2>1. AfterSend(r) /\ UNCHANGED <<program, copy, channel>> /\ Sends(r)
      BY <1>1, <1>6 DEF SendTaken, Busy, Sends
    <2>2. InStep'
      BY <1>1, <2>1, AfterSendInStep
    <2>3. QED
      BY <1>1, <2>1, <2>2 DEF AllInStep, MessagesInStep
  <1>7. QED
    BY <1>2, <1>3, <1>4, <1>5, <1>6

LEMMA InitInStep == Init => AllInStep
  <1> SUFFICES ASSUME Init PROVE AllInStep
    OBVIOUS
  <1>1. WellFormedText(program) /\ Len(program) \in Nat \ {0} /\ DOMAIN program = 1 .. Len(program)
    BY ProgramsAssumption DEF Init, WellFormedText
  <1>2. ASSUME NEW r \in Ranks PROVE copy[r] = MemoryBefore(program)[ip[r]][r]
    <2>1. ip[r] = NextFor(program, r, 0) /\ 0 \in 0 .. Len(program) - 1
      BY <1>1, <1>2 DEF Init
    <2>2. /\ ip[r] \in DOMAIN program
          /\ \A j \in DOMAIN program : 0 < j /\ Concerns(program[j], r) => ip[r] <= j
      BY <1>1, <2>1, NextConcerns
    <2>3. 1 \in DOMAIN program /\ 1 <= ip[r]
      BY <1>1, <2>2
    <2>4. \A j \in DOMAIN program : 1 <= j /\ j < ip[r] => ~ Concerns(program[j], r)
      BY <1>1, <2>2
    <2>5. MemoryBefore(program)[ip[r]][r] = MemoryBefore(program)[1][r]
      BY <1>1, <2>2, <2>3, <2>4, Undisturbed
    <2>6. QED
      BY <1>1, <2>5, MemorySteps DEF Init
  <1>3. MessagesInStep
    BY DEF Init, MessagesInStep
  <1>4. QED
    BY <1>2, <1>3 DEF AllInStep, InStep

(* Whatever the interleaving and however MPI buffers, each rank reaches    *)
(* each instruction with the memory of the lockstep run.                   *)
LockstepInvariant == IInv /\ AllInStep /\ program \in Programs

LEMMA StepInStep == LockstepInvariant /\ [Next]_vars => LockstepInvariant'
  <1> SUFFICES ASSUME LockstepInvariant, [Next]_vars PROVE LockstepInvariant'
    OBVIOUS
  <1>1. IInv'
    BY StepKeeps DEF LockstepInvariant
  <1>2. UNCHANGED program
    BY DEF Next, RankStep, Finished, vars, Compute, EnterBarrier, LeaveBarrier, SendBuffered,
           SendBlocking, SendTaken, Receive
  <1>3. AllInStep'
    <2>1. CASE UNCHANGED vars
      BY <2>1 DEF vars, LockstepInvariant, AllInStep, InStep, MessagesInStep
    <2>2. CASE \E r \in Ranks : RankStep(r)
      BY <2>2, ComputeInStep, ReceiveInStep, OtherStepsInStep DEF LockstepInvariant, RankStep
    <2>3. QED
      BY <2>1, <2>2 DEF Next, Finished
  <1>4. QED
    BY <1>1, <1>2, <1>3 DEF LockstepInvariant

(* For every text, any number of ranks, any rank table and any mix of      *)
(* buffered and blocking sends: what a rank finds in its memory when it    *)
(* reaches an instruction does not depend on how the ranks were scheduled  *)
(* (dhirtompi.h:584-856).                                                  *)
THEOREM InterleavingDoesNotMatter == Spec => []InStep
  <1>1. Init => LockstepInvariant
    BY InitKeeps, InitInStep DEF Init, LockstepInvariant
  <1>2. LockstepInvariant => InStep
    BY DEF LockstepInvariant, AllInStep
  <1>3. QED
    BY <1>1, <1>2, StepInStep, PTL DEF Spec

-----------------------------------------------------------------------------
(* Three judgements on texts that need no interleaving.                    *)
ReadsFreshInLockstep ==
  \A code \in Programs : \A k \in DOMAIN code : \A r \in Ranks :
    code[k].op = "compute" /\ Concerns(code[k], r) =>
      \A e \in code[k].effect : Fresh(MemoryBefore(code)[k][r], e.needs)

ResultInLockstep ==
  \A code \in Programs : \A k \in DOMAIN code :
    code[k].op = "return" => Fresh(MemoryBefore(code)[k][rootRank], code[k].result)

RootGainsInLockstep ==
  \A code \in Programs : \A k \in DOMAIN code : k + 1 \in DOMAIN code =>
    \A c \in AllCells :
      MemoryBefore(code)[k + 1][rootRank][c] >= MemoryBefore(code)[k][rootRank][c]

LEMMA LockstepAlways == Spec => []LockstepInvariant
  <1>1. Init => LockstepInvariant
    BY InitKeeps, InitInStep DEF Init, LockstepInvariant
  <1>2. QED
    BY <1>1, StepInStep, PTL DEF Spec

(* If all tasks read fresh memory in lockstep, they do so on concurrent    *)
(* ranks.                                                                  *)
THEOREM ReadsStayFresh ==
  ASSUME ReadsFreshInLockstep
  PROVE  Spec => []ReadsAreFresh
  <1>1. LockstepInvariant => ReadsAreFresh
    <2> SUFFICES ASSUME LockstepInvariant, NEW r \in Ranks, program[ip[r]].op = "compute",
                        NEW e \in program[ip[r]].effect
                 PROVE  Fresh(copy[r], e.needs)
      BY DEF ReadsAreFresh, Running, instruction
    <2>1. ip[r] \in DOMAIN program /\ Concerns(program[ip[r]], r) /\ program \in Programs
      BY DEF LockstepInvariant, IInv, Typed, Standing
    <2>2. copy[r] = MemoryBefore(program)[ip[r]][r]
      BY DEF LockstepInvariant, AllInStep, InStep
    <2>3. QED
      BY <2>1, <2>2 DEF ReadsFreshInLockstep
  <1>2. QED
    BY <1>1, LockstepAlways, PTL

(* If the lockstep run ends with the result at the root, so does every run *)
(* of the concurrent program.                                              *)
THEOREM ResultReachesRoot ==
  ASSUME ResultInLockstep
  PROVE  Spec => []RootHoldsResult
  <1>1. LockstepInvariant => RootHoldsResult
    <2> SUFFICES ASSUME LockstepInvariant, program[ip[rootRank]].op = "return"
                 PROVE  Fresh(copy[rootRank], program[ip[rootRank]].result)
      BY DEF RootHoldsResult, Returned, Running, instruction
    <2>1. ip[rootRank] \in DOMAIN program /\ program \in Programs
      BY RootIsARank DEF LockstepInvariant, IInv, Typed
    <2>2. copy[rootRank] = MemoryBefore(program)[ip[rootRank]][rootRank]
      BY RootIsARank DEF LockstepInvariant, AllInStep, InStep
    <2>3. QED
      BY <2>1, <2>2 DEF ResultInLockstep
  <1>2. QED
    BY <1>1, LockstepAlways, PTL

(* If no instruction takes the root back, no step of the concurrent        *)
(* program does.                                                           *)
THEOREM RootOnlyGains ==
  ASSUME RootGainsInLockstep
  PROVE  Spec => RootMovesForward
  <1>1. LockstepInvariant /\ LockstepInvariant' /\ [Next]_vars =>
          [\A c \in AllCells : copy'[rootRank][c] >= copy[rootRank][c]]_copy
    <2> SUFFICES ASSUME LockstepInvariant, LockstepInvariant', Next, copy' # copy,
                        NEW c \in AllCells
                 PROVE  copy'[rootRank][c] >= copy[rootRank][c]
      BY DEF vars
    <2> DEFINE M == MemoryBefore(program)
    <2>1. PICK r \in Ranks : RankStep(r)
      BY DEF Next, Finished, vars
    <2>2. IInv /\ Typed /\ program \in Programs
      BY DEF LockstepInvariant, IInv
    <2>3. /\ UNCHANGED program
          /\ UNCHANGED ip \/ (Advance(r) /\ program[ip[r]].op # "return")
      BY <2>1, <2>2, RankMoves
    <2>4. copy[rootRank] = M[ip[rootRank]][rootRank] /\ copy'[rootRank] = M[ip'[rootRank]][rootRank]
      <3>1. InStep /\ InStep'
        BY DEF LockstepInvariant, AllInStep
      <3>2. QED
        BY <2>3, <3>1, RootIsARank DEF InStep
    <2>5. copy[rootRank][c] \in Int
      BY <2>2, RootIsARank DEF Typed, Versions
    <2>6. CASE ip'[rootRank] = ip[rootRank]
      BY <2>4, <2>5, <2>6
    <2>7. CASE ip'[rootRank] # ip[rootRank]
      <3>1. Advance(r) /\ program[ip[r]].op # "return"
        BY <2>3, <2>7
      <3>2. r = rootRank
        BY <2>2, <2>7, <3>1, MovedOn, RootIsARank
      <3>3. /\ ip[r] \in DOMAIN program
            /\ M[ip'[r]][r] = Executed(program[ip[r]], M[ip[r]])[r]
        BY <2>2, <3>1, MovedOn
      <3>4. ip[r] + 1 \in DOMAIN program
        BY <2>2, <3>1, <3>3 DEF Typed, WellFormedText
      <3>5. M[ip[r] + 1] = Executed(program[ip[r]], M[ip[r]])
        BY <2>2, <3>3, <3>4, MemorySteps DEF Typed
      <3>6. M[ip[r] + 1][rootRank][c] >= M[ip[r]][rootRank][c]
        BY <2>2, <3>3, <3>4 DEF RootGainsInLockstep
      <3>7. QED
        BY <2>4, <3>2, <3>3, <3>5, <3>6
    <2>8. QED
      BY <2>6, <2>7
  <1>2. QED
    BY <1>1, LockstepAlways, PTL DEF Spec, RootMovesForward

-----------------------------------------------------------------------------
(* The judgements are those a run of Lockstep makes: its memory is the one *)
(* they speak of, at every position of every text.                         *)
LockstepMemory ==
  /\ text \in Programs
  /\ position \in DOMAIN text
  /\ memory = MemoryBefore(text)[position]

THEOREM LockstepComputesMemory == LockstepSpec => []LockstepMemory
  <1>1. LockstepInit => LockstepMemory
    <2> SUFFICES ASSUME LockstepInit PROVE LockstepMemory
      OBVIOUS
    <2>1. WellFormedText(text)
      BY ProgramsAssumption DEF LockstepInit
    <2>2. 1 \in DOMAIN text
      BY <2>1 DEF WellFormedText
    <2>3. QED
      BY <2>1, <2>2, MemorySteps DEF LockstepInit, LockstepMemory
  <1>2. LockstepMemory /\ [LockstepNext]_lockstepVars => LockstepMemory'
    <2> SUFFICES ASSUME LockstepMemory, [LockstepNext]_lockstepVars PROVE LockstepMemory'
      OBVIOUS
    <2>1. CASE Take
      <3>1. WellFormedText(text) /\ Len(text) \in Nat /\ DOMAIN text = 1 .. Len(text)
        BY ProgramsAssumption DEF LockstepMemory, WellFormedText
      <3>2. position \in DOMAIN text /\ position + 1 \in DOMAIN text
        BY <2>1, <3>1 DEF LockstepMemory, Take
      <3>3. MemoryBefore(text)[position + 1] = Executed(text[position], MemoryBefore(text)[position])
        BY <3>1, <3>2, MemorySteps
      <3>4. QED
        BY <2>1, <3>2, <3>3 DEF LockstepMemory, Take
    <2>2. CASE UNCHANGED lockstepVars
      BY <2>2 DEF lockstepVars, LockstepMemory
    <2>3. QED
      BY <2>1, <2>2 DEF LockstepNext, AtEnd
  <1>3. QED
    BY <1>1, <1>2, PTL DEF LockstepSpec

-----------------------------------------------------------------------------
(* What a text must see to for its ranks to agree with the sequential      *)
(* program.  A cell was last written by the computation at p, and is now   *)
(* of that version; a rank has it if it ran that computation or a transfer *)
(* has brought the cell to it since.                                       *)
SlabCells(slab) == {slab.mem} \X (slab.lo .. slab.lo + slab.len - 1) \X Parts

Writer(code, p, c) == code[p].op = "compute" /\ c \in Written(code[p])

IsLast(code, c, q, p) ==
  /\ p \in 1 .. q - 1 /\ Writer(code, p, c)
  /\ \A k \in p + 1 .. q - 1 : ~ Writer(code, k, c)

Now(code, q, c, version) ==
  \/ \E p \in 1 .. q - 1 : IsLast(code, c, q, p) /\ version = code[p].version
  \/ (\A p \in 1 .. q - 1 : ~ Writer(code, p, c)) /\ version = 0

Brings(instr, r, c) ==
  \/ instr.op = "gather" /\ r = rootRank /\ c \in SlabCells(instr.slab)
  \/ instr.op = "broadcast" /\ r # rootRank /\ c \in SlabCells(instr.slab)

Has(code, r, c, q) ==
  \A p \in 1 .. q - 1 : IsLast(code, c, q, p) =>
    Concerns(code[p], r) \/ \E k \in p + 1 .. q - 1 : Brings(code[k], r, c)

(* Rank r has the cell of the dated read, and that cell is of that date.   *)
Serves(code, r, q, d) ==
  d.cell \in AllCells /\ Has(code, r, d.cell, q) /\ Now(code, q, d.cell, d.version)

Supplied(code, q) ==
  /\ code[q].op = "compute" =>
       /\ \A r \in Ranks : Concerns(code[q], r) =>
            \A e \in code[q].effect : \A d \in e.needs : Serves(code, r, q, d)
       /\ \A c \in Written(code[q]) : \A v : Now(code, q, c, v) => v < code[q].version
  /\ code[q].op = "gather" =>
       \A c \in SlabCells(code[q].slab) : Has(code, NodeToRank[code[q].owner], c, q)
  /\ code[q].op = "broadcast" =>
       \A c \in SlabCells(code[q].slab) : Has(code, rootRank, c, q)
  /\ code[q].op = "return" =>
       \A d \in code[q].result : Serves(code, rootRank, q, d)

(* A rank that has a cell holds its present version, and nobody holds a    *)
(* later one.                                                              *)
UpToDate(code, q) ==
  \A r \in Ranks, c \in AllCells : \A v : Now(code, q, c, v) =>
    /\ v \in Int /\ MemoryBefore(code)[q][r][c] \in Int
    /\ MemoryBefore(code)[q][r][c] <= v
    /\ Has(code, r, c, q) => MemoryBefore(code)[q][r][c] = v

LEMMA SomeVersion ==
  ASSUME NEW code, NEW q \in Nat, NEW c
  PROVE  \E v : Now(code, q, c, v)
  <1> DEFINE S == {p \in 1 .. q - 1 : Writer(code, p, c)}
  <1>1. CASE S = {}
    BY <1>1 DEF Now
  <1>2. CASE S # {}
    <2> DEFINE D == {k \in Nat : \E p \in S : k = q - p}
    <2>1. D \in SUBSET Nat /\ D # {}
      <3>1. PICK p \in S : p \in 1 .. q - 1
        BY <1>2
      <3>2. q - p \in D
        BY <3>1
      <3>3. QED
        BY <3>2
    <2>2. PICK k \in D : \A y \in D : k <= y
      <3> HIDE DEF D
      <3>1. QED
        BY <2>1, LeastMember
    <2>3. PICK p \in S : k = q - p
      BY <2>2
    <2>4. ASSUME NEW i \in p + 1 .. q - 1, Writer(code, i, c) PROVE FALSE
      <3>1. i \in S /\ q - i \in Nat
        BY <2>3, <2>4
      <3>2. q - i \in D
        BY <3>1
      <3>3. QED
        BY <2>2, <2>3, <3>2
    <2>5. IsLast(code, c, q, p)
      BY <2>3, <2>4 DEF IsLast
    <2>6. QED
      BY <2>5 DEF Now
  <1>3. QED
    BY <1>1, <1>2

(* What an instruction changes of the versions, and of who has them.       *)
LEMMA VersionsMove ==
  ASSUME NEW code, NEW q \in Nat \ {0}, NEW c, NEW r, NEW v, Now(code, q + 1, c, v)
  PROVE  IF Writer(code, q, c)
           THEN /\ v = code[q].version
                /\ Has(code, r, c, q + 1) => Concerns(code[q], r)
           ELSE /\ Now(code, q, c, v)
                /\ Has(code, r, c, q + 1) => Has(code, r, c, q) \/ Brings(code[q], r, c)
  <1>1. (q + 1) - 1 = q /\ 1 .. q = (1 .. q - 1) \cup {q}
    OBVIOUS
  <1>2. CASE Writer(code, q, c)
    <2>1. ASSUME NEW p \in 1 .. q, IsLast(code, c, q + 1, p) PROVE p = q
      <3>1. \A k \in p + 1 .. q : ~ Writer(code, k, c)
        BY <1>1, <2>1 DEF IsLast
      <3>2. q \notin p + 1 .. q
        BY <1>2, <3>1
      <3>3. QED
        BY <3>2
    <2>2. ~ (\A p \in 1 .. q : ~ Writer(code, p, c))
      BY <1>2
    <2>3. PICK p \in 1 .. q : IsLast(code, c, q + 1, p) /\ v = code[p].version
      BY <1>1, <2>2 DEF Now
    <2>4. p = q
      BY <2>1, <2>3
    <2>5. q + 1 .. (q + 1) - 1 = {}
      OBVIOUS
    <2>6. Has(code, r, c, q + 1) => Concerns(code[q], r)
      BY <1>1, <2>3, <2>4, <2>5 DEF Has
    <2>7. QED
      BY <1>2, <2>3, <2>4, <2>6
  <1>3. CASE ~ Writer(code, q, c)
    <2>1. ASSUME NEW p \in 1 .. q - 1
          PROVE  IsLast(code, c, q + 1, p) <=> IsLast(code, c, q, p)
      <3>1. p + 1 .. q = (p + 1 .. q - 1) \cup {q}
        OBVIOUS
      <3>2. QED
        BY <1>1, <1>3, <3>1 DEF IsLast
    <2>2. ~ IsLast(code, c, q + 1, q)
      BY <1>3 DEF IsLast
    <2>3. Now(code, q, c, v)
      BY <1>1, <1>3, <2>1, <2>2 DEF Now
    <2>4. ASSUME Has(code, r, c, q + 1), ~ Brings(code[q], r, c) PROVE Has(code, r, c, q)
      <3>1. SUFFICES ASSUME NEW p \in 1 .. q - 1, IsLast(code, c, q, p), ~ Concerns(code[p], r)
                     PROVE  \E k \in p + 1 .. q - 1 : Brings(code[k], r, c)
        BY DEF Has
      <3>2. IsLast(code, c, q + 1, p) /\ p \in 1 .. q
        BY <2>1, <3>1
      <3>3. PICK k \in p + 1 .. q : Brings(code[k], r, c)
        BY <1>1, <2>4, <3>1, <3>2 DEF Has
      <3>4. k # q
        BY <2>4, <3>3
      <3>5. QED
        BY <3>3, <3>4
    <2>5. QED
      BY <1>3, <2>3, <2>4
  <1>4. QED
    BY <1>2, <1>3

(* What a transfer leaves at its receiver.                                 *)
LEMMA Arrives ==
  ASSUME NEW from, NEW to, NEW slab, slab.lo \in Int, slab.len \in Nat, NEW c \in AllCells
  PROVE  Stored(to, slab, Contents(from, slab))[c] =
           IF c \in SlabCells(slab) THEN from[c] ELSE to[c]
  <1>1. PICK lo \in Int, len \in Nat : lo = slab.lo /\ len = slab.len
    OBVIOUS
  <1>2. PICK data : data = Contents(from, slab)
    OBVIOUS
  <1>3. Len(data) = len /\ \A k \in 1 .. len : \A part \in Parts : data[k][part] =
          IF CellAt(slab, k, part) \in AllCells THEN from[CellAt(slab, k, part)] ELSE Garbage
    BY <1>1, <1>2 DEF Contents
  <1>4. CASE c \in SlabCells(slab)
    <2>1. PICK i \in lo .. lo + len - 1, part \in Parts : c = <<slab.mem, i, part>>
      BY <1>1, <1>4 DEF SlabCells
    <2>2. PICK k \in 1 .. len : k = i - lo + 1
      OBVIOUS
    <2>3. CellAt(slab, k, part) = c /\ c[2] - slab.lo + 1 = k /\ c[3] = part
      BY <1>1, <2>1, <2>2 DEF CellAt
    <2>4. data[k][part] = from[c]
      BY <1>3, <2>3
    <2>5. \E j \in 1 .. slab.len : j <= Len(data) /\ CellAt(slab, j, c[3]) = c
      BY <1>1, <1>3, <2>3
    <2>6. Stored(to, slab, data)[c] = data[k][part]
      BY <2>3, <2>5 DEF Stored
    <2>7. QED
      BY <1>2, <1>4, <2>4, <2>6
  <1>5. CASE c \notin SlabCells(slab)
    <2>1. ASSUME NEW k \in 1 .. len, CellAt(slab, k, c[3]) = c PROVE FALSE
      <3>1. c = <<slab.mem, lo + k - 1, c[3]>> /\ lo + k - 1 \in lo .. lo + len - 1
        BY <1>1, <2>1 DEF CellAt
      <3>2. c[3] \in Parts
        BY DEF Parts
      <3>3. QED
        BY <1>1, <1>5, <3>1, <3>2 DEF SlabCells
    <2>2. ~ \E k \in 1 .. slab.len : k <= Len(data) /\ CellAt(slab, k, c[3]) = c
      BY <1>1, <2>1
    <2>3. QED
      BY <1>2, <1>5, <2>2 DEF Stored
  <1>6. QED
    BY <1>4, <1>5

(* A step of a text that is supplied.                                      *)
LEMMA WriterStep ==
  ASSUME NEW code, WellFormedText(code), NEW q \in DOMAIN code,
         Supplied(code, q), UpToDate(code, q),
         NEW r \in Ranks, NEW c \in AllCells, Writer(code, q, c)
  PROVE  /\ code[q].version \in Int
         /\ Executed(code[q], MemoryBefore(code)[q])[r][c] =
              IF Concerns(code[q], r) THEN code[q].version ELSE MemoryBefore(code)[q][r][c]
         /\ MemoryBefore(code)[q][r][c] \in Int
         /\ MemoryBefore(code)[q][r][c] < code[q].version
  <1>1. PICK M : M = MemoryBefore(code)[q]
    OBVIOUS
  <1>2. code[q].op = "compute" /\ c \in Written(code[q]) /\ code[q].version \in Int /\ q \in Nat
    BY DEF Writer, WellFormedText
  <1>3. PICK v : Now(code, q, c, v)
    BY <1>2, SomeVersion
  <1>4. v \in Int /\ M[r][c] \in Int /\ M[r][c] <= v /\ v < code[q].version
    BY <1>1, <1>2, <1>3 DEF UpToDate, Supplied
  <1>5. CASE Concerns(code[q], r)
    <2>1. ASSUME NEW e \in code[q].effect, NEW d \in e.needs PROVE M[r][d.cell] = d.version
      <3>1. Serves(code, r, q, d)
        BY <1>2, <1>5 DEF Supplied
      <3>2. QED
        BY <1>1, <3>1 DEF Serves, UpToDate
    <2>2. Computed(code[q], M[r])[c] = code[q].version
      <3>1. PICK instr : instr = code[q]
        OBVIOUS
      <3> DEFINE needed(b) == UNION {e.needs : e \in {f \in instr.effect : f.cell = b}}
      <3>2. Fresh(M[r], needed(c))
        <4>1. SUFFICES ASSUME NEW d \in needed(c) PROVE M[r][d.cell] = d.version
          BY DEF Fresh
        <4>2. PICK e \in instr.effect : d \in e.needs
          OBVIOUS
        <4>3. QED
          BY <2>1, <3>1, <4>2
      <3>3. c \in {e.cell : e \in instr.effect}
        BY <1>2, <3>1 DEF Written
      <3> HIDE DEF needed
      <3>4. Computed(instr, M[r]) = [b \in AllCells |->
              IF b \notin {e.cell : e \in instr.effect} THEN M[r][b]
              ELSE IF Fresh(M[r], needed(b)) THEN instr.version ELSE Garbage]
        BY DEF Computed, needed
      <3>5. QED
        BY <3>1, <3>2, <3>3, <3>4
    <2>3. Executed(code[q], M)[r] = Computed(code[q], M[r])
      BY <1>2, <1>5 DEF Executed
    <2>4. QED
      BY <1>1, <1>2, <1>4, <1>5, <2>2, <2>3
  <1>6. CASE ~ Concerns(code[q], r)
    <2>1. Executed(code[q], M)[r] = M[r]
      BY <1>2, <1>6 DEF Executed
    <2>2. QED
      BY <1>1, <1>2, <1>4, <1>6, <2>1
  <1>7. QED
    BY <1>5, <1>6

LEMMA OtherStep ==
  ASSUME NEW code, WellFormedText(code), NEW q \in DOMAIN code,
         Supplied(code, q), UpToDate(code, q),
         NEW r \in Ranks, NEW c \in AllCells, ~ Writer(code, q, c), NEW v, Now(code, q, c, v)
  PROVE  Executed(code[q], MemoryBefore(code)[q])[r][c] =
           IF Brings(code[q], r, c) THEN v ELSE MemoryBefore(code)[q][r][c]
  <1>1. PICK M : M = MemoryBefore(code)[q]
    OBVIOUS
  <1>2. code[q].op \in {"compute", "barrier", "gather", "broadcast", "return"}
    BY DEF WellFormedText
  <1>3. CASE code[q].op = "compute"
    <2>1. c \notin {e.cell : e \in code[q].effect}
      BY <1>3 DEF Writer, Written
    <2>2. Computed(code[q], M[r])[c] = M[r][c]
      BY <2>1 DEF Computed
    <2>3. Executed(code[q], M)[r] = M[r] \/ Executed(code[q], M)[r] = Computed(code[q], M[r])
      BY <1>3 DEF Executed
    <2>4. QED
      BY <1>1, <1>3, <2>2, <2>3 DEF Brings
  <1>4. CASE code[q].op \in {"barrier", "return"}
    <2>1. Executed(code[q], M)[r] = M[r]
      BY <1>4 DEF Executed
    <2>2. QED
      BY <1>1, <1>4, <2>1 DEF Brings
  <1>5. CASE code[q].op \in {"gather", "broadcast"}
    <2>1. PICK source \in Ranks :
            source = IF code[q].op = "gather" THEN NodeToRank[code[q].owner] ELSE rootRank
      BY <1>5, NodeToRankAssumption, RootIsARank DEF WellFormedText
    <2> DEFINE receives == IF code[q].op = "gather" THEN r = rootRank ELSE r # rootRank
    <2>2. CASE receives
      <3>1. Executed(code[q], M)[r] = Stored(M[r], code[q].slab, Contents(M[source], code[q].slab))
        BY <1>5, <2>1, <2>2 DEF Executed
      <3>2. code[q].slab.lo \in Int /\ code[q].slab.len \in Nat
        BY <1>5 DEF WellFormedText
      <3>3. Executed(code[q], M)[r][c] = IF c \in SlabCells(code[q].slab) THEN M[source][c] ELSE M[r][c]
        BY <3>1, <3>2, Arrives
      <3>4. c \in SlabCells(code[q].slab) => M[source][c] = v
        <4>1. c \in SlabCells(code[q].slab) => Has(code, source, c, q)
          BY <1>5, <2>1 DEF Supplied
        <4>2. QED
          BY <1>1, <4>1 DEF UpToDate
      <3>5. Brings(code[q], r, c) <=> c \in SlabCells(code[q].slab)
        BY <1>5, <2>2 DEF Brings
      <3>6. QED
        BY <1>1, <3>3, <3>4, <3>5
    <2>3. CASE ~ receives
      <3>1. Executed(code[q], M)[r] = M[r]
        BY <1>5, <2>3 DEF Executed
      <3>2. ~ Brings(code[q], r, c)
        BY <1>5, <2>3 DEF Brings
      <3>3. QED
        BY <1>1, <3>1, <3>2
    <2>4. QED
      BY <2>2, <2>3
  <1>6. QED
    BY <1>2, <1>3, <1>4, <1>5

LEMMA StaysUpToDate ==
  ASSUME NEW code, WellFormedText(code), NEW q \in DOMAIN code, q + 1 \in DOMAIN code,
         Supplied(code, q), UpToDate(code, q)
  PROVE  UpToDate(code, q + 1)
  <1>1. PICK M, N : M = MemoryBefore(code)[q] /\ N = MemoryBefore(code)[q + 1]
    OBVIOUS
  <1>2. N = Executed(code[q], M) /\ q \in Nat \ {0}
    <2>1. N = Executed(code[q], M)
      BY <1>1, MemorySteps
    <2>2. QED
      BY <2>1 DEF WellFormedText
  <1>3. SUFFICES ASSUME NEW r \in Ranks, NEW c \in AllCells, NEW v, Now(code, q + 1, c, v)
                 PROVE  /\ v \in Int /\ N[r][c] \in Int /\ N[r][c] <= v
                        /\ Has(code, r, c, q + 1) => N[r][c] = v
    BY <1>1 DEF UpToDate
  <1>4. CASE Writer(code, q, c)
    <2>1. v = code[q].version /\ (Has(code, r, c, q + 1) => Concerns(code[q], r))
      BY <1>2, <1>3, <1>4, VersionsMove
    <2>2. /\ v \in Int /\ N[r][c] = (IF Concerns(code[q], r) THEN v ELSE M[r][c])
          /\ M[r][c] \in Int /\ M[r][c] < v
      BY <1>1, <1>2, <1>4, <2>1, WriterStep
    <2>3. QED
      BY <2>1, <2>2
  <1>5. CASE ~ Writer(code, q, c)
    <2>1. /\ Now(code, q, c, v)
          /\ Has(code, r, c, q + 1) => Has(code, r, c, q) \/ Brings(code[q], r, c)
      BY <1>2, <1>3, <1>5, VersionsMove
    <2>2. N[r][c] = IF Brings(code[q], r, c) THEN v ELSE M[r][c]
      BY <1>1, <1>2, <1>5, <2>1, OtherStep
    <2>3. v \in Int /\ M[r][c] \in Int /\ M[r][c] <= v /\ (Has(code, r, c, q) => M[r][c] = v)
      BY <1>1, <2>1 DEF UpToDate
    <2>4. QED
      BY <2>1, <2>2, <2>3
  <1>6. QED
    BY <1>4, <1>5

AllSupplied(code) == \A q \in DOMAIN code : Supplied(code, q)

LEMMA SuppliedIsUpToDate ==
  ASSUME NEW code, WellFormedText(code), AllSupplied(code)
  PROVE  \A q \in DOMAIN code : UpToDate(code, q)
  <1>1. PICK n \in Nat \ {0} : n = Len(code) /\ DOMAIN code = 1 .. n
    BY DEF WellFormedText
  <1> DEFINE bad == {q \in 1 .. n : ~ UpToDate(code, q)}
  <1> SUFFICES ASSUME bad # {} PROVE FALSE
    BY <1>1
  <1>2. PICK q \in bad : \A y \in bad : q <= y
    <2>1. bad \in SUBSET Nat
      OBVIOUS
    <2> HIDE DEF bad
    <2>2. QED
      BY <2>1, LeastMember
  <1>3. CASE q = 1
    <2>1. UpToDate(code, 1)
      <3>1. MemoryBefore(code)[1] = Untouched /\ 1 .. 1 - 1 = {}
        BY MemorySteps
      <3>2. QED
        BY <3>1 DEF UpToDate, Now, Untouched
    <2>2. QED
      BY <1>3, <2>1
  <1>4. CASE q # 1
    <2>1. q - 1 \in 1 .. n /\ q \in 1 .. n /\ (q - 1) + 1 = q
      BY <1>4
    <2>2. UpToDate(code, q - 1)
      BY <1>2, <2>1
    <2>3. Supplied(code, q - 1)
      BY <1>1, <2>1 DEF AllSupplied
    <2>4. PICK k \in DOMAIN code : k = q - 1 /\ k + 1 = q /\ k + 1 \in DOMAIN code
      BY <1>1, <2>1
    <2>5. UpToDate(code, k + 1)
      BY <2>2, <2>3, <2>4, StaysUpToDate
    <2>6. QED
      BY <2>4, <2>5
  <1>5. QED
    BY <1>3, <1>4

(* A text that is supplied is right in lockstep.                           *)
THEOREM SuppliedTextsAreRight ==
  ASSUME \A code \in Programs : AllSupplied(code)
  PROVE  ReadsFreshInLockstep /\ ResultInLockstep /\ RootGainsInLockstep
  <1>1. ASSUME NEW code \in Programs, NEW q \in DOMAIN code
        PROVE  WellFormedText(code) /\ Supplied(code, q) /\ UpToDate(code, q)
    BY ProgramsAssumption, SuppliedIsUpToDate DEF AllSupplied
  <1>2. ASSUME NEW code \in Programs, NEW q \in DOMAIN code, NEW r \in Ranks, NEW d,
               Serves(code, r, q, d)
        PROVE  MemoryBefore(code)[q][r][d.cell] = d.version
    BY <1>1, <1>2 DEF Serves, UpToDate
  <1>3. ReadsFreshInLockstep
    BY <1>1, <1>2 DEF ReadsFreshInLockstep, Fresh, Supplied
  <1>4. ResultInLockstep
    BY <1>1, <1>2, RootIsARank DEF ResultInLockstep, Fresh, Supplied
  <1>5. RootGainsInLockstep
    <2>1. SUFFICES ASSUME NEW code \in Programs, NEW q \in DOMAIN code, q + 1 \in DOMAIN code,
                          NEW c \in AllCells
                   PROVE  MemoryBefore(code)[q + 1][rootRank][c] >= MemoryBefore(code)[q][rootRank][c]
      BY DEF RootGainsInLockstep
    <2>2. WellFormedText(code) /\ Supplied(code, q) /\ UpToDate(code, q) /\ q \in Nat
      BY <1>1 DEF WellFormedText
    <2>3. MemoryBefore(code)[q + 1] = Executed(code[q], MemoryBefore(code)[q])
      BY <2>1, <2>2, MemorySteps
    <2>4. PICK M : M = MemoryBefore(code)[q]
      OBVIOUS
    <2>5. CASE Writer(code, q, c)
      <3>1. /\ code[q].version \in Int
            /\ Executed(code[q], M)[rootRank][c] =
                 IF Concerns(code[q], rootRank) THEN code[q].version ELSE M[rootRank][c]
            /\ M[rootRank][c] \in Int /\ M[rootRank][c] < code[q].version
        BY <2>2, <2>4, <2>5, RootIsARank, WriterStep
      <3>2. QED
        BY <2>3, <2>4, <3>1
    <2>6. CASE ~ Writer(code, q, c)
      <3>1. PICK v : Now(code, q, c, v)
        BY <2>2, SomeVersion
      <3>2. v \in Int /\ M[rootRank][c] \in Int /\ M[rootRank][c] <= v
        BY <2>2, <2>4, <3>1, RootIsARank DEF UpToDate
      <3>3. Executed(code[q], M)[rootRank][c] =
              IF Brings(code[q], rootRank, c) THEN v ELSE M[rootRank][c]
        BY <2>2, <2>4, <2>6, <3>1, RootIsARank, OtherStep
      <3>4. QED
        BY <2>3, <2>4, <3>2, <3>3
    <2>7. QED
      BY <2>5, <2>6
  <1>6. QED
    BY <1>3, <1>4, <1>5
=============================================================================

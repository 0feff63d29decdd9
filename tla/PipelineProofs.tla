--------------------------- MODULE PipelineProofs ---------------------------
(***************************************************************************)
(* For every program, every number of devices and whatever their costs:    *)
(* the emitted text is one that ScheduleRun and Lockstep are about, and of *)
(* two of its computations that clash, the one the source runs first comes *)
(* first, although tasks are sorted into levels and the levels released    *)
(* between the host code.                                                  *)
(*                                                                         *)
(* A computation emitted before another but with a later version is a task *)
(* of a later item of the same block, in a level not above the other's     *)
(* (OvertakenIsNotAwaited); had it waited for the other, its level would   *)
(* be above (LevelsInOrder).  Tasks that clash have operands that conflict *)
(* (TaskCells), so it would have waited.                                   *)
(***************************************************************************)
EXTENDS ScheduleEmission, Lockstep, SequenceTheorems, WellFoundedInduction, TLAPS

LEMMA LeastNumber ==
  ASSUME NEW S \in SUBSET Nat, S # {}
  PROVE  \E x \in S : \A y \in S : x <= y
  <1>1. PICK x \in S : \A y \in S : ~ (<<y, x>> \in OpToRel(<, Nat))
    BY NatLessThanWellFounded, WFMin
  <1>2. OpToRel(<, Nat) = {p \in Nat \X Nat : p[1] < p[2]}
    BY DEF OpToRel
  <1>3. ASSUME NEW y \in S PROVE x <= y
    <2>1. ~ (<<y, x>> \in {p \in Nat \X Nat : p[1] < p[2]})
      BY <1>1, <1>2, Zenon
    <2>2. QED
      BY <2>1
  <1>4. QED
    BY <1>3

(* A set of numbers that holds 0 and the successor of each of its members  *)
(* below m has all up to m.                                                *)
LEMMA Counting ==
  ASSUME NEW m \in Nat, NEW good, 0 \in good,
         \A n \in 1 .. m : n - 1 \in good => n \in good
  PROVE  \A n \in 0 .. m : n \in good
  <1> DEFINE bad == {n \in 0 .. m : n \notin good}
  <1> SUFFICES ASSUME bad # {} PROVE FALSE
    OBVIOUS
  <1>1. PICK k \in bad : \A y \in bad : k <= y
    <2>1. bad \in SUBSET Nat
      OBVIOUS
    <2> HIDE DEF bad
    <2>2. QED
      BY <2>1, LeastNumber
  <1>2. k \in 1 .. m /\ k - 1 \in 0 .. m /\ ~ (k <= k - 1)
    BY <1>1
  <1>3. k - 1 \in good
    BY <1>1, <1>2
  <1>4. QED
    BY <1>1, <1>2, <1>3

LEMMA LargestNumber ==
  ASSUME NEW m \in Nat, NEW S \in SUBSET (0 .. m), S # {}
  PROVE  \E x \in S : \A y \in S : y <= x
  <1> DEFINE T == {x \in Nat : \A y \in S : y <= x}
  <1>1. m \in T /\ T \in SUBSET Nat
    OBVIOUS
  <1>2. PICK x \in T : \A y \in T : x <= y
    <2> HIDE DEF T
    <2>1. QED
      BY <1>1, LeastNumber
  <1>3. x \in S
    <2> SUFFICES ASSUME x \notin S PROVE FALSE
      OBVIOUS
    <2>1. \A y \in S : y \in Nat /\ y <= x /\ y # x
      BY <1>2
    <2>2. x - 1 \in T
      <3>1. x \in Nat /\ x # 0
        <4>1. PICK y \in S : TRUE
          OBVIOUS
        <4>2. QED
          BY <1>2, <2>1, <4>1
      <3>2. \A y \in S : y <= x - 1
        BY <2>1, <3>1
      <3>3. QED
        BY <3>1, <3>2
    <2>3. QED
      BY <1>2, <2>2
  <1>4. QED
    BY <1>2, <1>3

(* Recursion on the numbers up to m, one step at a time, has a solution.   *)
Iterates(f, V, base, m, step) ==
  f \in [0 .. m -> V] /\ f[0] = base /\ \A n \in 1 .. m : f[n] = step[n][f[n - 1]]

LEMMA Iterated ==
  ASSUME NEW V, NEW base \in V, NEW m \in Nat, NEW step \in [1 .. m -> [V -> V]]
  PROVE  \E f : Iterates(f, V, base, m, step)
  <1> DEFINE upTo(n, f) == /\ f \in [0 .. n -> V] /\ f[0] = base
                           /\ \A k \in 1 .. n : f[k] = step[k][f[k - 1]]
             good == {n \in 0 .. m : \E f : upTo(n, f)}
  <1>1. 0 \in good
    <2>1. \E f : upTo(0, f)
      <3> WITNESS [n \in 0 .. 0 |-> base]
      <3>1. QED
        OBVIOUS
    <2>2. QED
      BY <2>1
  <1>2. ASSUME NEW n \in 1 .. m, n - 1 \in good PROVE n \in good
    <2>1. PICK f : upTo(n - 1, f)
      BY <1>2
    <2> DEFINE g == [k \in 0 .. n |-> IF k = n THEN step[n][f[n - 1]] ELSE f[k]]
    <2>2. n - 1 \in 0 .. n - 1 /\ step[n][f[n - 1]] \in V
      BY <2>1
    <2>3. g \in [0 .. n -> V] /\ g[0] = base
      BY <2>1, <2>2
    <2>4. ASSUME NEW k \in 1 .. n PROVE g[k] = step[k][g[k - 1]]
      <3>1. k - 1 \in 0 .. n /\ k - 1 # n /\ g[k - 1] = f[k - 1]
        OBVIOUS
      <3>2. CASE k = n
        BY <3>1, <3>2
      <3>3. CASE k # n
        <4>1. k \in 1 .. n - 1
          BY <3>3
        <4>2. QED
          BY <2>1, <3>1, <3>3, <4>1
      <3>4. QED
        BY <3>2, <3>3
    <2>5. \E h : upTo(n, h)
      <3> HIDE DEF g
      <3> WITNESS g
      <3>1. QED
        BY <2>3, <2>4
    <2>6. QED
      BY <2>5
  <1> HIDE DEF good
  <1>3. \A n \in 0 .. m : n \in good
    BY <1>1, <1>2, Counting
  <1>4. m \in good
    BY <1>3
  <1>5. QED
    BY <1>4 DEF good, Iterates

-----------------------------------------------------------------------------
(* Sequences laid one after the other: part n of parts starts after place  *)
(* off[n - 1] of code.                                                     *)
LaidOut(code, parts, off) ==
  /\ Len(parts) \in Nat /\ \A n \in 1 .. Len(parts) : Len(parts[n]) \in Nat
  /\ off \in [0 .. Len(parts) -> Nat] /\ off[0] = 0
  /\ \A n \in 1 .. Len(parts) : off[n] = off[n - 1] + Len(parts[n])
  /\ Len(code) = off[Len(parts)]
  /\ \A n \in 1 .. Len(parts) : \A j \in 1 .. Len(parts[n]) : code[off[n - 1] + j] = parts[n][j]

(* Place p of code is place j of part n.                                   *)
At(code, parts, off, p, n, j) ==
  /\ n \in 1 .. Len(parts) /\ j \in 1 .. Len(parts[n])
  /\ p = off[n - 1] + j /\ code[p] = parts[n][j]

LEMMA Joined ==
  ASSUME NEW S, NEW s \in Seq(S), NEW t \in Seq(S)
  PROVE  /\ s \o t \in Seq(S) /\ Len(s \o t) = Len(s) + Len(t)
         /\ \A i \in 1 .. Len(s) : (s \o t)[i] = s[i]
         /\ \A j \in 1 .. Len(t) : (s \o t)[Len(s) + j] = t[j]
  OBVIOUS

(* The recursion of FlattenSeq: what it has after each part.               *)
LEMMA Flattened ==
  ASSUME NEW S, NEW parts \in Seq(Seq(S))
  PROVE  \E flat \in [0 .. Len(parts) -> Seq(S)] :
           /\ flat[0] = <<>> /\ FlattenSeq(parts) = flat[Len(parts)]
           /\ \A n \in 1 .. Len(parts) : flat[n] = flat[n - 1] \o parts[n]
  <1>0. PICK N \in Nat : N = Len(parts)
    OBVIOUS
  <1> DEFINE rec(f) == f = [i \in 1 .. N |-> IF i = 1 THEN parts[i] ELSE f[i - 1] \o parts[i]]
  <1>1. N \in Nat /\ <<>> \in Seq(S) /\ \A n \in 1 .. N : parts[n] \in Seq(S)
    BY <1>0
  <1>2. PICK step \in [1 .. N -> [Seq(S) -> Seq(S)]] :
          step = [n \in 1 .. N |-> [v \in Seq(S) |-> v \o parts[n]]]
    <2>1. ASSUME NEW n \in 1 .. N PROVE [v \in Seq(S) |-> v \o parts[n]] \in [Seq(S) -> Seq(S)]
      BY <1>1
    <2>2. [n \in 1 .. N |-> [v \in Seq(S) |-> v \o parts[n]]] \in [1 .. N -> [Seq(S) -> Seq(S)]]
      BY <2>1
    <2>3. QED
      BY <2>2
  <1>3. PICK f \in [0 .. N -> Seq(S)] :
          f[0] = <<>> /\ \A n \in 1 .. N : f[n] = step[n][f[n - 1]]
    <2>1. \E f : Iterates(f, Seq(S), <<>>, N, step)
      BY <1>1, Iterated, Zenon
    <2>2. QED
      BY <2>1 DEF Iterates
  <1>4. ASSUME NEW n \in 1 .. N
        PROVE  f[n] = f[n - 1] \o parts[n] /\ f[n - 1] \in Seq(S) /\ parts[n] \in Seq(S)
    <2>1. n - 1 \in 0 .. N
      BY <1>1
    <2>2. f[n - 1] \in Seq(S) /\ f[n] = step[n][f[n - 1]]
      BY <1>3, <2>1
    <2>3. step[n] = [v \in Seq(S) |-> v \o parts[n]]
      BY <1>2
    <2>4. step[n][f[n - 1]] = f[n - 1] \o parts[n]
      BY <2>2, <2>3, Zenon
    <2>5. QED
      BY <1>1, <2>2, <2>4
  <1>5. CASE N = 0
    <2>1. parts = <<>>
      BY <1>0, <1>5, EmptySeq
    <2>2. FlattenSeq(parts) = f[N]
      BY <1>0, <1>3, <1>5, <2>1 DEF FlattenSeq
    <2>3. QED
      BY <1>0, <1>3, <1>4, <2>2
  <1>6. CASE N # 0
    <2>1. f[1] = parts[1]
      <3>1. 1 \in 1 .. N /\ 1 - 1 = 0
        BY <1>1, <1>6
      <3>2. f[1] = f[0] \o parts[1] /\ parts[1] \in Seq(S)
        BY <1>4, <3>1
      <3>3. QED
        BY <1>3, <3>2
    <2> DEFINE flat == CHOOSE g : rec(g)
    <2>2. rec(flat)
      <3>1. rec([n \in 1 .. N |-> f[n]])
        <4>1. \A n \in 1 .. N : n # 1 => n - 1 \in 1 .. N
          OBVIOUS
        <4>2. QED
          BY <1>4, <2>1, <4>1
      <3> HIDE DEF rec
      <3>2. QED
        BY <3>1
    <2>3. FlattenSeq(parts) = flat[N]
      BY <1>0, <1>6 DEF FlattenSeq
    <2> HIDE DEF flat
    <2> DEFINE good == {n \in 0 .. N : n # 0 => flat[n] = f[n]}
    <2>4. 0 \in good
      OBVIOUS
    <2>5. ASSUME NEW n \in 1 .. N, n - 1 \in good PROVE n \in good
      <3>1. n # 1 => flat[n - 1] = f[n - 1] /\ flat[n] = flat[n - 1] \o parts[n]
        <4>1. n # 1 => n - 1 # 0
          OBVIOUS
        <4>2. n # 1 => flat[n] = flat[n - 1] \o parts[n]
          BY <2>2
        <4>3. QED
          BY <2>5, <4>1, <4>2
      <3>2. n = 1 => flat[n] = parts[1]
        BY <2>2
      <3>3. f[n] = f[n - 1] \o parts[n]
        BY <1>4
      <3> HIDE DEF rec
      <3>4. flat[n] = f[n]
        BY <2>1, <3>1, <3>2, <3>3
      <3>5. n \in 0 .. N
        OBVIOUS
      <3>6. QED
        BY <3>4, <3>5
    <2> HIDE DEF good, rec
    <2>6. \A n \in 0 .. N : n \in good
      <3>1. QED
        BY <1>1, <2>4, <2>5, Counting
    <2>7. FlattenSeq(parts) = f[N]
      BY <1>6, <2>3, <2>6 DEF good
    <2>8. QED
      BY <1>0, <1>3, <1>4, <2>7
  <1>7. QED
    BY <1>5, <1>6

LEMMA Layout ==
  ASSUME NEW S, NEW parts \in Seq(Seq(S))
  PROVE  FlattenSeq(parts) \in Seq(S) /\ \E off : LaidOut(FlattenSeq(parts), parts, off)
  <1>1. PICK flat \in [0 .. Len(parts) -> Seq(S)] :
           /\ flat[0] = <<>> /\ FlattenSeq(parts) = flat[Len(parts)]
           /\ \A n \in 1 .. Len(parts) : flat[n] = flat[n - 1] \o parts[n]
    BY Flattened
  <1>0. PICK N \in Nat : N = Len(parts)
    OBVIOUS
  <1> DEFINE off == [n \in 0 .. N |-> Len(flat[n])]
             placed(n) == \A m \in 1 .. n : \A j \in 1 .. Len(parts[m]) :
                            flat[n][off[m - 1] + j] = parts[m][j] /\ off[m - 1] + j \in 1 .. off[n]
             good == {n \in 0 .. N : placed(n)}
  <1>2. N \in Nat /\ \A n \in 1 .. N : parts[n] \in Seq(S) /\ n - 1 \in 0 .. N /\ n \in 0 .. N
    BY <1>0
  <1>3. ASSUME NEW n \in 1 .. N
        PROVE  /\ flat[n] = flat[n - 1] \o parts[n] /\ flat[n - 1] \in Seq(S) /\ parts[n] \in Seq(S)
               /\ off[n - 1] = Len(flat[n - 1]) /\ off[n - 1] \in Nat
               /\ off[n] = off[n - 1] + Len(parts[n]) /\ Len(parts[n]) \in Nat
    <2>1. flat[n] = flat[n - 1] \o parts[n] /\ flat[n - 1] \in Seq(S) /\ parts[n] \in Seq(S)
      BY <1>0, <1>1, <1>2
    <2>2. Len(flat[n]) = Len(flat[n - 1]) + Len(parts[n])
      BY <2>1, Joined
    <2>3. off[n - 1] = Len(flat[n - 1]) /\ off[n] = Len(flat[n])
      BY <1>2
    <2>4. Len(flat[n - 1]) \in Nat /\ Len(parts[n]) \in Nat
      BY <2>1
    <2> HIDE DEF off
    <2>5. QED
      BY <2>1, <2>2, <2>3, <2>4
  <1>4. off \in [0 .. N -> Nat] /\ off[0] = 0
    <2>1. \A n \in 0 .. N : Len(flat[n]) \in Nat
      BY <1>0, <1>1
    <2>2. 0 \in 0 .. N /\ Len(flat[0]) = 0
      BY <1>1, <1>2
    <2>3. QED
      BY <2>1, <2>2
  <1>5. 0 \in good
    BY <1>2
  <1> HIDE DEF off
  <1>6. ASSUME NEW n \in 1 .. N, n - 1 \in good PROVE n \in good
    <2>1. placed(n - 1)
      BY <1>6
    <2>2. ASSUME NEW m \in 1 .. n, NEW j \in 1 .. Len(parts[m])
          PROVE  flat[n][off[m - 1] + j] = parts[m][j] /\ off[m - 1] + j \in 1 .. off[n]
      <3>1. /\ \A i \in 1 .. off[n - 1] : flat[n][i] = flat[n - 1][i]
            /\ \A i \in 1 .. Len(parts[n]) : flat[n][off[n - 1] + i] = parts[n][i]
        <4>1. PICK before \in Seq(S), part \in Seq(S) : before = flat[n - 1] /\ part = parts[n]
          BY <1>3
        <4>2. /\ \A i \in 1 .. Len(before) : (before \o part)[i] = before[i]
              /\ \A i \in 1 .. Len(part) : (before \o part)[Len(before) + i] = part[i]
          OBVIOUS
        <4>3. flat[n] = flat[n - 1] \o parts[n] /\ off[n - 1] = Len(flat[n - 1])
          BY <1>3
        <4>4. QED
          BY <4>1, <4>2, <4>3
      <3>2. CASE m = n
        <4>1. /\ off[n - 1] \in Nat /\ off[n] = off[n - 1] + Len(parts[n])
              /\ Len(parts[n]) \in Nat /\ j \in 1 .. Len(parts[n])
          BY <1>3, <3>2
        <4>2. off[n - 1] + j \in 1 .. off[n]
          BY <4>1
        <4>3. QED
          BY <3>1, <3>2, <4>1, <4>2
      <3>3. CASE m # n
        <4>1. m \in 1 .. n - 1
          BY <3>3
        <4>2. flat[n - 1][off[m - 1] + j] = parts[m][j] /\ off[m - 1] + j \in 1 .. off[n - 1]
          BY <2>1, <4>1
        <4>3. flat[n][off[m - 1] + j] = parts[m][j]
          BY <3>1, <4>2
        <4>4. off[m - 1] + j \in 1 .. off[n]
          <5>1. /\ off[n - 1] \in Nat /\ off[n] = off[n - 1] + Len(parts[n])
                /\ Len(parts[n]) \in Nat
            BY <1>3
          <5>2. QED
            BY <4>2, <5>1
        <4>5. QED
          BY <4>3, <4>4
      <3>4. QED
        BY <3>2, <3>3
    <2>3. QED
      BY <1>2, <2>2
  <1> HIDE DEF good
  <1>7. \A n \in 0 .. N : n \in good
    BY <1>2, <1>5, <1>6, Counting
  <1>8. N \in good
    BY <1>2, <1>7
  <1>9. placed(N)
    BY <1>8 DEF good
  <1>10. FlattenSeq(parts) = flat[N] /\ flat[N] \in Seq(S) /\ Len(flat[N]) = off[N]
    BY <1>0, <1>1, <1>2 DEF off
  <1>11. LaidOut(FlattenSeq(parts), parts, off)
    BY <1>3, <1>4, <1>9, <1>10, <1>0 DEF LaidOut
  <1>12. QED
    BY <1>10, <1>11

LEMMA OffsetsGrow ==
  ASSUME NEW code, NEW parts, NEW off, LaidOut(code, parts, off),
         NEW a \in 0 .. Len(parts), NEW b \in a .. Len(parts)
  PROVE  off[a] <= off[b]
  <1> DEFINE good == {n \in 0 .. Len(parts) : n < a \/ off[a] <= off[n]}
  <1>1. 0 \in good
    BY DEF LaidOut
  <1>2. ASSUME NEW n \in 1 .. Len(parts), n - 1 \in good PROVE n \in good
    <2>1. off[n] = off[n - 1] + Len(parts[n]) /\ Len(parts[n]) \in Nat
          /\ off[n - 1] \in Nat /\ off[n] \in Nat /\ off[a] \in Nat
      <3>1. PICK N \in Nat : N = Len(parts)
        BY DEF LaidOut
      <3>2. n - 1 \in 0 .. N /\ n \in 0 .. N /\ a \in 0 .. N /\ n \in 1 .. N
        BY <3>1
      <3>3. off \in [0 .. N -> Nat]
        BY <3>1 DEF LaidOut
      <3>4. off[n - 1] \in Nat /\ off[n] \in Nat /\ off[a] \in Nat
        BY <3>2, <3>3
      <3>5. off[n] = off[n - 1] + Len(parts[n]) /\ Len(parts[n]) \in Nat
        BY DEF LaidOut
      <3>6. QED
        BY <3>4, <3>5
    <2>2. CASE n = a
      BY <2>1, <2>2
    <2>3. CASE n < a
      BY <2>3
    <2>4. CASE a < n
      <3>1. ~ (n - 1 < a)
        BY <2>4
      <3>2. off[a] <= off[n - 1]
        BY <1>2, <3>1
      <3>3. PICK x \in Nat, y \in Nat, z \in Nat, d \in Nat :
              x = off[a] /\ y = off[n - 1] /\ z = off[n] /\ d = Len(parts[n])
        BY <2>1
      <3>4. x <= z
        BY <2>1, <3>2, <3>3
      <3>5. off[a] <= off[n] /\ n \in 0 .. Len(parts)
        BY <3>3, <3>4
      <3>6. QED
        BY <3>5
    <2>5. n = a \/ n < a \/ a < n
      OBVIOUS
    <2>6. QED
      BY <2>2, <2>3, <2>4, <2>5, Zenon
  <1> HIDE DEF good
  <1>3. Len(parts) \in Nat
    BY DEF LaidOut
  <1>4. \A n \in 0 .. Len(parts) : n \in good
    BY <1>1, <1>2, <1>3, Counting
  <1>5. QED
    BY <1>4 DEF good

(* Every place belongs to a part.                                          *)
LEMMA PlaceFound ==
  ASSUME NEW code, NEW parts, NEW off, LaidOut(code, parts, off), NEW p \in 1 .. Len(code)
  PROVE  \E n, j : At(code, parts, off, p, n, j)
  <1> DEFINE reached == {n \in 0 .. Len(parts) : p <= off[n]}
  <1>1. Len(parts) \in reached /\ reached \in SUBSET Nat
    BY DEF LaidOut
  <1>2. PICK n \in reached : \A m \in reached : n <= m
    <2> HIDE DEF reached
    <2>1. QED
      BY <1>1, LeastNumber
  <1>3. n \in 1 .. Len(parts)
    BY <1>2 DEF LaidOut
  <1>4. n - 1 \in 0 .. Len(parts) /\ n - 1 \notin reached
    BY <1>2, <1>3
  <1>5. p <= off[n] /\ off[n - 1] < p /\ off[n - 1] \in Nat /\ off[n] = off[n - 1] + Len(parts[n])
    BY <1>2, <1>3, <1>4 DEF LaidOut
  <1>6. p - off[n - 1] \in 1 .. Len(parts[n]) /\ p = off[n - 1] + (p - off[n - 1])
    BY <1>3, <1>5 DEF LaidOut
  <1>7. code[p] = parts[n][p - off[n - 1]]
    <2>1. code[off[n - 1] + (p - off[n - 1])] = parts[n][p - off[n - 1]]
      BY <1>3, <1>6 DEF LaidOut
    <2>2. QED
      BY <1>6, <2>1
  <1>8. At(code, parts, off, p, n, p - off[n - 1])
    BY <1>3, <1>6, <1>7 DEF At
  <1>9. QED
    BY <1>8

(* Every place of a part is a place of the whole.                          *)
LEMMA PartPlaced ==
  ASSUME NEW code, NEW parts, NEW off, LaidOut(code, parts, off),
         NEW n \in 1 .. Len(parts), NEW j \in 1 .. Len(parts[n])
  PROVE  /\ At(code, parts, off, off[n - 1] + j, n, j)
         /\ off[n - 1] + j \in 1 .. Len(code)
  <1>1. n \in 0 .. Len(parts) /\ Len(parts) \in n .. Len(parts) /\ n - 1 \in 0 .. Len(parts)
    BY DEF LaidOut
  <1>2. off[n] <= off[Len(parts)]
    BY <1>1, OffsetsGrow
  <1>3. /\ off[n] \in Nat /\ off[n - 1] \in Nat /\ off[n] = off[n - 1] + Len(parts[n])
        /\ off[Len(parts)] = Len(code) /\ Len(parts[n]) \in Nat /\ off[Len(parts)] \in Nat
    BY <1>1 DEF LaidOut
  <1>4. off[n - 1] + j \in 1 .. Len(code)
    BY <1>2, <1>3
  <1>5. QED
    BY <1>4 DEF At, LaidOut

(* Of two places the earlier one is in an earlier part, or earlier in the  *)
(* same one.                                                               *)
LEMMA PlacesInOrder ==
  ASSUME NEW code, NEW parts, NEW off, LaidOut(code, parts, off),
         NEW p \in Int, NEW n, NEW j, At(code, parts, off, p, n, j),
         NEW q \in Int, NEW m, NEW i, At(code, parts, off, q, m, i), p < q
  PROVE  n < m \/ (n = m /\ j < i)
  <1>1. n \in 1 .. Len(parts) /\ m \in 1 .. Len(parts) /\ Len(parts) \in Nat
        /\ {n - 1, n, m - 1, m} \subseteq 0 .. Len(parts)
    BY DEF At, LaidOut
  <1>2. /\ off[n] \in Nat /\ off[n - 1] \in Nat /\ off[n] = off[n - 1] + Len(parts[n])
        /\ off[m] \in Nat /\ off[m - 1] \in Nat /\ off[m] = off[m - 1] + Len(parts[m])
        /\ Len(parts[n]) \in Nat /\ Len(parts[m]) \in Nat
    BY <1>1 DEF LaidOut
  <1>3. /\ p = off[n - 1] + j /\ j \in 1 .. Len(parts[n])
        /\ q = off[m - 1] + i /\ i \in 1 .. Len(parts[m])
    BY DEF At
  <1>4. CASE m < n
    <2>1. m \in 0 .. Len(parts) /\ n - 1 \in m .. Len(parts)
      BY <1>1, <1>4
    <2>2. off[m] <= off[n - 1]
      BY <2>1, OffsetsGrow
    <2>3. QED
      BY <1>2, <1>3, <2>2
  <1>5. CASE n = m
    BY <1>2, <1>3, <1>5
  <1>6. QED
    BY <1>1, <1>4, <1>5

(* What is in one of the parts is in the whole, and nothing else.          *)
Within(s, x) == \E i \in 1 .. Len(s) : s[i] = x

LEMMA FlattenedMembers ==
  ASSUME NEW S, NEW parts \in Seq(Seq(S)), NEW x
  PROVE  Within(FlattenSeq(parts), x) <=> \E n \in 1 .. Len(parts) : Within(parts[n], x)
  <1>1. PICK code, off : code = FlattenSeq(parts) /\ LaidOut(code, parts, off)
    BY Layout
  <1>2. ASSUME NEW p \in 1 .. Len(code), code[p] = x PROVE \E n \in 1 .. Len(parts) : Within(parts[n], x)
    <2>1. PICK n, j : At(code, parts, off, p, n, j)
      BY <1>1, PlaceFound
    <2>2. QED
      BY <1>2, <2>1 DEF At, Within
  <1>3. ASSUME NEW n \in 1 .. Len(parts), NEW j \in 1 .. Len(parts[n]), parts[n][j] = x
        PROVE  Within(code, x)
    <2>1. At(code, parts, off, off[n - 1] + j, n, j) /\ off[n - 1] + j \in 1 .. Len(code)
      BY <1>1, PartPlaced
    <2>2. QED
      BY <1>3, <2>1 DEF At, Within
  <1>4. QED
    BY <1>1, <1>2, <1>3 DEF Within

-----------------------------------------------------------------------------
LEMMA AppendedSet ==
  ASSUME NEW S, NEW s \in Seq(S), NEW x \in S
  PROVE  Append(s, x) \in Seq(S) /\ ToSet(Append(s, x)) = ToSet(s) \cup {x}
  <1>1. PICK N \in Nat : N = Len(s)
    OBVIOUS
  <1>2. Append(s, x) \in Seq(S) /\ Len(Append(s, x)) = N + 1
        /\ Append(s, x)[N + 1] = x /\ \A i \in 1 .. N : Append(s, x)[i] = s[i]
    BY <1>1
  <1>3. DOMAIN s = 1 .. N /\ DOMAIN Append(s, x) = 1 .. N + 1
    BY <1>1, <1>2
  <1>4. 1 .. N + 1 = (1 .. N) \cup {N + 1}
    OBVIOUS
  <1>5. QED
    BY <1>2, <1>3, <1>4 DEF ToSet

LEMMA AddedOnceSet ==
  ASSUME NEW mems \in Seq(Mems), NEW a \in Accesses, NEW from
  PROVE  /\ AddedOnce(mems, a, from) \in Seq(Mems)
         /\ ToSet(AddedOnce(mems, a, from))
              = ToSet(mems) \cup (IF a \in from THEN {a.mem} ELSE {})
  <1>1. a.mem \in Mems
    BY DEF Accesses
  <1>2. Append(mems, a.mem) \in Seq(Mems) /\ ToSet(Append(mems, a.mem)) = ToSet(mems) \cup {a.mem}
    BY <1>1, AppendedSet
  <1>3. Contains(mems, a.mem) => a.mem \in ToSet(mems)
    BY DEF Contains, ToSet
  <1>4. QED
    BY <1>2, <1>3 DEF AddedOnce

(* Collect lists the memrefs of the accesses asked for, and no others.     *)
LEMMA Collected ==
  ASSUME NEW item, item.accesses \in Seq(Accesses), NEW from
  PROVE  /\ Collect(item, from) \in Seq(Mems)
         /\ ToSet(Collect(item, from)) = {a.mem : a \in AccessSet(item) \cap from}
  <1>1. PICK N \in Nat, acc \in Seq(Accesses) : N = Len(acc) /\ acc = item.accesses
    OBVIOUS
  <1>2. \A n \in 1 .. N : acc[n] \in Accesses
    BY <1>1
  <1> DEFINE rec(f) == f = [n \in 0 .. N |-> IF n = 0 THEN <<>> ELSE AddedOnce(f[n - 1], acc[n], from)]
             taken(n) == {acc[i].mem : i \in {j \in 1 .. n : acc[j] \in from}}
  <1>3. PICK step \in [1 .. N -> [Seq(Mems) -> Seq(Mems)]] :
          step = [n \in 1 .. N |-> [v \in Seq(Mems) |-> AddedOnce(v, acc[n], from)]]
    <2>1. ASSUME NEW n \in 1 .. N
          PROVE  [v \in Seq(Mems) |-> AddedOnce(v, acc[n], from)] \in [Seq(Mems) -> Seq(Mems)]
      BY <1>2, AddedOnceSet
    <2>2. [n \in 1 .. N |-> [v \in Seq(Mems) |-> AddedOnce(v, acc[n], from)]]
            \in [1 .. N -> [Seq(Mems) -> Seq(Mems)]]
      BY <2>1
    <2>3. QED
      BY <2>2
  <1>4. PICK f \in [0 .. N -> Seq(Mems)] :
          f[0] = <<>> /\ \A n \in 1 .. N : f[n] = step[n][f[n - 1]]
    <2>1. <<>> \in Seq(Mems) /\ N \in Nat
      OBVIOUS
    <2>2. \E f : Iterates(f, Seq(Mems), <<>>, N, step)
      BY <2>1, Iterated, Zenon
    <2>3. QED
      BY <2>2 DEF Iterates
  <1>5. ASSUME NEW n \in 1 .. N
        PROVE  n - 1 \in 0 .. N /\ f[n - 1] \in Seq(Mems) /\ f[n] = AddedOnce(f[n - 1], acc[n], from)
    <2>1. n - 1 \in 0 .. N
      OBVIOUS
    <2>2. f[n - 1] \in Seq(Mems) /\ f[n] = step[n][f[n - 1]]
      BY <1>4, <2>1
    <2>3. step[n] = [v \in Seq(Mems) |-> AddedOnce(v, acc[n], from)]
      BY <1>3
    <2>4. step[n][f[n - 1]] = AddedOnce(f[n - 1], acc[n], from)
      BY <2>2, <2>3, Zenon
    <2>5. QED
      BY <2>1, <2>2, <2>4
  <1> DEFINE mems == CHOOSE g : rec(g)
  <1>6. rec(mems)
    <2>1. rec([n \in 0 .. N |-> f[n]])
      BY <1>4, <1>5
    <2> HIDE DEF rec
    <2>2. QED
      BY <2>1
  <1>7. Collect(item, from) = mems[N]
    BY <1>1 DEF Collect
  <1> HIDE DEF mems
  <1> DEFINE good == {n \in 0 .. N : mems[n] = f[n] /\ ToSet(f[n]) = taken(n)}
  <1>8. 0 \in good
    <2>1. mems[0] = <<>>
      BY <1>6
    <2>2. ToSet(<<>>) = {} /\ taken(0) = {}
      BY DEF ToSet
    <2>3. QED
      BY <1>4, <2>1, <2>2
  <1>9. ASSUME NEW n \in 1 .. N, n - 1 \in good PROVE n \in good
    <2>1. mems[n] = AddedOnce(mems[n - 1], acc[n], from)
      BY <1>6
    <2>2. mems[n] = f[n]
      BY <1>5, <1>9, <2>1
    <2>3. ToSet(f[n]) = ToSet(f[n - 1]) \cup (IF acc[n] \in from THEN {acc[n].mem} ELSE {})
      <3>1. PICK v \in Seq(Mems), a \in Accesses : v = f[n - 1] /\ a = acc[n]
        BY <1>2, <1>5
      <3>2. ToSet(AddedOnce(v, a, from)) = ToSet(v) \cup (IF a \in from THEN {a.mem} ELSE {})
        BY AddedOnceSet
      <3>3. f[n] = AddedOnce(v, a, from)
        BY <1>5, <3>1
      <3>4. QED
        BY <3>1, <3>2, <3>3
    <2>4. taken(n) = taken(n - 1) \cup (IF acc[n] \in from THEN {acc[n].mem} ELSE {})
      <3>1. 1 .. n = (1 .. n - 1) \cup {n}
        OBVIOUS
      <3>2. QED
        BY <3>1
    <2> HIDE DEF rec
    <2>5. n \in 0 .. N
      OBVIOUS
    <2>6. QED
      BY <1>9, <2>2, <2>3, <2>4, <2>5
  <1> HIDE DEF good, rec
  <1>10. \A n \in 0 .. N : n \in good
    BY <1>8, <1>9, Counting
  <1>11. N \in good
    BY <1>10
  <1>12. Collect(item, from) = f[N] /\ ToSet(f[N]) = taken(N) /\ f[N] \in Seq(Mems)
    BY <1>4, <1>7, <1>11 DEF good
  <1>13. taken(N) = {a.mem : a \in AccessSet(item) \cap from}
    BY <1>1 DEF AccessSet
  <1>14. QED
    BY <1>12, <1>13

-----------------------------------------------------------------------------
(* The levels, as a relation between tasks and numbers.                    *)
In(levels, t, l) == l \in 1 .. Len(levels) /\ t \in ToSet(levels[l])

NoRepeats(s) == \A a, b \in 1 .. Len(s) : s[a] = s[b] => a = b

GrownBy(new, levels, u, p) ==
  \A l \in 1 .. Len(new) :
    \/ l \in 1 .. Len(levels) /\ new[l] = levels[l]
    \/ l = p /\ l \in 1 .. Len(levels) /\ new[l] = Append(levels[l], u)
    \/ l = p /\ new[l] = <<u>>

PlacedAt(new, levels, T, u, waits, p) ==
  /\ new \in Seq(Seq(T)) /\ p \in 1 .. Len(new)
  /\ Len(new) = Len(levels) \/ (Len(new) = Len(levels) + 1 /\ p = Len(new))
  /\ \A t, l : In(new, t, l) <=> In(levels, t, l) \/ (t = u /\ l = p)
  /\ \A t, l : In(levels, t, l) /\ t \in waits => l < p
  /\ GrownBy(new, levels, u, p)

LEMMA PlacedOnce ==
  ASSUME NEW T, NEW levels \in Seq(Seq(T)), NEW u \in T, NEW waits
  PROVE  PlacedAt(PlacedAfter(levels, u, waits), levels, T, u, waits, FirstLevelAfter(levels, waits))
  <1>1. PICK N \in Nat : N = Len(levels)
    OBVIOUS
  <1> DEFINE S == {0} \cup {l \in 1 .. N : \E t \in ToSet(levels[l]) : t \in waits}
  <1>2. PICK m \in S : \A y \in S : y <= m
    <2>1. S \in SUBSET (0 .. N) /\ S # {}
      OBVIOUS
    <2> HIDE DEF S
    <2>2. QED
      BY <2>1, LargestNumber
  <1>3. Max(S) = m
    <2>1. \A x \in S : x \in Nat
      OBVIOUS
    <2> HIDE DEF S
    <2>2. \A x \in S : (\A y \in S : x >= y) => x = m
      BY <1>2, <2>1
    <2>3. \A y \in S : m >= y
      BY <1>2, <2>1
    <2>4. QED
      BY <1>2, <2>2, <2>3 DEF Max
  <1>4. PICK p \in 1 .. N + 1 : p = 1 + m
    BY <1>2
  <1>5. FirstLevelAfter(levels, waits) = p
    BY <1>1, <1>3, <1>4 DEF FirstLevelAfter
  <1>6. ASSUME NEW t, NEW l, In(levels, t, l), t \in waits PROVE l < p
    <2>1. l \in S
      BY <1>1, <1>6 DEF In
    <2>2. QED
      BY <1>2, <1>4, <2>1
  <1>7. PICK new : new = Placed(levels, u, p)
    OBVIOUS
  <1>8. CASE p = N + 1
    <2>1. new = Append(levels, <<u>>) /\ <<u>> \in Seq(T) /\ ToSet(<<u>>) = {u}
      BY <1>1, <1>7, <1>8 DEF Placed, ToSet
    <2>2. new \in Seq(Seq(T)) /\ Len(new) = N + 1 /\ new[N + 1] = <<u>>
          /\ \A l \in 1 .. N : new[l] = levels[l]
      BY <1>1, <2>1
    <2>3. \A t, l : In(new, t, l) <=> In(levels, t, l) \/ (t = u /\ l = p)
      <3>1. 1 .. N + 1 = (1 .. N) \cup {N + 1}
        OBVIOUS
      <3>2. QED
        BY <1>1, <1>8, <2>1, <2>2, <3>1 DEF In
    <2>4. GrownBy(new, levels, u, p)
      BY <1>1, <1>8, <2>2 DEF GrownBy
    <2>5. QED
      BY <1>1, <1>5, <1>6, <1>7, <1>8, <2>2, <2>3, <2>4 DEF PlacedAt, PlacedAfter
  <1>9. CASE p \in 1 .. N
    <2>1. PICK s \in Seq(T) : s = levels[p]
      BY <1>1, <1>9
    <2>2. Append(s, u) \in Seq(T) /\ ToSet(Append(s, u)) = ToSet(s) \cup {u}
      BY AppendedSet
    <2>3. new = [levels EXCEPT ![p] = Append(s, u)]
      BY <1>1, <1>7, <1>9, <2>1 DEF Placed
    <2>4. new \in Seq(Seq(T)) /\ Len(new) = N /\ new[p] = Append(s, u)
          /\ \A l \in 1 .. N : l # p => new[l] = levels[l]
      BY <1>1, <1>9, <2>2, <2>3
    <2>5. \A t, l : In(new, t, l) <=> In(levels, t, l) \/ (t = u /\ l = p)
      <3>1. ASSUME NEW t, NEW l \in 1 .. N
            PROVE  t \in ToSet(new[l]) <=> t \in ToSet(levels[l]) \/ (t = u /\ l = p)
        <4>1. CASE l = p
          BY <2>1, <2>2, <2>4, <4>1
        <4>2. CASE l # p
          BY <2>4, <4>2
        <4>3. QED
          BY <4>1, <4>2
      <3>2. 1 .. Len(new) = 1 .. N /\ 1 .. Len(levels) = 1 .. N
        BY <1>1, <2>4
      <3>3. QED
        BY <1>9, <3>1, <3>2 DEF In
    <2>6. GrownBy(new, levels, u, p)
      BY <1>1, <1>9, <2>1, <2>4 DEF GrownBy
    <2>7. QED
      BY <1>1, <1>5, <1>6, <1>7, <1>9, <2>4, <2>5, <2>6 DEF PlacedAt, PlacedAfter
  <1>10. QED
    BY <1>4, <1>8, <1>9

(* Levels of the first n tasks: each of these is in one level, once, no    *)
(* level is empty, and a task is in a later one than the tasks it waits    *)
(* for.                                                                    *)
Sorted(levels, T, tasks, waitsFor, n) ==
  /\ levels \in Seq(Seq(T))
  /\ \A l \in 1 .. Len(levels) : (\E t : In(levels, t, l)) /\ NoRepeats(levels[l])
  /\ \A t : (\E l : In(levels, t, l)) <=> \E a \in 1 .. n : tasks[a] = t
  /\ \A t, l, m : In(levels, t, l) /\ In(levels, t, m) => l = m
  /\ \A a, b \in 1 .. n : a < b /\ tasks[a] \in waitsFor[tasks[b]] =>
       \A l, m : In(levels, tasks[a], l) /\ In(levels, tasks[b], m) => l < m

LEMMA SortedOneMore ==
  ASSUME NEW T, NEW tasks, NEW waitsFor, NEW n \in Nat \ {0}, NEW levels, NEW new,
         Sorted(levels, T, tasks, waitsFor, n - 1), NEW p,
         \A a \in 1 .. n - 1 : tasks[a] # tasks[n],
         PlacedAt(new, levels, T, tasks[n], waitsFor[tasks[n]], p)
  PROVE  Sorted(new, T, tasks, waitsFor, n)
  <1> DEFINE u == tasks[n]
  <1>1. new \in Seq(Seq(T))
    BY DEF PlacedAt
  <1>2. \A t, l : In(new, t, l) <=> In(levels, t, l) \/ (t = u /\ l = p)
    BY DEF PlacedAt
  <1>3. \A l : ~ In(levels, u, l)
    BY DEF Sorted
  <1>4. ASSUME NEW l \in 1 .. Len(new) PROVE \E t : In(new, t, l)
    <2>1. CASE l = p
      BY <1>2, <2>1
    <2>2. CASE l # p
      <3>1. l \in 1 .. Len(levels)
        <4>1. PICK N \in Nat, M \in Nat : N = Len(new) /\ M = Len(levels)
          BY DEF PlacedAt, Sorted
        <4>2. N = M \/ (N = M + 1 /\ p = N)
          BY <4>1 DEF PlacedAt
        <4>3. QED
          BY <2>2, <4>1, <4>2
      <3>2. PICK t : In(levels, t, l)
        BY <3>1 DEF Sorted
      <3>3. QED
        BY <1>2, <3>2
    <2>3. QED
      BY <2>1, <2>2
  <1>5. ASSUME NEW t PROVE (\E l : In(new, t, l)) <=> \E a \in 1 .. n : tasks[a] = t
    <2>1. 1 .. n = (1 .. n - 1) \cup {n}
      OBVIOUS
    <2>2. (\E l : In(new, t, l)) <=> (\E l : In(levels, t, l)) \/ t = u
      BY <1>2
    <2>3. (\E l : In(levels, t, l)) <=> \E a \in 1 .. n - 1 : tasks[a] = t
      BY DEF Sorted
    <2>4. QED
      BY <2>1, <2>2, <2>3
  <1>6. ASSUME NEW t, NEW l, NEW m, In(new, t, l), In(new, t, m) PROVE l = m
    <2>1. In(levels, t, l) /\ In(levels, t, m) => l = m
      BY DEF Sorted
    <2>2. QED
      BY <1>2, <1>3, <1>6, <2>1
  <1>7. ASSUME NEW a \in 1 .. n, NEW b \in 1 .. n, a < b, tasks[a] \in waitsFor[tasks[b]],
               NEW l, NEW m, In(new, tasks[a], l), In(new, tasks[b], m)
        PROVE  l < m
    <2>1. a \in 1 .. n - 1 /\ tasks[a] # u /\ In(levels, tasks[a], l)
      BY <1>2, <1>7
    <2>2. CASE b = n
      <3>1. m = p
        BY <1>2, <1>3, <1>7, <2>2
      <3>2. \A t, k : In(levels, t, k) /\ t \in waitsFor[tasks[n]] => k < p
        BY DEF PlacedAt
      <3>3. QED
        BY <1>7, <2>1, <2>2, <3>1, <3>2
    <2>3. CASE b # n
      <3>1. b \in 1 .. n - 1 /\ tasks[b] # u /\ In(levels, tasks[b], m)
        BY <1>2, <1>7, <2>3
      <3>2. QED
        BY <1>7, <2>1, <3>1 DEF Sorted
    <2>4. QED
      BY <2>2, <2>3
  <1>8. ASSUME NEW l \in 1 .. Len(new) PROVE NoRepeats(new[l])
    <2>1. CASE l \in 1 .. Len(levels) /\ new[l] = levels[l]
      BY <2>1 DEF Sorted
    <2>2. CASE l \in 1 .. Len(levels) /\ new[l] = Append(levels[l], u)
      <3>1. PICK s \in Seq(T) : s = levels[l]
        BY <2>2 DEF Sorted
      <3>2. PICK M \in Nat : M = Len(s)
        OBVIOUS
      <3>3. PICK grown : grown = Append(s, u)
        OBVIOUS
      <3>4. Len(grown) = M + 1 /\ grown[M + 1] = u /\ \A a \in 1 .. M : grown[a] = s[a]
        BY <3>2, <3>3
      <3>5. NoRepeats(s)
        BY <2>2, <3>1 DEF Sorted
      <3>6. \A a \in 1 .. M : s[a] # u
        BY <1>3, <2>2, <3>1, <3>2 DEF In, ToSet
      <3>7. \A a \in 1 .. M + 1 : a \in 1 .. M \/ a = M + 1
        OBVIOUS
      <3>8. NoRepeats(grown)
        BY <3>2, <3>4, <3>5, <3>6, <3>7 DEF NoRepeats
      <3>9. QED
        BY <2>2, <3>1, <3>3, <3>8
    <2>3. CASE new[l] = <<u>>
      BY <2>3 DEF NoRepeats
    <2>4. QED
      BY <2>1, <2>2, <2>3 DEF PlacedAt, GrownBy
  <1>9. QED
    BY <1>1, <1>4, <1>5, <1>6, <1>7, <1>8 DEF Sorted

LEMMA LevelsSorted ==
  ASSUME NEW T, NEW tasks \in Seq(T), NEW waitsFor,
         \A a, b \in 1 .. Len(tasks) : tasks[a] = tasks[b] => a = b
  PROVE  Sorted(PlaceInLevels(tasks, waitsFor), T, tasks, waitsFor, Len(tasks))
  <1>1. PICK N \in Nat : N = Len(tasks)
    OBVIOUS
  <1>2. \A n \in 1 .. N : tasks[n] \in T
    BY <1>1
  <1> DEFINE V == Seq(Seq(T))
             next(v, n) == PlacedAfter(v, tasks[n], waitsFor[tasks[n]])
             rec(f) == f = [n \in 0 .. N |-> IF n = 0 THEN <<>> ELSE next(f[n - 1], n)]
  <1>3. ASSUME NEW v \in V, NEW n \in 1 .. N
        PROVE  next(v, n) \in V
               /\ PlacedAt(next(v, n), v, T, tasks[n], waitsFor[tasks[n]],
                           FirstLevelAfter(v, waitsFor[tasks[n]]))
    <2>1. PlacedAt(next(v, n), v, T, tasks[n], waitsFor[tasks[n]],
                   FirstLevelAfter(v, waitsFor[tasks[n]]))
      BY <1>2, PlacedOnce
    <2>2. QED
      BY <2>1 DEF PlacedAt
  <1>4. PICK step \in [1 .. N -> [V -> V]] : step = [n \in 1 .. N |-> [v \in V |-> next(v, n)]]
    <2> HIDE DEF V, next
    <2>1. [n \in 1 .. N |-> [v \in V |-> next(v, n)]] \in [1 .. N -> [V -> V]]
      BY <1>3
    <2>2. QED
      BY <2>1
  <1>5. PICK f \in [0 .. N -> V] : f[0] = <<>> /\ \A n \in 1 .. N : f[n] = step[n][f[n - 1]]
    <2>1. <<>> \in V
      OBVIOUS
    <2> HIDE DEF V, next
    <2>2. \E f : Iterates(f, V, <<>>, N, step)
      BY <2>1, Iterated, Zenon
    <2>3. QED
      BY <2>2 DEF Iterates
  <1> HIDE DEF V
  <1>6. ASSUME NEW n \in 1 .. N PROVE n - 1 \in 0 .. N /\ f[n - 1] \in V /\ f[n] = next(f[n - 1], n)
    <2>1. n - 1 \in 0 .. N
      OBVIOUS
    <2>2. f[n - 1] \in V /\ f[n] = step[n][f[n - 1]]
      BY <1>5, <2>1
    <2> HIDE DEF next
    <2>3. step[n] = [v \in V |-> next(v, n)]
      BY <1>4
    <2>4. step[n][f[n - 1]] = next(f[n - 1], n)
      BY <2>2, <2>3, Zenon
    <2>5. QED
      BY <2>1, <2>2, <2>4
  <1> DEFINE levels == CHOOSE g : rec(g)
  <1>7. rec(levels)
    <2>1. rec([n \in 0 .. N |-> f[n]])
      BY <1>5, <1>6
    <2> HIDE DEF rec
    <2>2. QED
      BY <2>1
  <1>8. PlaceInLevels(tasks, waitsFor) = levels[N]
    BY <1>1 DEF PlaceInLevels
  <1> HIDE DEF levels
  <1> DEFINE good == {n \in 0 .. N : levels[n] = f[n] /\ Sorted(f[n], T, tasks, waitsFor, n)}
  <1>9. 0 \in good
    <2>1. levels[0] = <<>>
      BY <1>7
    <2>2. Sorted(<<>>, T, tasks, waitsFor, 0)
      BY DEF Sorted, In
    <2>3. QED
      BY <1>5, <2>1, <2>2
  <1>10. ASSUME NEW n \in 1 .. N, n - 1 \in good PROVE n \in good
    <2>1. levels[n] = next(levels[n - 1], n)
      BY <1>7
    <2>2. f[n - 1] \in V /\ f[n] = next(f[n - 1], n) /\ levels[n - 1] = f[n - 1]
          /\ Sorted(f[n - 1], T, tasks, waitsFor, n - 1)
      BY <1>6, <1>10
    <2>3. PlacedAt(f[n], f[n - 1], T, tasks[n], waitsFor[tasks[n]],
                   FirstLevelAfter(f[n - 1], waitsFor[tasks[n]]))
      BY <1>3, <2>2
    <2>4. \A a \in 1 .. n - 1 : tasks[a] # tasks[n]
      <3>1. ASSUME NEW a \in 1 .. n - 1 PROVE tasks[a] # tasks[n]
        <4>1. a \in 1 .. N /\ n \in 1 .. N /\ a # n
          OBVIOUS
        <4>2. QED
          BY <1>1, <4>1
      <3>2. QED
        BY <3>1
    <2>5. n \in Nat \ {0}
      OBVIOUS
    <2> HIDE DEF next, rec
    <2>6. Sorted(f[n], T, tasks, waitsFor, n)
      BY <2>2, <2>3, <2>4, <2>5, SortedOneMore
    <2>7. n \in 0 .. N
      OBVIOUS
    <2>8. QED
      BY <2>1, <2>2, <2>6, <2>7
  <1> HIDE DEF good, rec, next
  <1>11. \A n \in 0 .. N : n \in good
    BY <1>9, <1>10, Counting
  <1>12. N \in good
    BY <1>11
  <1>13. QED
    BY <1>1, <1>8, <1>12 DEF good

-----------------------------------------------------------------------------
LEMMA SumsAdd ==
  ASSUME NEW f \in [Nodes -> Nat]
  PROVE  /\ RunningSums(f) \in [0 .. NumNodes -> Nat] /\ RunningSums(f)[0] = 0
         /\ \A n \in 1 .. NumNodes : RunningSums(f)[n] = RunningSums(f)[n - 1] + f[n - 1]
  <1>1. PICK N \in Nat : N = NumNodes
    BY WeightAssumption
  <1>2. \A n \in 1 .. N : f[n - 1] \in Nat
    BY <1>1 DEF Nodes
  <1> DEFINE rec(g) == g = [n \in 0 .. N |-> IF n = 0 THEN 0 ELSE g[n - 1] + f[n - 1]]
  <1>3. PICK step \in [1 .. N -> [Nat -> Nat]] :
          step = [n \in 1 .. N |-> [v \in Nat |-> v + f[n - 1]]]
    <2>1. [n \in 1 .. N |-> [v \in Nat |-> v + f[n - 1]]] \in [1 .. N -> [Nat -> Nat]]
      BY <1>2
    <2>2. QED
      BY <2>1
  <1>4. PICK g \in [0 .. N -> Nat] : g[0] = 0 /\ \A n \in 1 .. N : g[n] = step[n][g[n - 1]]
    <2>1. 0 \in Nat
      OBVIOUS
    <2>2. \E g : Iterates(g, Nat, 0, N, step)
      BY <2>1, Iterated, Zenon
    <2>3. QED
      BY <2>2 DEF Iterates
  <1>5. ASSUME NEW n \in 1 .. N PROVE n - 1 \in 0 .. N /\ g[n] = g[n - 1] + f[n - 1]
    <2>1. n - 1 \in 0 .. N
      OBVIOUS
    <2>2. g[n - 1] \in Nat /\ g[n] = step[n][g[n - 1]]
      BY <1>4, <2>1
    <2>3. step[n] = [v \in Nat |-> v + f[n - 1]]
      BY <1>3
    <2>4. step[n][g[n - 1]] = g[n - 1] + f[n - 1]
      BY <2>2, <2>3, Zenon
    <2>5. QED
      BY <2>1, <2>2, <2>4
  <1> DEFINE sum == CHOOSE h : rec(h)
  <1>6. rec(sum)
    <2>1. rec([n \in 0 .. N |-> g[n]])
      BY <1>4, <1>5
    <2> HIDE DEF rec
    <2>2. QED
      BY <2>1
  <1>7. RunningSums(f) = sum
    BY <1>1 DEF RunningSums
  <1> HIDE DEF sum
  <1> DEFINE good == {n \in 0 .. N : sum[n] = g[n]}
  <1>8. 0 \in good
    BY <1>4, <1>6
  <1>9. ASSUME NEW n \in 1 .. N, n - 1 \in good PROVE n \in good
    <2>1. sum[n] = sum[n - 1] + f[n - 1]
      <3>1. n \in 0 .. N /\ n # 0
        OBVIOUS
      <3>2. QED
        BY <1>6, <3>1
    <2>2. QED
      BY <1>5, <1>9, <2>1
  <1> HIDE DEF good
  <1>10. \A n \in 0 .. N : n \in good
    BY <1>8, <1>9, Counting
  <1>11. \A n \in 0 .. N : sum[n] = g[n]
    BY <1>10 DEF good
  <1>12. sum = g
    <2>1. sum = [n \in 0 .. N |-> sum[n]]
      BY <1>6
    <2> HIDE DEF rec
    <2>2. QED
      BY <1>11, <2>1
  <1>13. QED
    BY <1>1, <1>4, <1>5, <1>7, <1>12

LEMMA ShardsAreRanges ==
  ASSUME NEW loop, loop.lb \in Nat, loop.ub \in Nat, loop.lb <= loop.ub, NEW n \in Nodes
  PROVE  Start(loop, n) \in Nat /\ Chunk(loop, n) \in Nat
  <1>1. PICK total \in Nat : total = loop.ub - loop.lb
    OBVIOUS
  <1>2. PICK all \in Nat \ {0} : all = WeightSum
    <2>1. Weight \in [Nodes -> Nat]
      BY WeightAssumption
    <2> DEFINE sums == RunningSums(Weight)
               good == {m \in 0 .. NumNodes : m = 0 \/ sums[m] > 0}
    <2>2. /\ sums \in [0 .. NumNodes -> Nat] /\ sums[0] = 0
          /\ \A m \in 1 .. NumNodes : sums[m] = sums[m - 1] + Weight[m - 1]
      BY <2>1, SumsAdd
    <2>3. 0 \in good
      BY WeightAssumption
    <2> HIDE DEF sums
    <2>4. ASSUME NEW m \in 1 .. NumNodes PROVE m \in good
      <3>1. m - 1 \in Nodes /\ m - 1 \in 0 .. NumNodes /\ m \in 0 .. NumNodes
        BY WeightAssumption DEF Nodes
      <3>2. Weight[m - 1] \in Nat \ {0} /\ sums[m - 1] \in Nat
        BY <2>2, <3>1, WeightAssumption
      <3>3. sums[m] > 0
        BY <2>2, <3>2
      <3>4. QED
        BY <3>1, <3>3
    <2>5. NumNodes \in 1 .. NumNodes /\ NumNodes \in 0 .. NumNodes /\ NumNodes # 0
      BY WeightAssumption
    <2>6. sums[NumNodes] \in Nat \ {0}
      BY <2>2, <2>4, <2>5
    <2>7. QED
      BY <2>6 DEF WeightSum, sums
  <1>3. ASSUME NEW d \in Nodes PROVE BaseChunk(loop, d) \in Nat
    <2>1. PICK w \in Nat : w = Weight[d]
      BY WeightAssumption
    <2>2. w * total \in Nat
      OBVIOUS
    <2>3. PICK x \in Nat : x = w * total
      BY <2>2
    <2>4. x \div all \in Nat
      OBVIOUS
    <2>5. QED
      BY <1>1, <1>2, <2>1, <2>3, <2>4 DEF BaseChunk
  <1>4. ASSUME NEW d \in Nodes PROVE Chunk(loop, d) \in Nat
    BY <1>3 DEF Chunk
  <1>5. Start(loop, n) \in Nat
    <2>1. [m \in Nodes |-> Chunk(loop, m)] \in [Nodes -> Nat]
      BY <1>4
    <2>2. n \in 0 .. NumNodes
      BY WeightAssumption DEF Nodes
    <2>3. RunningSums([m \in Nodes |-> Chunk(loop, m)])[n] \in Nat
      BY <2>1, <2>2, SumsAdd
    <2>4. QED
      BY <2>3 DEF Start
  <1>6. QED
    BY <1>4, <1>5

-----------------------------------------------------------------------------
TaskSet(prog) == {Task(prog, k, n) : k \in Parallel(prog), n \in Nodes}

LEMMA TaskFields ==
  ASSUME NEW prog, NEW t \in TaskSet(prog)
  PROVE  /\ t.item \in Parallel(prog) /\ t.target \in Nodes
         /\ t = Task(prog, t.item, t.target)
  <1>1. PICK k \in Parallel(prog), n \in Nodes : t = Task(prog, k, n)
    BY DEF TaskSet
  <1>2. t.item = k /\ t.target = n
    BY <1>1 DEF Task
  <1>3. QED
    BY <1>1, <1>2

(* All tasks are listed, in the order of the items, each of them once.     *)
LEMMA TasksInOrder ==
  ASSUME NEW prog, WellFormed(prog)
  PROVE  /\ Tasks(prog) \in Seq(TaskSet(prog))
         /\ \A a, b \in 1 .. Len(Tasks(prog)) :
              /\ Tasks(prog)[a] = Tasks(prog)[b] => a = b
              /\ a < b => Tasks(prog)[a].item <= Tasks(prog)[b].item
         /\ \A t \in TaskSet(prog) : \E a \in 1 .. Len(Tasks(prog)) : Tasks(prog)[a] = t
  <1>1. PICK N \in Nat, M \in Nat : N = Len(prog.items) /\ M = NumNodes
    BY WeightAssumption DEF WellFormed
  <1> DEFINE S == TaskSet(prog)
             shards(i) == [n \in 1 .. M |-> Task(prog, i, n - 1)]
             parts == [i \in 1 .. N |-> IF i \in Parallel(prog) THEN shards(i) ELSE <<>>]
  <1>2. ASSUME NEW i \in 1 .. N
        PROVE  /\ parts[i] \in Seq(S)
               /\ \A j \in 1 .. Len(parts[i]) :
                    j - 1 \in Nodes /\ parts[i][j] = Task(prog, i, j - 1)
               /\ i \in Parallel(prog) => Len(parts[i]) = M
    <2>1. CASE i \in Parallel(prog)
      <3>1. \A n \in 1 .. M : n - 1 \in Nodes
        BY <1>1 DEF Nodes
      <3>2. \A n \in 1 .. M : Task(prog, i, n - 1) \in S
        BY <2>1, <3>1 DEF TaskSet
      <3>3. shards(i) \in Seq(S) /\ Len(shards(i)) = M
            /\ \A n \in 1 .. M : shards(i)[n] = Task(prog, i, n - 1)
        <4> HIDE DEF S
        <4>1. QED
          BY <3>2
      <3>4. QED
        BY <2>1, <3>1, <3>3
    <2>2. CASE i \notin Parallel(prog)
      BY <2>2
    <2>3. QED
      BY <2>1, <2>2
  <1>3. PICK ps \in Seq(Seq(S)) : ps = parts /\ Len(ps) = N
    <2> HIDE DEF S
    <2>1. parts \in Seq(Seq(S)) /\ Len(parts) = N
      BY <1>2
    <2> HIDE DEF parts
    <2>2. QED
      BY <2>1
  <1>4. Tasks(prog) = FlattenSeq(ps)
    BY <1>1, <1>3 DEF Tasks
  <1> HIDE DEF parts, S
  <1>5a. PICK code \in Seq(S) : code = FlattenSeq(ps) /\ \E off : LaidOut(code, ps, off)
    BY Layout
  <1>5. PICK off : code = FlattenSeq(ps) /\ LaidOut(code, ps, off)
    BY <1>5a
  <1>6. ASSUME NEW a \in 1 .. Len(code), NEW i, NEW j, At(code, ps, off, a, i, j)
        PROVE  i \in 1 .. N /\ j \in Int /\ a = off[i - 1] + j /\ code[a] = Task(prog, i, j - 1)
    BY <1>2, <1>3, <1>6 DEF At
  <1>7. ASSUME NEW a \in 1 .. Len(code) PROVE \E i, j : At(code, ps, off, a, i, j)
    BY <1>5, PlaceFound
  <1>8. ASSUME NEW a \in 1 .. Len(code), NEW b \in 1 .. Len(code)
        PROVE  (code[a] = code[b] => a = b) /\ (a < b => code[a].item <= code[b].item)
    <2>1. PICK i, j : At(code, ps, off, a, i, j)
      BY <1>7
    <2>2. PICK m, k : At(code, ps, off, b, m, k)
      BY <1>7
    <2>3. /\ code[a].item = i /\ code[a].target = j - 1
          /\ code[b].item = m /\ code[b].target = k - 1
      <3>1. code[a] = Task(prog, i, j - 1) /\ code[b] = Task(prog, m, k - 1)
        BY <1>6, <2>1, <2>2
      <3>2. QED
        BY <3>1 DEF Task
    <2>4. a < b => i < m \/ (i = m /\ j < k)
      BY <1>5, <2>1, <2>2, PlacesInOrder
    <2>5. code[a] = code[b] => a = b
      <3>1. code[a] = code[b] => i = m /\ j - 1 = k - 1
        BY <2>3
      <3>2. /\ i \in Int /\ j \in Int /\ a = off[i - 1] + j
            /\ m \in Int /\ k \in Int /\ b = off[m - 1] + k
        BY <1>6, <2>1, <2>2
      <3>3. j - 1 = k - 1 => j = k
        BY <3>2
      <3>4. QED
        BY <3>1, <3>2, <3>3
    <2>6. i \in 1 .. N /\ m \in 1 .. N
      BY <1>6, <2>1, <2>2
    <2>7. QED
      BY <2>3, <2>4, <2>5, <2>6
  <1>9. ASSUME NEW t \in TaskSet(prog) PROVE \E a \in 1 .. Len(code) : code[a] = t
    <2>1. t.item \in Parallel(prog) /\ t.target \in Nodes /\ t = Task(prog, t.item, t.target)
      BY TaskFields
    <2>2. PICK i \in 1 .. N, j \in 1 .. M : i = t.item /\ j - 1 = t.target
      <3>1. t.item \in 1 .. N
        BY <1>1, <2>1 DEF Parallel, Items
      <3>2. PICK n \in 0 .. M - 1 : n = t.target
        BY <1>1, <2>1 DEF Nodes
      <3>3. PICK j \in 1 .. M : j = n + 1
        BY <3>2
      <3>4. j - 1 = t.target
        BY <3>2, <3>3
      <3>5. QED
        BY <3>1, <3>4, Zenon
    <2>3. i \in 1 .. Len(ps) /\ j \in 1 .. Len(ps[i]) /\ ps[i][j] = t
      BY <1>2, <1>3, <2>1, <2>2
    <2>4. At(code, ps, off, off[i - 1] + j, i, j) /\ off[i - 1] + j \in 1 .. Len(code)
      BY <1>5, <2>3, PartPlaced
    <2>5. QED
      BY <2>3, <2>4 DEF At
  <1>10. QED
    BY <1>4, <1>5, <1>8, <1>9 DEF S

-----------------------------------------------------------------------------
(* No task is in a level before that of a task of an earlier item it       *)
(* depends on.                                                             *)
LEMMA LevelsInOrder ==
  ASSUME NEW prog, WellFormed(prog),
         NEW t, NEW l, In(LevelVector(prog), t, l),
         NEW u, NEW m, In(LevelVector(prog), u, m),
         t.item < u.item, DependsOn(prog, t, u)
  PROVE  l < m
  <1> DEFINE T == Tasks(prog)
             S == ToSet(T)
             waits == [w \in S |-> {v \in S : DependsOn(prog, v, w)}]
             N == Len(T)
  <1>1. T \in Seq(TaskSet(prog))
    BY TasksInOrder
  <1>2. \A a, b \in 1 .. N : /\ T[a] = T[b] => a = b
                             /\ a < b => T[a].item <= T[b].item
    BY TasksInOrder
  <1>3. Sorted(PlaceInLevels(T, waits), TaskSet(prog), T, waits, N)
    <2> HIDE DEF waits, T
    <2>1. QED
      BY <1>1, <1>2, LevelsSorted
  <1>4. LevelVector(prog) = PlaceInLevels(T, waits)
    BY DEF LevelVector
  <1>5. PICK a \in 1 .. N : T[a] = t
    <2> HIDE DEF waits, T, N
    <2>1. QED
      BY <1>3, <1>4 DEF Sorted
  <1>6. PICK b \in 1 .. N : T[b] = u
    <2> HIDE DEF waits, T, N
    <2>1. QED
      BY <1>3, <1>4 DEF Sorted
  <1>7. DOMAIN T = 1 .. N /\ N \in Nat
    <2> HIDE DEF T
    <2>1. QED
      BY <1>1
  <1>8. t \in S /\ u \in S /\ t \in TaskSet(prog) /\ u \in TaskSet(prog)
    <2> HIDE DEF T
    <2>1. QED
      BY <1>1, <1>5, <1>6, <1>7 DEF ToSet
  <1>9. t.item \in Int /\ u.item \in Int
    BY <1>8, TaskFields DEF Parallel, Items
  <1>10. a < b
    <2>1. ~ (u.item <= t.item)
      BY <1>9
    <2>2. ~ (b < a)
      BY <1>2, <1>5, <1>6, <2>1
    <2>3. a # b
      BY <1>5, <1>6, <1>9
    <2> HIDE DEF N, T
    <2>4. QED
      BY <1>7, <2>2, <2>3
  <1>11. T[a] \in waits[T[b]]
    BY <1>5, <1>6, <1>8
  <1>12. QED
    <2> HIDE DEF waits, T, N
    <2>1. QED
      BY <1>3, <1>4, <1>5, <1>6, <1>10, <1>11 DEF Sorted

LEMMA LevelsOfTasks ==
  ASSUME NEW prog, WellFormed(prog)
  PROVE  /\ LevelVector(prog) \in Seq(Seq(TaskSet(prog)))
         /\ \A t, l : In(LevelVector(prog), t, l) => t \in TaskSet(prog)
         /\ \A t \in TaskSet(prog) : \E l : In(LevelVector(prog), t, l)
         /\ \A t, l, m : In(LevelVector(prog), t, l) /\ In(LevelVector(prog), t, m) => l = m
         /\ \A l \in 1 .. Len(LevelVector(prog)) : NoRepeats(LevelVector(prog)[l])
  <1> DEFINE T == Tasks(prog)
             S == ToSet(T)
             waits == [w \in S |-> {v \in S : DependsOn(prog, v, w)}]
  <1>1. /\ T \in Seq(TaskSet(prog)) /\ \A a, b \in 1 .. Len(T) : T[a] = T[b] => a = b
        /\ \A t \in TaskSet(prog) : \E a \in 1 .. Len(T) : T[a] = t
    BY TasksInOrder
  <1>2. Sorted(PlaceInLevels(T, waits), TaskSet(prog), T, waits, Len(T))
    <2> HIDE DEF waits, T
    <2>1. QED
      BY <1>1, LevelsSorted
  <1>3. LevelVector(prog) = PlaceInLevels(T, waits)
    BY DEF LevelVector
  <1> HIDE DEF waits, T
  <1>4. PICK L \in Seq(Seq(TaskSet(prog))) : L = LevelVector(prog)
    BY <1>2, <1>3 DEF Sorted
  <1>5. ASSUME NEW t, NEW l, In(L, t, l) PROVE t \in TaskSet(prog)
    <2>1. L[l] \in Seq(TaskSet(prog)) /\ t \in ToSet(L[l])
      BY <1>5 DEF In
    <2>2. QED
      BY <2>1 DEF ToSet
  <1>6. /\ \A t \in TaskSet(prog) : \E l : In(L, t, l)
        /\ \A t, l, m : In(L, t, l) /\ In(L, t, m) => l = m
        /\ \A l \in 1 .. Len(L) : NoRepeats(L[l])
    <2>1. /\ \A t : (\E l : In(L, t, l)) <=> \E a \in 1 .. Len(T) : T[a] = t
          /\ \A t, l, m : In(L, t, l) /\ In(L, t, m) => l = m
          /\ \A l \in 1 .. Len(L) : NoRepeats(L[l])
      BY <1>2, <1>3, <1>4 DEF Sorted
    <2>2. ASSUME NEW t \in TaskSet(prog) PROVE \E l : In(L, t, l)
      BY <1>1, <2>1, Zenon
    <2>3. QED
      BY <2>1, <2>2, Zenon
  <1>7. QED
    BY <1>4, <1>5, <1>6

(* Parallel items j and k of one emission group have only parallel items   *)
(* between them, all inside the loop or all outside of it.                 *)
OneBlock(prog, j, k) ==
  \A i \in j .. k : i \in Parallel(prog) /\ InLoop(prog, i) = InLoop(prog, k)

LEMMA GroupStart ==
  ASSUME NEW prog, NEW k \in Parallel(prog), k \in Nat \ {0}
  PROVE  EmissionGroup(prog, k) \in 1 .. k /\ OneBlock(prog, EmissionGroup(prog, k), k)
  <1> DEFINE S == {j \in 1 .. k : \A i \in j .. k : /\ i \in Parallel(prog)
                                                    /\ InLoop(prog, i) = InLoop(prog, k)}
  <1>1. k \in S
    OBVIOUS
  <1>2. S \in SUBSET Nat
    OBVIOUS
  <1>3. PICK g \in S : \A y \in S : g <= y
    <2> HIDE DEF S
    <2>1. QED
      BY <1>1, <1>2, LeastNumber
  <1>4. Min(S) \in S
    <2> HIDE DEF S
    <2>1. QED
      BY <1>3 DEF Min
  <1>5. EmissionGroup(prog, k) = Min(S)
    BY DEF EmissionGroup
  <1>6. QED
    BY <1>4, <1>5 DEF OneBlock

LEMMA GroupIsBlock ==
  ASSUME NEW prog, NEW j \in Parallel(prog), NEW k \in Parallel(prog),
         EmissionGroup(prog, j) = EmissionGroup(prog, k), j \in Nat \ {0}, k \in Nat \ {0}
  PROVE  OneBlock(prog, j, k)
  <1>1. EmissionGroup(prog, k) \in 1 .. j /\ OneBlock(prog, EmissionGroup(prog, k), k)
    BY GroupStart
  <1>2. j .. k \subseteq EmissionGroup(prog, k) .. k
    BY <1>1
  <1>3. QED
    BY <1>1, <1>2 DEF OneBlock

(* A level is released at an item of the group of each of its tasks, at    *)
(* that of the task or after.                                              *)
LEMMA ReleasedInGroup ==
  ASSUME NEW prog, WellFormed(prog), NEW t, NEW l, In(LevelVector(prog), t, l)
  PROVE  /\ ReleasedAt(LevelVector(prog), l) \in Parallel(prog)
         /\ t.item <= ReleasedAt(LevelVector(prog), l)
         /\ OneBlock(prog, t.item, ReleasedAt(LevelVector(prog), l))
         /\ \A u, m : In(LevelVector(prog), u, m) /\ m <= l =>
              u.item <= ReleasedAt(LevelVector(prog), l)
         /\ \E u, m : /\ In(LevelVector(prog), u, m) /\ m <= l
                      /\ u.item = ReleasedAt(LevelVector(prog), l)
  <1> DEFINE L == LevelVector(prog)
             S == {u.item : u \in UNION {ToSet(L[j]) : j \in 1 .. l}}
  <1>1. L \in Seq(Seq(TaskSet(prog))) /\ \A u, m : In(L, u, m) => u \in TaskSet(prog)
    BY LevelsOfTasks
  <1>2. l \in 1 .. Len(L) /\ Len(L) \in Nat
    <2> HIDE DEF L
    <2>1. QED
      BY <1>1 DEF In, L
  <1>3. PICK N \in Nat : N = Len(prog.items)
    BY DEF WellFormed
  <1>4. ASSUME NEW x \in S PROVE \E u, m : m \in 1 .. l /\ In(L, u, m) /\ u.item = x
    <2> HIDE DEF L
    <2>1. PICK j \in 1 .. l : \E u \in ToSet(L[j]) : u.item = x
      OBVIOUS
    <2>2. j \in 1 .. Len(L)
      BY <1>2
    <2>3. QED
      BY <2>1, <2>2 DEF In
  <1>5. \A u, m : m \in 1 .. l /\ In(L, u, m) => u.item \in S
    BY DEF In
  <1> HIDE DEF S
  <1>6. S \in SUBSET Parallel(prog) /\ S \in SUBSET (0 .. N)
    <2>1. ASSUME NEW x \in S PROVE x \in Parallel(prog)
      <3>1. PICK u, m : In(L, u, m) /\ u.item = x
        BY <1>4
      <3>2. u \in TaskSet(prog)
        BY <1>1, <3>1
      <3>3. QED
        BY <3>1, <3>2, TaskFields
    <2>2. Parallel(prog) \subseteq 0 .. N
      BY <1>3 DEF Parallel, Items
    <2>3. QED
      BY <2>1, <2>2
  <1>7. t.item \in S
    BY <1>2, <1>5
  <1>8. PICK k \in S : \A y \in S : y <= k
    BY <1>6, <1>7, LargestNumber
  <1>9. Max(S) \in S /\ \A y \in S : y <= Max(S)
    <2>1. \A x, y \in S : x >= y <=> y <= x
      BY <1>6
    <2>2. \A y \in S : k >= y
      BY <1>8, <2>1
    <2>3. Max(S) \in S /\ \A y \in S : Max(S) >= y
      BY <2>2 DEF Max
    <2>4. QED
      BY <2>1, <2>3
  <1>10. PICK r \in S : r = ReleasedAt(L, l) /\ \A y \in S : y <= r
    BY <1>9 DEF ReleasedAt, S
  <1>11. OneBlock(prog, t.item, r)
    <2>1. PICK u, m : m \in 1 .. l /\ In(L, u, m) /\ u.item = r
      BY <1>4
    <2>2. /\ t.item \in Parallel(prog) /\ r \in Parallel(prog)
          /\ t.item \in Nat \ {0} /\ r \in Nat \ {0} /\ t.item <= r
      <3>1. Parallel(prog) \subseteq Nat \ {0}
        BY <1>3 DEF Parallel, Items
      <3>2. QED
        BY <1>6, <1>7, <1>10, <3>1
    <2>3. CASE EmissionGroup(prog, t.item) = EmissionGroup(prog, r)
      BY <2>2, <2>3, GroupIsBlock
    <2>4. CASE EmissionGroup(prog, t.item) # EmissionGroup(prog, r)
      <3>1. t.item < r
        BY <2>2, <2>4
      <3>2. DependsOn(prog, t, u)
        BY <2>1, <2>4 DEF DependsOn
      <3>3. l < m
        BY <2>1, <3>1, <3>2, LevelsInOrder
      <3>4. QED
        BY <1>2, <2>1, <3>3
    <2>5. QED
      BY <2>3, <2>4
  <1>12. ASSUME NEW u, NEW m, In(L, u, m), m <= l PROVE u.item <= r
    <2>1. m \in 1 .. l
      BY <1>2, <1>12 DEF In
    <2>2. QED
      BY <1>5, <1>10, <1>12, <2>1
  <1>13. \E u, m : In(L, u, m) /\ m <= l /\ u.item = r
    <2>1. PICK u, m : m \in 1 .. l /\ In(L, u, m) /\ u.item = r
      BY <1>4
    <2>2. m <= l
      BY <1>2, <2>1
    <2>3. QED
      BY <2>1, <2>2, Zenon
  <1>14. QED
    BY <1>6, <1>7, <1>10, <1>11, <1>12, <1>13

-----------------------------------------------------------------------------
Stretch(a, b) == [k \in 1 .. b - a + 1 |-> a + k - 1]

Numbers(s, a, n, S) ==
  s \in Seq(S) /\ Len(s) = n /\ \A k \in 1 .. n : s[k] = a + k - 1

Junction(u, s, t, S) ==
  /\ u \in Seq(S) /\ Len(u) = Len(s) + Len(t)
  /\ \A i \in 1 .. Len(s) : u[i] = s[i]
  /\ \A j \in 1 .. Len(t) : u[Len(s) + j] = t[j]

LEMMA Joins ==
  ASSUME NEW S, NEW s \in Seq(S), NEW t \in Seq(S)
  PROVE  Junction(s \o t, s, t, S)
  BY Joined DEF Junction

LEMMA StretchIs ==
  ASSUME NEW S, NEW a \in Int, NEW b \in Int, NEW n \in Nat, n = b - a + 1, a .. b \subseteq S
  PROVE  Numbers(Stretch(a, b), a, n, S)
  <1>1. n = b - a + 1
    OBVIOUS
  <1>2. \A k \in 1 .. n : a + k - 1 \in S
    <2>1. TAKE k \in 1 .. n
    <2>2. a + k - 1 \in a .. b
      OBVIOUS
    <2>3. QED
      BY <2>2
  <1>3. Stretch(a, b) = [k \in 1 .. n |-> a + k - 1]
    BY <1>1 DEF Stretch
  <1>4. [k \in 1 .. n |-> a + k - 1] \in Seq(S) /\ Len([k \in 1 .. n |-> a + k - 1]) = n
    BY <1>2
  <1>5. QED
    BY <1>1, <1>3, <1>4 DEF Numbers

(* The items next to that at step s, on the same side of the loop's        *)
(* borders, are run at the steps next to it.                               *)
Follows(prog, trace) ==
  \A s \in 1 .. Len(trace), d \in {-1, 1} :
    trace[s] + d \in Items(prog) /\ InLoop(prog, trace[s] + d) = InLoop(prog, trace[s]) =>
      s + d \in 1 .. Len(trace) /\ trace[s + d] = trace[s] + d

LEMMA TraceFollows ==
  ASSUME NEW prog, WellFormed(prog)
  PROVE  Trace(prog) \in Seq(Items(prog)) /\ Follows(prog, Trace(prog))
  <1>1. PICK N \in Nat : N = Len(prog.items)
    BY DEF WellFormed
  <1>2. PICK S : S = 1 .. N /\ S = Items(prog)
    BY <1>1 DEF Items
  <1>3. PICK first \in Int, last \in Int, trip \in Nat :
          first = prog.first /\ last = prog.last /\ trip = prog.trip
    BY DEF WellFormed
  <1>4. first .. last \subseteq 1 .. N /\ \A k : InLoop(prog, k) <=> k \in first .. last
    BY <1>2, <1>3 DEF WellFormed, InLoop
  <1>5. CASE first .. last = {}
    <2>1. Trace(prog) = Stretch(1, N)
      BY <1>1, <1>3, <1>5 DEF Trace, Stretch
    <2>2. /\ Stretch(1, N) \in Seq(S) /\ Len(Stretch(1, N)) = N
          /\ \A k \in 1 .. N : Stretch(1, N)[k] = k
      <3>1. 1 .. N \subseteq 1 .. N /\ N = N - 1 + 1 /\ \A k \in 1 .. N : 1 + k - 1 = k
        OBVIOUS
      <3>2. PICK a \in Int : a = 1
        OBVIOUS
      <3>3. N \in Int /\ N = N - a + 1 /\ a .. N \subseteq 1 .. N
        BY <3>1, <3>2
      <3>4. a .. N \subseteq S
        BY <1>2, <3>3
      <3>5. Numbers(Stretch(a, N), a, N, S)
        BY <3>3, <3>4, StretchIs, Zenon
      <3>6. QED
        BY <3>1, <3>2, <3>5 DEF Numbers
    <2>3. PICK trace \in Seq(S) : trace = Trace(prog) /\ Len(trace) = N
                                       /\ \A k \in 1 .. N : trace[k] = k
      BY <2>1, <2>2
    <2>4. Follows(prog, trace)
      BY <1>2, <2>3 DEF Follows
    <2>5. QED
      BY <1>2, <2>3, <2>4
  <1>6. CASE first .. last # {}
    <2>1. 1 <= first /\ first <= last /\ last <= N
      <3>1. first <= last
        BY <1>6
      <3>2. first \in first .. last /\ last \in first .. last
        BY <3>1
      <3>3. QED
        BY <1>4, <3>1, <3>2
    <2>2. PICK A \in Seq(S) : A = Stretch(1, first - 1) /\ Len(A) = first - 1
                                   /\ \A k \in 1 .. first - 1 : A[k] = k
      <3>1. PICK x \in Int, y \in Nat : x = 1 /\ y = first - 1
        BY <2>1
      <3>2. y \in Int /\ y = y - x + 1 /\ x .. y \subseteq S
        BY <1>2, <2>1, <3>1
      <3>3. /\ Stretch(x, y) \in Seq(S) /\ Len(Stretch(x, y)) = y
            /\ \A k \in 1 .. y : Stretch(x, y)[k] = x + k - 1
        <4>1. Numbers(Stretch(x, y), x, y, S)
          BY <3>1, <3>2, StretchIs, Zenon
        <4>2. QED
          BY <4>1 DEF Numbers
      <3>4. \A k \in 1 .. y : Stretch(x, y)[k] = k
        BY <3>1, <3>3
      <3>5. QED
        BY <3>1, <3>3, <3>4
    <2>3. PICK C \in Seq(S) : C = Stretch(last + 1, N) /\ Len(C) = N - last
                                   /\ \A k \in 1 .. N - last : C[k] = last + k
      <3>1. PICK x \in Int, n \in Nat : x = last + 1 /\ n = N - last
        BY <2>1
      <3>2. N \in Int /\ n = N - x + 1 /\ x .. N \subseteq S
        BY <1>2, <2>1, <3>1
      <3>3. /\ Stretch(x, N) \in Seq(S) /\ Len(Stretch(x, N)) = n
            /\ \A k \in 1 .. n : Stretch(x, N)[k] = x + k - 1
        <4>1. Numbers(Stretch(x, N), x, n, S)
          BY <3>1, <3>2, StretchIs, Zenon
        <4>2. QED
          BY <4>1 DEF Numbers
      <3>4. \A k \in 1 .. n : x + k - 1 = last + k
        BY <3>1
      <3>5. QED
        BY <3>1, <3>3, <3>4
    <2>4. PICK turn \in Seq(S) :
            turn = Stretch(first, last) /\ Len(turn) = last - first + 1
            /\ \A k \in 1 .. last - first + 1 : turn[k] = first + k - 1
      <3>1. PICK n \in Nat : n = last - first + 1
        BY <2>1
      <3>2. /\ Stretch(first, last) \in Seq(S) /\ Len(Stretch(first, last)) = n
            /\ \A k \in 1 .. n : Stretch(first, last)[k] = first + k - 1
        <4>1. first .. last \subseteq S
          BY <1>2, <1>4
        <4>2. Numbers(Stretch(first, last), first, n, S)
          BY <3>1, <4>1, StretchIs, Zenon
        <4>3. QED
          BY <4>2 DEF Numbers
      <3>3. QED
        BY <3>1, <3>2
    <2>5. PICK parts \in Seq(Seq(S)) :
            parts = [t \in 1 .. trip |-> turn] /\ Len(parts) = trip
            /\ \A t \in 1 .. trip : parts[t] = turn
      <3>1. [t \in 1 .. trip |-> turn] \in Seq(Seq(S)) /\ Len([t \in 1 .. trip |-> turn]) = trip
        OBVIOUS
      <3>2. QED
        BY <3>1
    <2>6a. PICK B \in Seq(S) : B = FlattenSeq(parts) /\ \E off : LaidOut(B, parts, off)
      BY Layout
    <2>6. PICK off : B = FlattenSeq(parts) /\ LaidOut(B, parts, off)
      BY <2>6a
    <2>7. Trace(prog) = A \o B \o C
      <3>1. parts = [t \in 1 .. prog.trip |-> Stretch(first, last)]
        BY <1>3, <2>4, <2>5
      <3>2. QED
        BY <1>1, <1>3, <1>6, <2>2, <2>3, <2>6, <3>1 DEF Trace, Stretch
    <2>8. PICK a \in Nat, b \in Nat, c \in Nat : a = Len(A) /\ b = Len(B) /\ c = Len(C)
      OBVIOUS
    <2>9. PICK trace \in Seq(S) :
            /\ trace = A \o B \o C /\ Len(trace) = a + b + c
            /\ \A s \in 1 .. a : trace[s] = A[s]
            /\ \A s \in 1 .. b : trace[a + s] = B[s]
            /\ \A s \in 1 .. c : trace[a + b + s] = C[s]
      <3>1. PICK AB \in Seq(S) :
              /\ AB = A \o B /\ Len(AB) = a + b
              /\ \A s \in 1 .. a : AB[s] = A[s]
              /\ \A s \in 1 .. b : AB[a + s] = B[s]
        <4>1. /\ A \o B \in Seq(S) /\ Len(A \o B) = Len(A) + Len(B)
              /\ \A s \in 1 .. Len(A) : (A \o B)[s] = A[s]
              /\ \A s \in 1 .. Len(B) : (A \o B)[Len(A) + s] = B[s]
          <5>1. Junction(A \o B, A, B, S)
            BY <2>2, <2>6, Joins, Zenon
          <5>2. QED
            BY <5>1, Zenon DEF Junction
        <4>2. QED
          BY <2>8, <4>1
      <3>2. PICK ABC \in Seq(S) :
              /\ ABC = AB \o C /\ Len(ABC) = a + b + c
              /\ \A s \in 1 .. a + b : ABC[s] = AB[s]
              /\ \A s \in 1 .. c : ABC[a + b + s] = C[s]
        <4>1. /\ AB \o C \in Seq(S) /\ Len(AB \o C) = Len(AB) + Len(C)
              /\ \A s \in 1 .. Len(AB) : (AB \o C)[s] = AB[s]
              /\ \A s \in 1 .. Len(C) : (AB \o C)[Len(AB) + s] = C[s]
          <5>1. Junction(AB \o C, AB, C, S)
            BY <2>3, <3>1, Joins, Zenon
          <5>2. QED
            BY <5>1, Zenon DEF Junction
        <4>2. PICK D \in Seq(S) : D = AB \o C
          BY <4>1
        <4>3. Len(D) = a + b + c
          BY <2>8, <3>1, <4>1, <4>2
        <4>4. (\A s \in 1 .. a + b : D[s] = AB[s]) /\ (\A s \in 1 .. c : D[a + b + s] = C[s])
          BY <2>8, <3>1, <4>1, <4>2
        <4>5. QED
          BY <4>2, <4>3, <4>4
      <3>3. \A s \in 1 .. b : a + s \in 1 .. a + b
        BY <2>8
      <3>4. \A s \in 1 .. a : s \in 1 .. a + b
        BY <2>8
      <3>5. \A s \in 1 .. a : ABC[s] = A[s]
        BY <3>1, <3>2, <3>4
      <3>6. \A s \in 1 .. b : ABC[a + s] = B[s]
        BY <3>1, <3>2, <3>3
      <3>7. ABC = A \o B \o C
        BY <3>1, <3>2
      <3>8. QED
        BY <3>2, <3>5, <3>6, <3>7
    <2>10. ASSUME NEW s \in 1 .. Len(trace), NEW d \in {-1, 1}, trace[s] + d \in 1 .. N,
                  (trace[s] + d \in first .. last) = (trace[s] \in first .. last)
           PROVE  s + d \in 1 .. Len(trace) /\ trace[s + d] = trace[s] + d
      <3>1. CASE s \in 1 .. a
        <4>1. trace[s] = s
          BY <2>2, <2>8, <2>9, <3>1
        <4>2. s + d \in 1 .. a
          <5>1. s \notin first .. last /\ s + d \notin first .. last /\ a = first - 1
            BY <2>2, <2>8, <2>10, <3>1, <4>1
          <5>2. s + d \in 1 .. N
            BY <2>10, <4>1
          <5>3. QED
            BY <2>1, <3>1, <5>1, <5>2
        <4>3. trace[s + d] = s + d
          BY <2>2, <2>8, <2>9, <4>2
        <4>4. QED
          BY <2>8, <2>9, <4>1, <4>2, <4>3
      <3>2. CASE s \in a + 1 .. a + b
        <4>1. PICK q \in 1 .. b : s = a + q
          BY <3>2
        <4>2. trace[s] = B[q]
          BY <2>9, <4>1
        <4>3. PICK t, j : At(B, parts, off, q, t, j)
          BY <2>6, <2>8, PlaceFound
        <4>4. /\ t \in 1 .. trip /\ j \in 1 .. last - first + 1 /\ B[q] = first + j - 1
              /\ q = off[t - 1] + j /\ off[t - 1] \in Nat
          <5>1. t \in 1 .. Len(parts) /\ j \in 1 .. Len(parts[t])
                /\ q = off[t - 1] + j /\ B[q] = parts[t][j]
            BY <4>3 DEF At
          <5>2. t \in 1 .. trip /\ parts[t] = turn
            BY <2>5, <5>1
          <5>3. j \in 1 .. last - first + 1 /\ B[q] = turn[j]
            BY <2>4, <5>1, <5>2
          <5>4. t - 1 \in 0 .. Len(parts)
            BY <2>5, <5>2
          <5>5. off[t - 1] \in Nat
            BY <2>6, <5>4 DEF LaidOut
          <5>6. QED
            BY <2>4, <5>1, <5>2, <5>3, <5>5
        <4>5. trace[s] + d \in first .. last
          BY <2>1, <2>10, <4>2, <4>4
        <4>6. j + d \in 1 .. last - first + 1
          BY <2>1, <4>2, <4>4, <4>5
        <4>7. At(B, parts, off, off[t - 1] + (j + d), t, j + d)
              /\ off[t - 1] + (j + d) \in 1 .. Len(B)
          <5>1. t \in 1 .. Len(parts) /\ j + d \in 1 .. Len(parts[t])
            BY <2>4, <2>5, <4>4, <4>6
          <5>2. QED
            BY <2>6, <5>1, PartPlaced
        <4>8. q + d = off[t - 1] + (j + d) /\ parts[t] = turn /\ turn[j + d] = first + (j + d) - 1
          <5>1. q + d = off[t - 1] + (j + d)
            <6>1. PICK o \in Nat, h \in Int : o = off[t - 1] /\ h = j
              BY <4>4
            <6>2. q = o + h /\ q \in Int /\ d \in Int
              BY <4>4, <6>1
            <6>3. q + d = o + (h + d)
              BY <6>2
            <6>4. QED
              BY <6>1, <6>3, Zenon
          <5>2. parts[t] = turn
            BY <2>5, <4>4
          <5>3. turn[j + d] = first + (j + d) - 1
            BY <2>4, <4>6
          <5>4. QED
            BY <5>1, <5>2, <5>3
        <4>9. q + d \in 1 .. b /\ B[q + d] = first + (j + d) - 1
          BY <2>8, <4>7, <4>8 DEF At
        <4>10. s + d = a + (q + d) /\ s + d \in 1 .. Len(trace)
          BY <2>9, <4>1, <4>9
        <4>11. trace[s + d] = B[q + d]
          BY <2>9, <4>9, <4>10
        <4>12. first + (j + d) - 1 = first + j - 1 + d
          BY <4>4
        <4>13. QED
          BY <4>2, <4>4, <4>9, <4>10, <4>11, <4>12
      <3>3. CASE s \in a + b + 1 .. a + b + c
        <4>1. PICK q \in 1 .. c : s = a + b + q
          BY <3>3
        <4>2. trace[s] = last + q /\ c = N - last
          BY <2>3, <2>8, <2>9, <4>1
        <4>3. q + d \in 1 .. c
          BY <2>1, <2>10, <4>2
        <4>4. s + d = a + b + (q + d) /\ s + d \in 1 .. Len(trace)
          BY <2>9, <4>1, <4>3
        <4>5. trace[s + d] = last + (q + d)
          BY <2>3, <2>8, <2>9, <4>3, <4>4
        <4>6. QED
          BY <4>2, <4>4, <4>5
      <3>4. s \in 1 .. a + b + c
        BY <2>9
      <3>5. s \in 1 .. a \/ s \in a + 1 .. a + b \/ s \in a + b + 1 .. a + b + c
        BY <3>4
      <3>6. QED
        BY <3>1, <3>2, <3>3, <3>5
    <2>11. Follows(prog, trace)
      <3>1. \A k : InLoop(prog, k) = (k \in first .. last)
        BY <1>3 DEF InLoop
      <3>2. ASSUME NEW s \in 1 .. Len(trace), NEW d \in {-1, 1}, trace[s] + d \in Items(prog),
                   InLoop(prog, trace[s] + d) = InLoop(prog, trace[s])
            PROVE  s + d \in 1 .. Len(trace) /\ trace[s + d] = trace[s] + d
        <4>1. (trace[s] + d \in first .. last) = (trace[s] \in first .. last)
          BY <3>1, <3>2, Zenon
        <4>2. trace[s] + d \in 1 .. N
          BY <1>2, <3>2
        <4>3. QED
          BY <2>10, <4>1, <4>2, Zenon
      <3>3. QED
        BY <3>2, Zenon DEF Follows
    <2>12. QED
      BY <1>2, <2>7, <2>9, <2>11
  <1>7. QED
    BY <1>5, <1>6

(* So are all items between two of one block.                              *)
LEMMA BlockRuns ==
  ASSUME NEW prog, WellFormed(prog), NEW s \in 1 .. Len(Trace(prog)),
         NEW j \in Nat, j <= Trace(prog)[s], OneBlock(prog, j, Trace(prog)[s])
  PROVE  \A d \in 0 .. Trace(prog)[s] - j :
           s - d \in 1 .. Len(Trace(prog)) /\ Trace(prog)[s - d] = Trace(prog)[s] - d
  <1>1. PICK trace \in Seq(Items(prog)) : trace = Trace(prog) /\ Follows(prog, trace)
    BY TraceFollows
  <1>2. PICK k \in Nat : k = trace[s]
    BY <1>1 DEF Items
  <1>3. PICK M \in Nat : M = Len(trace)
    OBVIOUS
  <1> DEFINE good == {d \in 0 .. k - j : s - d \in 1 .. M /\ trace[s - d] = k - d}
  <1>4. j <= k /\ s \in 1 .. M
    BY <1>1, <1>2, <1>3
  <1>5. 0 \in good
    BY <1>2, <1>4
  <1>6. ASSUME NEW d \in 1 .. k - j, d - 1 \in good PROVE d \in good
    <2>1. s - (d - 1) \in 1 .. M /\ trace[s - (d - 1)] = k - (d - 1)
      BY <1>6
    <2>2. k - (d - 1) \in j .. k /\ k - d \in j .. k /\ k - (d - 1) - 1 = k - d
      BY <1>4
    <2>3. k - d \in Items(prog) /\ InLoop(prog, k - d) = InLoop(prog, k)
          /\ InLoop(prog, k - (d - 1)) = InLoop(prog, k)
      BY <1>1, <1>2, <2>2 DEF OneBlock, Parallel
    <2>4. s - (d - 1) + (-1) \in 1 .. M /\ trace[s - (d - 1) + (-1)] = k - d
      <3>1. trace[s - (d - 1)] + (-1) = k - d
        BY <2>1, <2>2
      <3>2. -1 \in {-1, 1}
        OBVIOUS
      <3>3. QED
        BY <1>1, <1>3, <2>1, <2>3, <3>1, <3>2 DEF Follows
    <2>5. s - (d - 1) + (-1) = s - d
      BY <1>4
    <2>6. d \in 0 .. k - j
      OBVIOUS
    <2>7. QED
      BY <2>4, <2>5, <2>6
  <1> HIDE DEF good
  <1>7. k - j \in Nat
    BY <1>4
  <1>8. \A d \in 0 .. k - j : d \in good
    BY <1>5, <1>6, <1>7, Counting
  <1>9. QED
    BY <1>1, <1>2, <1>3, <1>8 DEF good

(* And the items after it.                                                 *)
LEMMA BlockRunsOn ==
  ASSUME NEW prog, WellFormed(prog), NEW s \in 1 .. Len(Trace(prog)),
         NEW k \in Nat, Trace(prog)[s] <= k, OneBlock(prog, Trace(prog)[s], k)
  PROVE  \A d \in 0 .. k - Trace(prog)[s] :
           s + d \in 1 .. Len(Trace(prog)) /\ Trace(prog)[s + d] = Trace(prog)[s] + d
  <1>1. PICK trace \in Seq(Items(prog)) : trace = Trace(prog) /\ Follows(prog, trace)
    BY TraceFollows
  <1>2. PICK j \in Nat : j = trace[s]
    BY <1>1 DEF Items
  <1>3. PICK M \in Nat : M = Len(trace)
    OBVIOUS
  <1> DEFINE good == {d \in 0 .. k - j : s + d \in 1 .. M /\ trace[s + d] = j + d}
  <1>4. j <= k /\ s \in 1 .. M
    BY <1>1, <1>2, <1>3
  <1>5. 0 \in good
    BY <1>2, <1>4
  <1>6. ASSUME NEW d \in 1 .. k - j, d - 1 \in good PROVE d \in good
    <2>1. s + (d - 1) \in 1 .. M /\ trace[s + (d - 1)] = j + (d - 1)
      BY <1>6
    <2>2. j + (d - 1) \in j .. k /\ j + d \in j .. k /\ j + (d - 1) + 1 = j + d
      BY <1>4
    <2>3. j + d \in Items(prog) /\ InLoop(prog, j + d) = InLoop(prog, k)
          /\ InLoop(prog, j + (d - 1)) = InLoop(prog, k)
      BY <1>1, <1>2, <2>2 DEF OneBlock, Parallel
    <2>4. s + (d - 1) + 1 \in 1 .. M /\ trace[s + (d - 1) + 1] = j + d
      <3>1. 1 \in {-1, 1}
        OBVIOUS
      <3>2. QED
        BY <1>1, <1>3, <2>1, <2>2, <2>3, <3>1 DEF Follows
    <2>5. s + (d - 1) + 1 = s + d
      BY <1>4
    <2>6. d \in 0 .. k - j
      OBVIOUS
    <2>7. QED
      BY <2>4, <2>5, <2>6
  <1> HIDE DEF good
  <1>7. k - j \in Nat
    BY <1>4
  <1>8. \A d \in 0 .. k - j : d \in good
    BY <1>5, <1>6, <1>7, Counting
  <1>9. QED
    BY <1>1, <1>2, <1>3, <1>8 DEF good

-----------------------------------------------------------------------------
(* The instructions of an emitted text, before its closing barrier.        *)
RowSlabs == [mem : Mems, lo : Nat, len : Nat]

TaskComputes(prog) == {TaskBody(prog, t, s) : t \in TaskSet(prog), s \in Int}
SerialComputes(prog) == {SerialBody(prog, k, s) : k \in Items(prog), s \in Int}
Collectives == [op : {"gather"}, owner : Nodes \ {0}, slab : RowSlabs]
               \cup [op : {"broadcast"}, slab : RowSlabs, buffers : SUBSET RowSlabs]

Instructions(prog) ==
  TaskComputes(prog) \cup SerialComputes(prog) \cup Collectives \cup {Barrier}

LEMMA TaskSlabs ==
  ASSUME NEW prog, WellFormed(prog), Accepted(prog), NEW t \in TaskSet(prog)
  PROVE  /\ OutSlabs(t) \in Seq(RowSlabs) /\ Len(OutSlabs(t)) = Len(t.outputs)
         /\ Len(t.outputs) \in Nat
  <1>1. t.item \in Parallel(prog) /\ t.target \in Nodes /\ t = Task(prog, t.item, t.target)
    BY TaskFields
  <1>2. PICK k, n, item : k = t.item /\ n = t.target /\ item = prog.items[k]
    OBVIOUS
  <1>3. /\ item.lb \in Nat /\ item.ub \in Nat /\ item.lb <= item.ub
        /\ item.accesses \in Seq(Accesses)
    BY <1>1, <1>2 DEF WellFormed, WellFormedItem, Parallel, Accepted, Lowerable
  <1>4. PICK start \in Nat, chunk \in Nat : start = Start(item, n) /\ chunk = Chunk(item, n)
    BY <1>1, <1>2, <1>3, ShardsAreRanges
  <1>5. PICK mems \in Seq(Mems) : mems = Writes(item)
    BY <1>3, Collected DEF Writes
  <1>6. t.outputs = Operands(prog, k, n, mems) /\ t.outRanges = <<start, start + chunk>>
    <2>1. t = Task(prog, k, n)
      BY <1>1, <1>2
    <2>2. QED
      BY <1>2, <1>4, <1>5, <2>1 DEF Task
  <1>7. PICK N \in Nat : N = Len(mems)
    OBVIOUS
  <1>8. /\ t.outputs = [i \in 1 .. N |-> IF Sliced(prog, k, mems[i])
                                           THEN SubView(mems[i], start, chunk) ELSE Whole(mems[i])]
        /\ Len(t.outputs) = N
    BY <1>2, <1>4, <1>6, <1>7 DEF Operands
  <1>9. \A i \in 1 .. N : mems[i] \in Mems /\ t.outputs[i].mem = mems[i]
    BY <1>7, <1>8 DEF SubView, Whole
  <1>10. t.outRanges[1] = start /\ t.outRanges[2] - t.outRanges[1] = chunk
    BY <1>6
  <1>11. OutSlabs(t) = [i \in 1 .. N |-> Slab(mems[i], start, chunk)]
    BY <1>8, <1>9, <1>10 DEF OutSlabs
  <1>12. \A i \in 1 .. N : Slab(mems[i], start, chunk) \in RowSlabs
    BY <1>9 DEF Slab, RowSlabs
  <1>13. [i \in 1 .. N |-> Slab(mems[i], start, chunk)] \in Seq(RowSlabs)
         /\ Len([i \in 1 .. N |-> Slab(mems[i], start, chunk)]) = N
    <2> HIDE DEF RowSlabs, Slab
    <2>1. QED
      BY <1>12
  <1>14. QED
    BY <1>8, <1>11, <1>13

Gather(t, i) == [op |-> "gather", owner |-> t.target, slab |-> OutSlabs(t)[i]]

LEMMA GathersSent ==
  ASSUME NEW prog, WellFormed(prog), Accepted(prog), NEW t \in TaskSet(prog)
  PROVE  /\ Gathers(t) \in Seq(Collectives)
         /\ \A x : Within(Gathers(t), x) <=>
                    t.target # 0 /\ \E i \in 1 .. Len(t.outputs) : x = Gather(t, i)
  <1>1. PICK slabs \in Seq(RowSlabs), N \in Nat :
           slabs = OutSlabs(t) /\ N = Len(t.outputs) /\ Len(slabs) = N
    BY TaskSlabs
  <1>2. CASE t.target = 0
    <2>1. Gathers(t) = <<>> /\ 1 .. Len(<<>>) = {}
      BY <1>2 DEF Gathers
    <2>2. QED
      BY <1>2, <2>1 DEF Within
  <1>3. CASE t.target # 0
    <2>1. t.target \in Nodes \ {0}
      BY <1>3, TaskFields
    <2>2. Gathers(t) = [i \in 1 .. N |-> Gather(t, i)]
      BY <1>1, <1>3 DEF Gathers, Gather
    <2>3. \A i \in 1 .. N : Gather(t, i) \in Collectives
      BY <1>1, <2>1 DEF Collectives, Gather
    <2> HIDE DEF Collectives
    <2>4. Gathers(t) \in Seq(Collectives) /\ Len(Gathers(t)) = N
          /\ \A i \in 1 .. N : Gathers(t)[i] = Gather(t, i)
      BY <2>2, <2>3
    <2>5. QED
      BY <1>1, <1>3, <2>4 DEF Within
  <1>4. QED
    BY <1>2, <1>3

(* The subview that stands for slabs: as long as all of them together.     *)
Combined(slabs, sum) ==
  /\ sum \in [0 .. Len(slabs) -> Nat] /\ sum[0] = 0
  /\ \A n \in 1 .. Len(slabs) : sum[n] = sum[n - 1] + slabs[n].len
  /\ CombinedSlab(slabs)
       = Slab(slabs[1].mem,
              IF \E b \in ToSet(slabs) : RankOf[b.mem] >= 2 THEN slabs[1].lo ELSE 0,
              sum[Len(slabs)])

LEMMA CombinedSums ==
  ASSUME NEW slabs \in Seq(RowSlabs), slabs # <<>>
  PROVE  \E sum : Combined(slabs, sum)
  <1>1. PICK N \in Nat : N = Len(slabs) /\ N >= 1
    OBVIOUS
  <1>2. \A n \in 1 .. N : slabs[n] \in RowSlabs
    BY <1>1
  <1>3. \A n \in 1 .. N : slabs[n].len \in Nat
    BY <1>2 DEF RowSlabs
  <1> DEFINE rec(g) == g = [n \in 0 .. N |-> IF n = 0 THEN 0 ELSE g[n - 1] + slabs[n].len]
  <1>4. PICK step \in [1 .. N -> [Nat -> Nat]] :
          step = [n \in 1 .. N |-> [v \in Nat |-> v + slabs[n].len]]
    <2>1. [n \in 1 .. N |-> [v \in Nat |-> v + slabs[n].len]] \in [1 .. N -> [Nat -> Nat]]
      BY <1>3
    <2>2. QED
      BY <2>1
  <1>5. PICK g \in [0 .. N -> Nat] : g[0] = 0 /\ \A n \in 1 .. N : g[n] = step[n][g[n - 1]]
    <2>1. 0 \in Nat
      OBVIOUS
    <2>2. \E g : Iterates(g, Nat, 0, N, step)
      BY <2>1, Iterated, Zenon
    <2>3. QED
      BY <2>2 DEF Iterates
  <1>6. ASSUME NEW n \in 1 .. N PROVE n - 1 \in 0 .. N /\ g[n] = g[n - 1] + slabs[n].len
    <2>1. n - 1 \in 0 .. N
      OBVIOUS
    <2>2. g[n - 1] \in Nat /\ g[n] = step[n][g[n - 1]]
      BY <1>5, <2>1
    <2>3. step[n] = [v \in Nat |-> v + slabs[n].len]
      BY <1>4
    <2>4. step[n][g[n - 1]] = g[n - 1] + slabs[n].len
      BY <2>2, <2>3, Zenon
    <2>5. QED
      BY <2>1, <2>2, <2>4
  <1> DEFINE sum == CHOOSE h : rec(h)
  <1>7. rec(sum)
    <2>1. rec([n \in 0 .. N |-> g[n]])
      BY <1>5, <1>6
    <2> HIDE DEF rec
    <2>2. QED
      BY <2>1
  <1>8. CombinedSlab(slabs)
          = Slab(slabs[1].mem,
                 IF \E b \in ToSet(slabs) : RankOf[b.mem] >= 2 THEN slabs[1].lo ELSE 0, sum[N])
    BY <1>1 DEF CombinedSlab
  <1> HIDE DEF sum
  <1> DEFINE good == {n \in 0 .. N : sum[n] \in Nat}
  <1>9. 0 \in good
    BY <1>7
  <1>10. ASSUME NEW n \in 1 .. N, n - 1 \in good PROVE n \in good
    <2>1. n \in 0 .. N /\ n - 1 \in 0 .. N /\ n # 0
      OBVIOUS
    <2>2. sum[n - 1] \in Nat
      BY <1>10
    <2>3. sum[n] = sum[n - 1] + slabs[n].len
      BY <1>7, <2>1
    <2>4. sum[n] \in Nat
      <3> HIDE DEF rec
      <3>1. PICK x \in Nat, y \in Nat : x = sum[n - 1] /\ y = slabs[n].len
        BY <1>3, <2>2
      <3>2. x + y \in Nat
        OBVIOUS
      <3>3. QED
        BY <2>3, <3>1, <3>2
    <2> HIDE DEF rec
    <2>5. QED
      BY <2>1, <2>4
  <1> HIDE DEF good, rec
  <1>11. \A n \in 0 .. N : n \in good
    BY <1>9, <1>10, Counting
  <1>12. \A n \in 0 .. N : sum[n] \in Nat
    BY <1>11 DEF good
  <1>13. sum = [n \in 0 .. N |-> sum[n]]
    BY <1>7 DEF rec
  <1>14. sum \in [0 .. N -> Nat]
    BY <1>12, <1>13
  <1>15. sum[0] = 0 /\ \A n \in 1 .. N : sum[n] = sum[n - 1] + slabs[n].len
    <2>1. sum = [n \in 0 .. N |-> IF n = 0 THEN 0 ELSE sum[n - 1] + slabs[n].len]
      BY <1>7 DEF rec
    <2>2. 0 \in 0 .. N
      OBVIOUS
    <2>3. sum[0] = 0
      BY <2>1, <2>2
    <2>4. ASSUME NEW n \in 1 .. N PROVE sum[n] = sum[n - 1] + slabs[n].len
      <3>1. n \in 0 .. N /\ n # 0
        OBVIOUS
      <3>2. QED
        BY <2>1, <3>1
    <2>5. QED
      BY <2>3, <2>4
  <1>16. Combined(slabs, sum)
    BY <1>1, <1>8, <1>14, <1>15 DEF Combined
  <1>17. QED
    BY <1>16

LEMMA CombinedIsSlab ==
  ASSUME NEW slabs \in Seq(RowSlabs), slabs # <<>>
  PROVE  CombinedSlab(slabs) \in RowSlabs
  <1>1. PICK sum : Combined(slabs, sum)
    BY CombinedSums
  <1>2. PICK N \in Nat : N = Len(slabs) /\ N >= 1 /\ slabs[1] \in RowSlabs
    OBVIOUS
  <1>3. sum[N] \in Nat
    BY <1>1, <1>2 DEF Combined
  <1>4. slabs[1].mem \in Mems /\ slabs[1].lo \in Nat
    BY <1>2 DEF RowSlabs
  <1>5. QED
    BY <1>1, <1>2, <1>3, <1>4 DEF Combined, Slab, RowSlabs

Broadcast(slabs) ==
  [op |-> "broadcast", slab |-> CombinedSlab(slabs), buffers |-> ToSet(slabs)]

LEMMA BroadcastSent ==
  ASSUME NEW slabs \in Seq(RowSlabs)
  PROVE  /\ generateBroadcastCommunication(slabs) \in Seq(Collectives)
         /\ slabs = <<>> => generateBroadcastCommunication(slabs) = <<>>
         /\ slabs # <<>> => generateBroadcastCommunication(slabs) = <<Broadcast(slabs)>>
  <1>1. CASE slabs = <<>>
    BY <1>1 DEF generateBroadcastCommunication
  <1>2. CASE slabs # <<>>
    <2>1. CombinedSlab(slabs) \in RowSlabs
      BY <1>2, CombinedIsSlab
    <2>2. ToSet(slabs) \subseteq RowSlabs
      BY DEF ToSet
    <2>3. Broadcast(slabs) \in Collectives
      BY <2>1, <2>2 DEF Collectives, Broadcast
    <2>4. generateBroadcastCommunication(slabs) = <<Broadcast(slabs)>>
      BY <1>2 DEF generateBroadcastCommunication, Broadcast
    <2> HIDE DEF Collectives
    <2>5. QED
      BY <1>2, <2>3, <2>4
  <1>3. QED
    BY <1>1, <1>2

InFour(u, a, b, c, d, S) ==
  /\ u \in Seq(S) /\ Len(u) = Len(a) + Len(b) + Len(c) + Len(d)
  /\ \A i \in 1 .. Len(a) : u[i] = a[i]
  /\ \A i \in 1 .. Len(b) : u[Len(a) + i] = b[i]
  /\ \A i \in 1 .. Len(c) : u[Len(a) + Len(b) + i] = c[i]
  /\ \A i \in 1 .. Len(d) : u[Len(a) + Len(b) + Len(c) + i] = d[i]

LEMMA FourJoined ==
  ASSUME NEW S, NEW a \in Seq(S), NEW b \in Seq(S), NEW c \in Seq(S), NEW d \in Seq(S)
  PROVE  InFour(a \o b \o c \o d, a, b, c, d, S)
  <1>1. PICK u \in Seq(S) : u = a \o b /\ Junction(u, a, b, S)
    <2>1. Junction(a \o b, a, b, S)
      BY Joins, Zenon
    <2>2. QED
      BY <2>1, Zenon DEF Junction
  <1>2. PICK v \in Seq(S) : v = u \o c /\ Junction(v, u, c, S)
    <2>1. Junction(u \o c, u, c, S)
      BY Joins, Zenon
    <2>2. QED
      BY <2>1, Zenon DEF Junction
  <1>3. PICK w \in Seq(S) : w = v \o d /\ Junction(w, v, d, S)
    <2>1. Junction(v \o d, v, d, S)
      BY Joins, Zenon
    <2>2. QED
      BY <2>1, Zenon DEF Junction
  <1>4. PICK A \in Nat, B \in Nat, C \in Nat, D \in Nat :
          A = Len(a) /\ B = Len(b) /\ C = Len(c) /\ D = Len(d)
    OBVIOUS
  <1>5. Len(u) = A + B /\ Len(v) = A + B + C /\ Len(w) = A + B + C + D
    BY <1>1, <1>2, <1>3, <1>4 DEF Junction
  <1>6. \A i \in 1 .. A : w[i] = a[i]
    <2>1. TAKE i \in 1 .. A
    <2>2. i \in 1 .. Len(u) /\ i \in 1 .. Len(v)
      BY <1>5
    <2>3. QED
      BY <1>1, <1>2, <1>3, <1>4, <2>2 DEF Junction
  <1>7. \A i \in 1 .. B : w[A + i] = b[i]
    <2>1. TAKE i \in 1 .. B
    <2>2. A + i \in 1 .. Len(u) /\ A + i \in 1 .. Len(v)
      BY <1>5
    <2>3. QED
      BY <1>1, <1>2, <1>3, <1>4, <2>2 DEF Junction
  <1>8. \A i \in 1 .. C : w[A + B + i] = c[i]
    <2>1. TAKE i \in 1 .. C
    <2>2. A + B + i \in 1 .. Len(v) /\ A + B + i = Len(u) + i
      BY <1>5
    <2>3. QED
      BY <1>2, <1>3, <1>4, <2>2 DEF Junction
  <1>9. \A i \in 1 .. D : w[A + B + C + i] = d[i]
    BY <1>3, <1>4, <1>5 DEF Junction
  <1>10. QED
    BY <1>1, <1>2, <1>3, <1>4, <1>5, <1>6, <1>7, <1>8, <1>9 DEF InFour

(* A level's instructions: its tasks come first, the slabs of those away   *)
(* from the root are gathered, and a broadcast comes last if any is asked  *)
(* for.                                                                    *)
IsLevelText(prog, level, k, s, code) ==
  /\ code \in Seq(Instructions(prog)) /\ Len(level) <= Len(code)
  /\ \A i \in 1 .. Len(code) : code[i].op = "compute" <=> i \in 1 .. Len(level)
  /\ \A i \in 1 .. Len(level) : code[i] = TaskBody(prog, level[i], s - (k - level[i].item))
  /\ \A i \in 1 .. Len(code) : code[i].op = "gather" =>
       \E t \in ToSet(level) : t.target # 0 /\ \E j \in 1 .. Len(t.outputs) : code[i] = Gather(t, j)
  /\ \A t \in ToSet(level) : t.target # 0 =>
       \A j \in 1 .. Len(t.outputs) : Within(code, Gather(t, j))
  /\ \A i \in 1 .. Len(code) : code[i].op = "broadcast" <=> toBroadcast(level) # <<>> /\ i = Len(code)
  /\ toBroadcast(level) # <<>> =>
       1 <= Len(code) /\ code[Len(code)] = Broadcast(toBroadcast(level))

LEMMA BroadcastSlabs ==
  ASSUME NEW prog, WellFormed(prog), Accepted(prog), NEW level \in Seq(TaskSet(prog))
  PROVE  /\ toBroadcast(level) \in Seq(RowSlabs)
         /\ \A x : Within(toBroadcast(level), x) <=>
              \E i \in 1 .. Len(level) : level[i].needBroadcast /\ Within(OutSlabs(level[i]), x)
  <1>1. PICK N \in Nat : N = Len(level) /\ \A i \in 1 .. N : level[i] \in TaskSet(prog)
    OBVIOUS
  <1>2. PICK SL : SL = RowSlabs
    OBVIOUS
  <1>3. \A i \in 1 .. N : OutSlabs(level[i]) \in Seq(SL)
    BY <1>1, <1>2, TaskSlabs
  <1>4. PICK parts \in Seq(Seq(SL)) :
          /\ parts = [i \in 1 .. N |-> IF level[i].needBroadcast THEN OutSlabs(level[i]) ELSE <<>>]
          /\ Len(parts) = N
          /\ \A i \in 1 .. N : parts[i] = IF level[i].needBroadcast THEN OutSlabs(level[i]) ELSE <<>>
    <2>1. PICK V : V = Seq(SL) /\ <<>> \in V
      <3>1. <<>> \in Seq(SL)
        OBVIOUS
      <3>2. QED
        BY <3>1
    <2>2. \A i \in 1 .. N :
            (IF level[i].needBroadcast THEN OutSlabs(level[i]) ELSE <<>>) \in V
      BY <1>3, <2>1
    <2>3. /\ [i \in 1 .. N |-> IF level[i].needBroadcast THEN OutSlabs(level[i]) ELSE <<>>] \in Seq(V)
          /\ Len([i \in 1 .. N |-> IF level[i].needBroadcast THEN OutSlabs(level[i]) ELSE <<>>]) = N
      BY <2>2
    <2>4. QED
      BY <2>1, <2>3
  <1>5. toBroadcast(level) = FlattenSeq(parts)
    BY <1>1, <1>4 DEF toBroadcast
  <1>6. FlattenSeq(parts) \in Seq(SL)
    BY Layout
  <1>7. ASSUME NEW x
        PROVE  Within(FlattenSeq(parts), x) <=>
                 \E i \in 1 .. N : level[i].needBroadcast /\ Within(OutSlabs(level[i]), x)
    <2>1. Within(FlattenSeq(parts), x) <=> \E i \in 1 .. N : Within(parts[i], x)
      BY <1>4, FlattenedMembers
    <2>2. ~ Within(<<>>, x)
      <3>1. 1 .. Len(<<>>) = {}
        OBVIOUS
      <3>2. QED
        BY <3>1 DEF Within
    <2>3. QED
      BY <1>4, <2>1, <2>2
  <1>8. QED
    BY <1>1, <1>2, <1>5, <1>6, <1>7

LEMMA LevelInstructions ==
  ASSUME NEW prog, WellFormed(prog), Accepted(prog), NEW level \in Seq(TaskSet(prog)),
         NEW k \in Int, NEW s \in Int
  PROVE  IsLevelText(prog, level, k, s, emitLevel(prog, level, k, s))
  <1>1. PICK N \in Nat : N = Len(level) /\ \A i \in 1 .. N : level[i] \in TaskSet(prog)
    OBVIOUS
  <1>2. \A i \in 1 .. N : level[i].item \in Int
    <2>1. \A i \in 1 .. N : level[i].item \in Parallel(prog)
      BY <1>1, TaskFields
    <2>2. Parallel(prog) \subseteq Int
      BY DEF Parallel, Items, WellFormed
    <2>3. QED
      BY <2>1, <2>2
  <1>3. PICK I, CS : I = Instructions(prog) /\ CS = Collectives /\ CS \subseteq I /\ Barrier \in I
    <2>1. Collectives \subseteq Instructions(prog) /\ Barrier \in Instructions(prog)
      BY DEF Instructions
    <2>2. QED
      BY <2>1
  <1>4. PICK bodies \in Seq(I) :
          /\ bodies = [i \in 1 .. N |-> TaskBody(prog, level[i], s - (k - level[i].item))]
          /\ Len(bodies) = N
          /\ \A i \in 1 .. N : bodies[i] = TaskBody(prog, level[i], s - (k - level[i].item))
    <2>1. \A i \in 1 .. N : s - (k - level[i].item) \in Int
      BY <1>2
    <2>2. \A i \in 1 .. N : TaskBody(prog, level[i], s - (k - level[i].item)) \in I
      BY <1>1, <1>3, <2>1 DEF Instructions, TaskComputes
    <2>3. /\ [i \in 1 .. N |-> TaskBody(prog, level[i], s - (k - level[i].item))] \in Seq(I)
          /\ Len([i \in 1 .. N |-> TaskBody(prog, level[i], s - (k - level[i].item))]) = N
      BY <2>2
    <2>4. QED
      BY <2>3
  <1>5. PICK gs \in Seq(CS) :
          /\ gs = FlattenSeq([i \in 1 .. N |-> Gathers(level[i])])
          /\ \A x : Within(gs, x) <=> \E i \in 1 .. N :
               level[i].target # 0 /\ \E j \in 1 .. Len(level[i].outputs) : x = Gather(level[i], j)
    <2>1. \A i \in 1 .. N : Gathers(level[i]) \in Seq(CS)
      BY <1>1, <1>3, GathersSent
    <2>2. PICK parts \in Seq(Seq(CS)) :
            /\ parts = [i \in 1 .. N |-> Gathers(level[i])] /\ Len(parts) = N
            /\ \A i \in 1 .. N : parts[i] = Gathers(level[i])
      <3>1. PICK V : V = Seq(CS)
        OBVIOUS
      <3>2. \A i \in 1 .. N : Gathers(level[i]) \in V
        BY <2>1, <3>1
      <3>3. [i \in 1 .. N |-> Gathers(level[i])] \in Seq(V) /\ Len([i \in 1 .. N |-> Gathers(level[i])]) = N
        BY <3>2
      <3>4. QED
        BY <3>1, <3>3
    <2>3. FlattenSeq(parts) \in Seq(CS)
      BY Layout
    <2>4. ASSUME NEW x
          PROVE  Within(FlattenSeq(parts), x) <=> \E i \in 1 .. N :
                   level[i].target # 0 /\ \E j \in 1 .. Len(level[i].outputs) : x = Gather(level[i], j)
      <3>1. Within(FlattenSeq(parts), x) <=> \E i \in 1 .. N : Within(Gathers(level[i]), x)
        BY <2>2, FlattenedMembers
      <3>2. \A i \in 1 .. N : Within(Gathers(level[i]), x) <=>
              level[i].target # 0 /\ \E j \in 1 .. Len(level[i].outputs) : x = Gather(level[i], j)
        BY <1>1, GathersSent
      <3>3. QED
        BY <3>1, <3>2
    <2>5. QED
      BY <2>2, <2>3, <2>4
  <1>6. PICK slabs \in Seq(RowSlabs) : slabs = toBroadcast(level)
    BY BroadcastSlabs
  <1>7. PICK bs \in Seq(CS), B \in Nat :
          /\ bs = generateBroadcastCommunication(slabs) /\ B = Len(bs)
          /\ slabs = <<>> => B = 0
          /\ slabs # <<>> => B = 1 /\ bs[1] = Broadcast(slabs)
    <2>1. PICK bs \in Seq(CS) : bs = generateBroadcastCommunication(slabs)
      BY <1>3, BroadcastSent
    <2>2. slabs = <<>> => bs = <<>>
      BY <2>1, BroadcastSent
    <2>3. slabs # <<>> => bs = <<Broadcast(slabs)>>
      BY <2>1, BroadcastSent
    <2>4. PICK B \in Nat : B = Len(bs)
      BY <2>1
    <2>5. slabs = <<>> => B = 0
      BY <2>2, <2>4
    <2>6. slabs # <<>> => B = 1 /\ bs[1] = Broadcast(slabs)
      BY <2>3, <2>4
    <2>7. QED
      BY <2>1, <2>4, <2>5, <2>6
  <1>8. PICK bar \in Seq(I) : bar = <<Barrier>> /\ Len(bar) = 1 /\ bar[1] = Barrier
    <2>1. <<Barrier>> \in Seq(I) /\ Len(<<Barrier>>) = 1 /\ <<Barrier>>[1] = Barrier
      BY <1>3
    <2>2. QED
      BY <2>1
  <1>9. gs \in Seq(I) /\ bs \in Seq(I)
    BY <1>3
  <1>10. PICK code \in Seq(I), G \in Nat :
           /\ code = emitLevel(prog, level, k, s) /\ G = Len(gs)
           /\ Len(code) = N + 1 + G + B
           /\ \A i \in 1 .. N : code[i] = bodies[i]
           /\ code[N + 1] = Barrier
           /\ \A i \in 1 .. G : code[N + 1 + i] = gs[i]
           /\ \A i \in 1 .. B : code[N + 1 + G + i] = bs[i]
    <2>1. emitLevel(prog, level, k, s) = bodies \o bar \o gs \o bs
      BY <1>1, <1>4, <1>5, <1>6, <1>7, <1>8 DEF emitLevel
    <2>2. InFour(bodies \o bar \o gs \o bs, bodies, bar, gs, bs, I)
      BY <1>9, FourJoined, Zenon
    <2>3. PICK code : code = bodies \o bar \o gs \o bs
      OBVIOUS
    <2>4. PICK G \in Nat : G = Len(gs)
      OBVIOUS
    <2>5. InFour(code, bodies, bar, gs, bs, I)
      BY <2>2, <2>3, Zenon
    <2>6. code[N + 1] = Barrier
      <3>1. 1 \in 1 .. 1
        OBVIOUS
      <3>2. QED
        BY <1>4, <1>8, <2>5, <3>1 DEF InFour
    <2>7. Len(code) = N + 1 + G + B /\ code \in Seq(I)
      BY <1>4, <1>7, <1>8, <2>4, <2>5 DEF InFour
    <2>8. \A i \in 1 .. N : code[i] = bodies[i]
      BY <1>4, <2>5 DEF InFour
    <2>9. \A i \in 1 .. G : code[N + 1 + i] = gs[i]
      BY <1>4, <1>8, <2>4, <2>5 DEF InFour
    <2>10. \A i \in 1 .. B : code[N + 1 + G + i] = bs[i]
      BY <1>4, <1>7, <1>8, <2>4, <2>5 DEF InFour
    <2>11. QED
      BY <2>1, <2>3, <2>4, <2>6, <2>7, <2>8, <2>9, <2>10
  <1>11. /\ \A i \in 1 .. N : bodies[i].op = "compute"
         /\ Barrier.op = "barrier"
         /\ \A i \in 1 .. G : gs[i].op = "gather"
         /\ \A i \in 1 .. B : bs[i].op = "broadcast" /\ i = 1 /\ slabs # <<>>
    <2>1. \A i \in 1 .. N : bodies[i].op = "compute"
      BY <1>4 DEF TaskBody, Body
    <2>2. \A i \in 1 .. G : gs[i].op = "gather"
      <3>1. TAKE i \in 1 .. G
      <3>2. PICK x : x = gs[i]
        OBVIOUS
      <3>3. Within(gs, x)
        BY <1>10, <3>2 DEF Within
      <3>4. \E n \in 1 .. N : \E j \in 1 .. Len(level[n].outputs) : x = Gather(level[n], j)
        BY <1>5, <3>3
      <3>5. QED
        BY <3>2, <3>4 DEF Gather
    <2>3. Barrier.op = "barrier"
      BY DEF Barrier
    <2>4. \A i \in 1 .. B : bs[i].op = "broadcast" /\ i = 1 /\ slabs # <<>>
      <3>1. Broadcast(slabs).op = "broadcast"
        BY DEF Broadcast
      <3>2. TAKE i \in 1 .. B
      <3>3. slabs # <<>>
        BY <1>7
      <3>4. B = 1 /\ bs[1] = Broadcast(slabs)
        BY <1>7, <3>3
      <3>5. i = 1
        BY <3>4
      <3>6. QED
        BY <3>1, <3>3, <3>4, <3>5, Zenon
    <2>5. QED
      BY <2>1, <2>2, <2>3, <2>4
  <1>12. ASSUME NEW i \in 1 .. Len(code)
         PROVE  \/ i \in 1 .. N
                \/ i = N + 1
                \/ \E j \in 1 .. G : i = N + 1 + j
                \/ \E j \in 1 .. B : i = N + 1 + G + j
    <2>1. CASE i \in N + 2 .. N + 1 + G
      <3>1. i - (N + 1) \in 1 .. G /\ i = N + 1 + (i - (N + 1))
        BY <2>1
      <3>2. QED
        BY <3>1
    <2>2. CASE i > N + 1 + G
      <3>1. i - (N + 1 + G) \in 1 .. B /\ i = N + 1 + G + (i - (N + 1 + G))
        BY <1>10, <2>2
      <3>2. QED
        BY <3>1
    <2>3. QED
      BY <2>1, <2>2
  <1>13. ASSUME NEW i \in 1 .. Len(code)
         PROVE  /\ code[i].op = "compute" <=> i \in 1 .. N
                /\ code[i].op = "gather" => \E j \in 1 .. G : code[i] = gs[j]
                /\ code[i].op = "broadcast" <=> slabs # <<>> /\ i = Len(code)
    <2>1. CASE i \in 1 .. N
      <3>1a. code[i] = bodies[i]
        BY <1>10, <2>1
      <3>1b. code[i].op = "compute"
        BY <1>11, <2>1, <3>1a
      <3>1c. i # Len(code)
        BY <1>10, <2>1
      <3>1. code[i].op = "compute" /\ i # Len(code)
        BY <3>1b, <3>1c
      <3>2. QED
        BY <2>1, <3>1
    <2>2. CASE i = N + 1
      <3>1. code[i].op = "barrier" /\ i \notin 1 .. N
        BY <1>10, <1>11, <2>2
      <3>2. i = Len(code) => slabs = <<>>
        BY <1>7, <1>10, <2>2
      <3>3. QED
        BY <3>1, <3>2
    <2>3. CASE \E j \in 1 .. G : i = N + 1 + j
      <3>1. PICK j \in 1 .. G : i = N + 1 + j
        BY <2>3
      <3>2. code[i] = gs[j] /\ code[i].op = "gather" /\ i \notin 1 .. N
        BY <1>10, <1>11, <3>1
      <3>3. i = Len(code) => slabs = <<>>
        BY <1>7, <1>10, <3>1
      <3>4. QED
        BY <3>2, <3>3
    <2>4. CASE \E j \in 1 .. B : i = N + 1 + G + j
      <3>1. PICK j \in 1 .. B : i = N + 1 + G + j
        BY <2>4
      <3>2. code[i] = bs[j] /\ bs[j].op = "broadcast" /\ j = 1 /\ slabs # <<>> /\ B = 1
        BY <1>7, <1>10, <1>11, <3>1
      <3>3. i = Len(code) /\ i \notin 1 .. N
        BY <1>10, <3>1, <3>2
      <3>4. QED
        BY <3>2, <3>3
    <2>5. QED
      BY <1>12, <2>1, <2>2, <2>3, <2>4
  <1>14. ASSUME NEW i \in 1 .. Len(code), code[i].op = "gather"
         PROVE  \E t \in ToSet(level) :
                  t.target # 0 /\ \E j \in 1 .. Len(t.outputs) : code[i] = Gather(t, j)
    <2>1. PICK j \in 1 .. G : code[i] = gs[j]
      BY <1>13, <1>14
    <2>2. Within(gs, code[i])
      BY <1>10, <2>1 DEF Within
    <2>3. PICK n \in 1 .. N : level[n].target # 0
            /\ \E a \in 1 .. Len(level[n].outputs) : code[i] = Gather(level[n], a)
      BY <1>5, <2>2
    <2>4. DOMAIN level = 1 .. N
      BY <1>1
    <2>5. level[n] \in ToSet(level)
      BY <2>4 DEF ToSet
    <2>6. QED
      BY <2>3, <2>5
  <1>15. ASSUME NEW t \in ToSet(level), t.target # 0, NEW j \in 1 .. Len(t.outputs)
         PROVE  Within(code, Gather(t, j))
    <2>1. PICK n \in 1 .. N : t = level[n]
      BY <1>1 DEF ToSet
    <2>2. Within(gs, Gather(t, j))
      BY <1>5, <1>15, <2>1
    <2>3. PICK i \in 1 .. G : gs[i] = Gather(t, j)
      BY <1>10, <2>2 DEF Within
    <2>4. N + 1 + i \in 1 .. Len(code) /\ code[N + 1 + i] = Gather(t, j)
      BY <1>10, <2>3
    <2>5. QED
      BY <2>4 DEF Within
  <1>16. slabs # <<>> => 1 <= Len(code) /\ code[Len(code)] = Broadcast(slabs)
    <2>1. SUFFICES ASSUME slabs # <<>> PROVE 1 <= Len(code) /\ code[Len(code)] = Broadcast(slabs)
      OBVIOUS
    <2>2. B = 1 /\ bs[1] = Broadcast(slabs) /\ Len(code) = N + 1 + G + 1
      BY <1>7, <1>10, <2>1
    <2>3. 1 \in 1 .. B
      BY <2>2
    <2>4. code[N + 1 + G + 1] = bs[1]
      BY <1>10, <2>3
    <2>5. QED
      BY <2>2, <2>4
  <1>17. Len(level) <= Len(code) /\ \A i \in 1 .. N : code[i] = TaskBody(prog, level[i], s - (k - level[i].item))
    BY <1>1, <1>4, <1>10
  <1>18. IsLevelText(prog, level, k, s, code)
    BY <1>1, <1>3, <1>6, <1>13, <1>14, <1>15, <1>16, <1>17 DEF IsLevelText
  <1>19. QED
    BY <1>10, <1>18

(* A computation instr that step s of the trace brought, from level l.     *)
FromTask(prog, instr, s, l, t) ==
  /\ In(LevelVector(prog), t, l) /\ ReleasedAt(LevelVector(prog), l) = Trace(prog)[s]
  /\ instr = TaskBody(prog, t, s - (Trace(prog)[s] - t.item))

FromSerial(prog, instr, s) ==
  Trace(prog)[s] \notin Parallel(prog) /\ instr = SerialBody(prog, Trace(prog)[s], s)

ComputeAt(prog, instr, s, l) ==
  FromSerial(prog, instr, s) \/ \E t : FromTask(prog, instr, s, l, t)

StepText(prog, s) == EmittedAt(prog, LevelVector(prog), Trace(prog)[s], s)

LevelTexts(prog, s) ==
  [l \in 1 .. Len(LevelVector(prog)) |->
     IF ReleasedAt(LevelVector(prog), l) = Trace(prog)[s]
       THEN emitLevel(prog, LevelVector(prog)[l], Trace(prog)[s], s)
       ELSE <<>>]

LEMMA LevelTextsAre ==
  ASSUME NEW prog, WellFormed(prog), Accepted(prog), NEW s \in 1 .. Len(Trace(prog))
  PROVE  /\ LevelTexts(prog, s) \in Seq(Seq(Instructions(prog)))
         /\ \A l \in 1 .. Len(LevelTexts(prog, s)) : \A i \in 1 .. Len(LevelTexts(prog, s)[l]) :
              LevelTexts(prog, s)[l][i].op = "compute" =>
                l \in Int /\ \E t : FromTask(prog, LevelTexts(prog, s)[l][i], s, l, t)
  <1>1. PICK k \in Int : k = Trace(prog)[s] /\ k \in Items(prog)
    <2>1. Trace(prog)[s] \in Items(prog)
      BY TraceFollows
    <2>2. QED
      BY <2>1 DEF Items
  <1>2. PICK L \in Seq(Seq(TaskSet(prog))), N \in Nat : L = LevelVector(prog) /\ N = Len(LevelVector(prog))
    BY LevelsOfTasks
  <1>3. \A l \in 1 .. N : L[l] \in Seq(TaskSet(prog))
    BY <1>2
  <1>4. PICK I : I = Instructions(prog)
    OBVIOUS
  <1>5. s \in Int
    BY TraceFollows
  <1> DEFINE piece(l) == IF ReleasedAt(L, l) = k THEN emitLevel(prog, L[l], k, s) ELSE <<>>
  <1>6. ASSUME NEW l \in 1 .. N
        PROVE  /\ piece(l) \in Seq(I)
               /\ \A i \in 1 .. Len(piece(l)) : piece(l)[i].op = "compute" =>
                    l \in Int /\ \E t : FromTask(prog, piece(l)[i], s, l, t)
    <2>1. CASE ReleasedAt(L, l) = k
      <3>1. PICK level \in Seq(TaskSet(prog)) : level = L[l]
        BY <1>3
      <3>2. PICK code \in Seq(I) :
              /\ code = emitLevel(prog, level, k, s)
              /\ \A i \in 1 .. Len(code) : code[i].op = "compute" =>
                   /\ i \in 1 .. Len(level)
                   /\ code[i] = TaskBody(prog, level[i], s - (k - level[i].item))
        <4>1. IsLevelText(prog, level, k, s, emitLevel(prog, level, k, s))
          BY <1>1, <1>5, <3>1, LevelInstructions, Zenon
        <4>2. QED
          BY <1>4, <4>1, Zenon DEF IsLevelText
      <3>3. ASSUME NEW i \in 1 .. Len(code), code[i].op = "compute"
            PROVE  FromTask(prog, code[i], s, l, level[i])
        <4>1. i \in 1 .. Len(level) /\ code[i] = TaskBody(prog, level[i], s - (k - level[i].item))
          BY <3>2, <3>3
        <4>2. In(LevelVector(prog), level[i], l)
          BY <1>2, <3>1, <4>1 DEF In, ToSet
        <4>3. QED
          BY <1>1, <1>2, <2>1, <4>1, <4>2 DEF FromTask
      <3>4. piece(l) = code
        BY <2>1, <3>1, <3>2
      <3>5. QED
        BY <3>2, <3>3, <3>4
    <2>2. CASE ReleasedAt(L, l) # k
      <3>1. piece(l) = <<>>
        BY <2>2
      <3>2. <<>> \in Seq(I) /\ 1 .. Len(<<>>) = {}
        OBVIOUS
      <3> HIDE DEF piece
      <3>3. piece(l) \in Seq(I) /\ 1 .. Len(piece(l)) = {}
        BY <3>1, <3>2
      <3>4. QED
        BY <3>3, Zenon
    <2>3. QED
      BY <2>1, <2>2
  <1>7. LevelTexts(prog, s) = [l \in 1 .. N |-> piece(l)]
    BY <1>1, <1>2 DEF LevelTexts
  <1> HIDE DEF piece
  <1>8. [l \in 1 .. N |-> piece(l)] \in Seq(Seq(I)) /\ Len([l \in 1 .. N |-> piece(l)]) = N
    <2>1. PICK V : V = Seq(I)
      OBVIOUS
    <2>2. \A l \in 1 .. N : piece(l) \in V
      BY <1>6, <2>1
    <2>3. [l \in 1 .. N |-> piece(l)] \in Seq(V) /\ Len([l \in 1 .. N |-> piece(l)]) = N
      BY <2>2
    <2>4. QED
      BY <2>1, <2>3
  <1>9. QED
    BY <1>4, <1>6, <1>7, <1>8

LEMMA StepOrigin ==
  ASSUME NEW prog, WellFormed(prog), Accepted(prog), NEW s \in 1 .. Len(Trace(prog))
  PROVE  /\ StepText(prog, s) \in Seq(Instructions(prog))
         /\ \A j, i \in 1 .. Len(StepText(prog, s)) :
              /\ j <= i
              /\ StepText(prog, s)[j].op = "compute" /\ StepText(prog, s)[i].op = "compute"
              => \E l, m \in Int : /\ l <= m
                                   /\ ComputeAt(prog, StepText(prog, s)[j], s, l)
                                   /\ ComputeAt(prog, StepText(prog, s)[i], s, m)
  <1>1. PICK k : k = Trace(prog)[s] /\ k \in Items(prog)
    BY TraceFollows
  <1>2. CASE k \in Parallel(prog)
    <2>0. PICK I : I = Instructions(prog)
      OBVIOUS
    <2>1. PICK parts \in Seq(Seq(I)) : I = Instructions(prog) /\ parts = LevelTexts(prog, s)
      BY <2>0, LevelTextsAre
    <2>2a. PICK code \in Seq(I) : code = FlattenSeq(parts) /\ \E off : LaidOut(code, parts, off)
      BY Layout
    <2>2. PICK off : code = FlattenSeq(parts) /\ LaidOut(code, parts, off)
      BY <2>2a
    <2>3. StepText(prog, s) = code
      BY <1>1, <1>2, <2>1, <2>2 DEF StepText, EmittedAt, LevelTexts
    <2>4. ASSUME NEW j \in 1 .. Len(code), NEW l, NEW a, At(code, parts, off, j, l, a),
                 code[j].op = "compute"
          PROVE  l \in Int /\ ComputeAt(prog, code[j], s, l)
      <3>1. l \in 1 .. Len(parts) /\ a \in 1 .. Len(parts[l]) /\ code[j] = parts[l][a]
        BY <2>4 DEF At
      <3>2. QED
        BY <2>1, <2>4, <3>1, LevelTextsAre DEF ComputeAt
    <2>5. ASSUME NEW j \in 1 .. Len(code), NEW i \in 1 .. Len(code), j <= i,
                 code[j].op = "compute", code[i].op = "compute"
          PROVE  \E l, m \in Int : /\ l <= m /\ ComputeAt(prog, code[j], s, l)
                                   /\ ComputeAt(prog, code[i], s, m)
      <3>1. PICK l, a : At(code, parts, off, j, l, a)
        BY <2>2, PlaceFound
      <3>2. PICK m, b : At(code, parts, off, i, m, b)
        BY <2>2, PlaceFound
      <3>3. l \in Int /\ m \in Int /\ ComputeAt(prog, code[j], s, l) /\ ComputeAt(prog, code[i], s, m)
        BY <2>4, <2>5, <3>1, <3>2
      <3>4. CASE j = i
        BY <3>3, <3>4
      <3>5. CASE j < i
        <4>1. l < m \/ l = m
          BY <2>2, <3>1, <3>2, <3>5, PlacesInOrder
        <4>2. QED
          BY <3>3, <4>1
      <3>6. j = i \/ j < i
        BY <2>5
      <3>7. QED
        BY <3>4, <3>5, <3>6, Zenon
    <2>6. QED
      BY <2>1, <2>3, <2>5
  <1>3. CASE k \notin Parallel(prog)
    <2>1. PICK x, I : x = SerialBody(prog, k, s) /\ I = Instructions(prog) /\ x \in I
      <3>1. s \in Int
        BY TraceFollows
      <3>2. SerialBody(prog, k, s) \in Instructions(prog)
        BY <1>1, <3>1 DEF Instructions, SerialComputes
      <3>3. QED
        BY <3>2
    <2>2. StepText(prog, s) = <<x>>
      BY <1>1, <1>3, <2>1 DEF StepText, EmittedAt
    <2>3. PICK code \in Seq(I) : code = <<x>> /\ Len(code) = 1 /\ code[1] = x
      <3>1. <<x>> \in Seq(I) /\ Len(<<x>>) = 1 /\ <<x>>[1] = x
        BY <2>1
      <3>2. QED
        BY <3>1
    <2>4. \A l : ComputeAt(prog, x, s, l)
      BY <1>1, <1>3, <2>1 DEF ComputeAt, FromSerial
    <2>5. \A j \in 1 .. Len(code) : code[j] = x
      BY <2>3
    <2>6. \A j, i \in 1 .. Len(code) : \E l, m \in Int :
            l <= m /\ ComputeAt(prog, code[j], s, l) /\ ComputeAt(prog, code[i], s, m)
      <3>1. 0 \in Int /\ 0 <= 0
        OBVIOUS
      <3>2. QED
        BY <2>4, <2>5, <3>1
    <2>7. QED
      BY <2>1, <2>2, <2>3, <2>6
  <1>4. QED
    BY <1>2, <1>3

-----------------------------------------------------------------------------
BodyText(prog) == FlattenSeq([s \in 1 .. Len(Trace(prog)) |-> StepText(prog, s)])

LEMMA BodyOrigin ==
  ASSUME NEW prog, WellFormed(prog), Accepted(prog)
  PROVE  /\ BodyText(prog) \in Seq(Instructions(prog))
         /\ \A p, q \in 1 .. Len(BodyText(prog)) :
              /\ p <= q
              /\ BodyText(prog)[p].op = "compute" /\ BodyText(prog)[q].op = "compute"
              => \E s, z \in 1 .. Len(Trace(prog)) : \E l, m \in Int :
                   /\ s <= z /\ (s = z => l <= m)
                   /\ ComputeAt(prog, BodyText(prog)[p], s, l)
                   /\ ComputeAt(prog, BodyText(prog)[q], z, m)
  <1>0. PICK I : I = Instructions(prog)
    OBVIOUS
  <1>1. PICK N \in Nat : I = Instructions(prog) /\ N = Len(Trace(prog))
    BY <1>0, TraceFollows
  <1>2. PICK parts \in Seq(Seq(I)) :
           /\ parts = [s \in 1 .. N |-> StepText(prog, s)] /\ Len(parts) = N
           /\ \A s \in 1 .. N : parts[s] = StepText(prog, s)
    <2>1. PICK V : V = Seq(I)
      OBVIOUS
    <2>2. \A s \in 1 .. N : StepText(prog, s) \in V
      BY <1>1, <2>1, StepOrigin
    <2>3. /\ [s \in 1 .. N |-> StepText(prog, s)] \in Seq(V)
          /\ Len([s \in 1 .. N |-> StepText(prog, s)]) = N
      BY <2>2
    <2>4. QED
      BY <2>1, <2>3
  <1>3a. PICK code \in Seq(I) : code = FlattenSeq(parts) /\ \E off : LaidOut(code, parts, off)
    BY Layout
  <1>3. PICK off : code = FlattenSeq(parts) /\ LaidOut(code, parts, off)
    BY <1>3a
  <1>4. BodyText(prog) = code
    BY <1>1, <1>2, <1>3 DEF BodyText
  <1>5. ASSUME NEW p \in 1 .. Len(code), NEW q \in 1 .. Len(code), p <= q,
               code[p].op = "compute", code[q].op = "compute"
        PROVE  \E s, z \in 1 .. N : \E l, m \in Int :
                 /\ s <= z /\ (s = z => l <= m)
                 /\ ComputeAt(prog, code[p], s, l) /\ ComputeAt(prog, code[q], z, m)
    <2>1. PICK s, j : At(code, parts, off, p, s, j)
      BY <1>3, PlaceFound
    <2>2. PICK z, i : At(code, parts, off, q, z, i)
      BY <1>3, PlaceFound
    <2>3. /\ s \in 1 .. N /\ j \in 1 .. Len(StepText(prog, s)) /\ code[p] = StepText(prog, s)[j]
          /\ z \in 1 .. N /\ i \in 1 .. Len(StepText(prog, z)) /\ code[q] = StepText(prog, z)[i]
          /\ p = off[s - 1] + j /\ q = off[z - 1] + i
      BY <1>2, <2>1, <2>2 DEF At
    <2>4. p < q => s < z \/ (s = z /\ j < i)
      BY <1>3, <2>1, <2>2, PlacesInOrder
    <2>5. CASE s = z /\ j <= i
      <3>1. \E l, m \in Int : /\ l <= m /\ ComputeAt(prog, StepText(prog, s)[j], s, l)
                              /\ ComputeAt(prog, StepText(prog, s)[i], s, m)
        BY <1>1, <1>5, <2>3, <2>5, StepOrigin
      <3>2. s <= z
        BY <2>3, <2>5
      <3>3. QED
        BY <2>3, <2>5, <3>1, <3>2
    <2>6. CASE s < z
      <3>1. /\ \E l \in Int : ComputeAt(prog, StepText(prog, s)[j], s, l)
            /\ \E m \in Int : ComputeAt(prog, StepText(prog, z)[i], z, m)
        <4>1. j <= j /\ i <= i
          BY <2>3
        <4>2. QED
          BY <1>1, <1>5, <2>3, <4>1, StepOrigin
      <3>2. s <= z /\ s # z
        BY <2>3, <2>6
      <3>3. QED
        BY <2>3, <3>1, <3>2
    <2>7. CASE p = q
      <3>1. j <= j
        BY <2>3
      <3>2. \E l, m \in Int : /\ l <= m /\ ComputeAt(prog, StepText(prog, s)[j], s, l)
                              /\ ComputeAt(prog, StepText(prog, s)[j], s, m)
        BY <1>1, <1>5, <2>3, <3>1, StepOrigin
      <3>3. s <= s
        BY <2>3
      <3>4. QED
        BY <2>3, <2>7, <3>2, <3>3
    <2>8. QED
      BY <1>5, <2>3, <2>4, <2>5, <2>6, <2>7
  <1>6. QED
    BY <1>1, <1>3, <1>4, <1>5

LEMMA TextIs ==
  ASSUME NEW prog, WellFormed(prog), Accepted(prog)
  PROVE  \E emitted \in Seq(Instructions(prog) \cup {Return(prog)}), n \in Nat :
           /\ emitted = EmittedProgram(prog) /\ n = Len(BodyText(prog)) /\ Len(emitted) = n + 2
           /\ \A p \in 1 .. n : emitted[p] = BodyText(prog)[p] /\ emitted[p] \in Instructions(prog)
           /\ emitted[n + 1] = Barrier /\ emitted[n + 2] = Return(prog)
  <1>1. PICK I, V : /\ I = Instructions(prog) /\ V = Instructions(prog) \cup {Return(prog)}
                    /\ I \subseteq V /\ Barrier \in V /\ Return(prog) \in V
    <2>1. Barrier \in Instructions(prog)
      BY DEF Instructions
    <2>2. PICK I, V : I = Instructions(prog) /\ V = Instructions(prog) \cup {Return(prog)}
      OBVIOUS
    <2>3. I \subseteq V /\ Barrier \in V /\ Return(prog) \in V
      BY <2>1, <2>2
    <2>4. QED
      BY <2>2, <2>3, Zenon
  <1>2. PICK code \in Seq(I) : code = BodyText(prog)
    BY <1>1, BodyOrigin
  <1>3. PICK n \in Nat : n = Len(code)
    OBVIOUS
  <1>4. PICK end \in Seq(V) : end = <<Barrier, Return(prog)>> /\ Len(end) = 2
                              /\ end[1] = Barrier /\ end[2] = Return(prog)
    <2>1. <<Barrier, Return(prog)>> \in Seq(V)
      BY <1>1
    <2>2. QED
      BY <2>1
  <1>5. code \in Seq(V)
    BY <1>1
  <1>6. PICK emitted \in Seq(V) : emitted = code \o end /\ Junction(emitted, code, end, V)
    <2>1. Junction(code \o end, code, end, V)
      BY <1>4, <1>5, Joins, Zenon
    <2>2. code \o end \in Seq(V)
      BY <2>1, Zenon DEF Junction
    <2>3. QED
      BY <2>1, <2>2, Zenon
  <1>7. emitted = EmittedProgram(prog)
    BY <1>2, <1>4, <1>6 DEF EmittedProgram, BodyText, StepText
  <1>8. Len(emitted) = n + 2 /\ \A p \in 1 .. n : emitted[p] = code[p] /\ code[p] \in I
    BY <1>3, <1>4, <1>6 DEF Junction
  <1>9. emitted[n + 1] = Barrier /\ emitted[n + 2] = Return(prog)
    BY <1>3, <1>4, <1>6 DEF Junction
  <1>10. QED
    BY <1>1, <1>2, <1>3, <1>7, <1>8, <1>9

(* Every program the passes accept is emitted as a text of the form that   *)
(* ScheduleRun and Lockstep assume.                                        *)
THEOREM EmittedTextIsWellFormed ==
  ASSUME NumRanks = NumNodes, NEW prog, WellFormed(prog), Accepted(prog)
  PROVE  WellFormedText(EmittedProgram(prog))
  <1>1. PICK emitted \in Seq(Instructions(prog) \cup {Return(prog)}), n \in Nat :
           /\ emitted = EmittedProgram(prog) /\ n = Len(BodyText(prog)) /\ Len(emitted) = n + 2
           /\ \A p \in 1 .. n : emitted[p] = BodyText(prog)[p] /\ emitted[p] \in Instructions(prog)
           /\ emitted[n + 1] = Barrier /\ emitted[n + 2] = Return(prog)
    BY TextIs
  <1>2. Len(emitted) \in Nat \ {0} /\ DOMAIN emitted = 1 .. Len(emitted)
    BY <1>1
  <1>3. ASSUME NEW instr \in Instructions(prog)
        PROVE  /\ instr.op \in {"compute", "barrier", "gather", "broadcast"}
               /\ instr.op = "compute" => instr.version \in Int
               /\ instr.op = "gather" => instr.owner \in Ranks \ {0}
               /\ instr.op \in {"gather", "broadcast"} =>
                    instr.slab.lo \in Int /\ instr.slab.len \in Nat
    <2>1. CASE instr \in TaskComputes(prog) \cup SerialComputes(prog)
      <3>1. \E s \in Int : instr.op = "compute" /\ instr.version = s
        <4>1. CASE instr \in TaskComputes(prog)
          <5>1. PICK t \in TaskSet(prog), s \in Int : instr = TaskBody(prog, t, s)
            BY <4>1 DEF TaskComputes
          <5>2. instr.op = "compute" /\ instr.version = s
            BY <5>1 DEF TaskBody, Body
          <5>3. QED
            BY <5>2
        <4>2. CASE instr \in SerialComputes(prog)
          <5>1. PICK k \in Items(prog), s \in Int : instr = SerialBody(prog, k, s)
            BY <4>2 DEF SerialComputes
          <5>2. instr.op = "compute" /\ instr.version = s
            BY <5>1 DEF SerialBody, Body
          <5>3. QED
            BY <5>2
        <4>3. QED
          BY <2>1, <4>1, <4>2, Zenon
      <3>2. QED
        BY <3>1 DEF Body
    <2>2. CASE instr = Barrier
      BY <2>2 DEF Barrier
    <2>3. CASE instr \in Collectives
      <3>1. Nodes = Ranks
        BY DEF Nodes, Ranks
      <3>2. instr.slab \in RowSlabs /\ (instr.op = "gather" => instr.owner \in Ranks \ {0})
            /\ instr.op \in {"gather", "broadcast"}
        BY <2>3, <3>1 DEF Collectives
      <3>3. instr.slab.lo \in Int /\ instr.slab.len \in Nat
        BY <3>2 DEF RowSlabs
      <3>4. QED
        BY <3>2, <3>3
    <2>4. QED
      BY <2>1, <2>2, <2>3 DEF Instructions
  <1>4. ASSUME NEW k \in 1 .. n + 2
        PROVE  /\ emitted[k].op \in {"compute", "barrier", "gather", "broadcast", "return"}
               /\ emitted[k].op = "compute" => emitted[k].version \in Int
               /\ emitted[k].op = "gather" => emitted[k].owner \in Ranks \ {0}
               /\ emitted[k].op \in {"gather", "broadcast"} =>
                    emitted[k].slab.lo \in Int /\ emitted[k].slab.len \in Nat
               /\ emitted[k].op = "return" <=> k = n + 2
    <2>1. CASE k \in 1 .. n
      <3>1. emitted[k] \in Instructions(prog)
        BY <1>1, <2>1
      <3>2. PICK x \in Instructions(prog) : x = emitted[k]
        BY <3>1
      <3>3. k # n + 2
        BY <2>1
      <3>4. x.op # "return"
        BY <1>3
      <3>5. QED
        BY <1>3, <3>2, <3>3, <3>4
    <2>2. CASE k = n + 1
      <3>1. emitted[k].op = "barrier" /\ k # n + 2
        BY <1>1, <2>2 DEF Barrier
      <3>2. QED
        BY <3>1
    <2>3. CASE k = n + 2
      <3>1. emitted[k].op = "return"
        BY <1>1, <2>3 DEF Return
      <3>2. QED
        BY <2>3, <3>1
    <2>4. k \in 1 .. n \/ k = n + 1 \/ k = n + 2
      OBVIOUS
    <2>5. QED
      BY <2>1, <2>2, <2>3, <2>4, Zenon
  <1>5. QED
    BY <1>1, <1>2, <1>4 DEF WellFormedText

-----------------------------------------------------------------------------
(* What a computation reports as its version is a step up to that at which *)
(* it is emitted; what is emitted with a later version, but before, is of  *)
(* a task the other does not wait for.                                     *)
LEMMA VersionIsReached ==
  ASSUME NEW prog, WellFormed(prog), NEW x, NEW s \in 1 .. Len(Trace(prog)), NEW l,
         ComputeAt(prog, x, s, l)
  PROVE  x.version \in Int /\ x.version <= s
  <1>1. s \in Int
    BY TraceFollows
  <1>2. CASE FromSerial(prog, x, s)
    <2>1. x.version = s
      BY <1>2 DEF FromSerial, SerialBody, Body
    <2>2. QED
      BY <1>1, <2>1
  <1>3. CASE \E t : FromTask(prog, x, s, l, t)
    <2>1. PICK t : FromTask(prog, x, s, l, t)
      BY <1>3
    <2>2. PICK k : k = Trace(prog)[s]
      OBVIOUS
    <2>3. x.version = s - (k - t.item)
      BY <2>1, <2>2 DEF FromTask, TaskBody, Body
    <2>4. t.item \in Parallel(prog) /\ k \in Parallel(prog) /\ t.item <= k
      <3>1. In(LevelVector(prog), t, l) /\ ReleasedAt(LevelVector(prog), l) = k
        BY <2>1, <2>2 DEF FromTask
      <3>2. t \in TaskSet(prog)
        BY <3>1, LevelsOfTasks
      <3>3. QED
        BY <3>1, <3>2, ReleasedInGroup, TaskFields
    <2>5. Parallel(prog) \subseteq Int
      BY DEF Parallel, Items, WellFormed
    <2>6. t.item \in Int /\ k \in Int
      BY <2>4, <2>5
    <2>7. QED
      BY <1>1, <2>3, <2>4, <2>6
  <1>4. QED
    BY <1>2, <1>3 DEF ComputeAt

LEMMA OvertakenIsNotAwaited ==
  ASSUME NEW prog, WellFormed(prog), NEW x, NEW y,
         NEW s \in 1 .. Len(Trace(prog)), NEW z \in 1 .. Len(Trace(prog)),
         NEW l \in Int, NEW m \in Int, s <= z, s = z => l <= m,
         ComputeAt(prog, x, s, l), ComputeAt(prog, y, z, m), x.version > y.version
  PROVE  \E t, u \in TaskSet(prog) :
           /\ x = TaskBody(prog, t, x.version) /\ y = TaskBody(prog, u, y.version)
           /\ u.item # t.item /\ ~ DependsOn(prog, u, t)
  <1>1. PICK v \in Int, w \in Int : v = x.version /\ w = y.version /\ w < v /\ v <= s
    <2>1. x.version \in Int /\ x.version <= s /\ y.version \in Int
      BY VersionIsReached
    <2>2. QED
      BY <2>1
  <1>2. s \in Int /\ z \in Int /\ 1 <= s
    BY TraceFollows
  <1>3. PICK N \in Nat : N = Len(prog.items) /\ Parallel(prog) \subseteq 1 .. N
    BY DEF WellFormed, Parallel, Items
  <1>4. PICK L : L = LevelVector(prog)
    OBVIOUS
  <1>5. PICK u : FromTask(prog, y, z, m, u)
    <2>1. ASSUME FromSerial(prog, y, z) PROVE FALSE
      <3>1. y.version = z
        BY <2>1 DEF FromSerial, SerialBody, Body
      <3>2. QED
        BY <1>1, <1>2, <3>1
    <2>2. QED
      BY <2>1 DEF ComputeAt
  <1>6. PICK k \in Int, j \in Nat :
          /\ k = Trace(prog)[z] /\ j = u.item /\ In(L, u, m) /\ u \in TaskSet(prog)
          /\ ReleasedAt(L, m) = k /\ j <= k /\ OneBlock(prog, j, k)
          /\ w = z - (k - j) /\ y = TaskBody(prog, u, w)
    <2>1. /\ In(L, u, m) /\ ReleasedAt(L, m) = Trace(prog)[z]
          /\ y = TaskBody(prog, u, z - (Trace(prog)[z] - u.item))
      BY <1>4, <1>5 DEF FromTask
    <2>2. u \in TaskSet(prog)
      BY <1>4, <2>1, LevelsOfTasks
    <2>3. u.item \in Parallel(prog) /\ Trace(prog)[z] \in Parallel(prog)
          /\ u.item <= Trace(prog)[z] /\ OneBlock(prog, u.item, Trace(prog)[z])
      BY <1>4, <2>1, <2>2, ReleasedInGroup, TaskFields
    <2>4. u.item \in Nat /\ Trace(prog)[z] \in Int
      BY <1>3, <2>3
    <2>5. w = z - (Trace(prog)[z] - u.item)
      BY <1>1, <2>1 DEF TaskBody, Body
    <2>6. QED
      BY <2>1, <2>2, <2>3, <2>4, <2>5
  <1>7. \A d \in 0 .. k - j : z - d \in 1 .. Len(Trace(prog)) /\ Trace(prog)[z - d] = k - d
    BY <1>6, BlockRuns
  <1>8. Trace(prog)[s] = k - (z - s) /\ k - (z - s) \in j .. k
    <2>1. z - s \in 0 .. k - j /\ z - (z - s) = s
      BY <1>1, <1>2, <1>6
    <2>2. PICK d \in 0 .. k - j : d = z - s /\ z - d = s
      BY <2>1
    <2>3. Trace(prog)[z - d] = k - d
      BY <1>7
    <2>4. k - d \in j .. k
      BY <1>6
    <2>5. QED
      BY <2>2, <2>3, <2>4
  <1>9. PICK t : FromTask(prog, x, s, l, t)
    <2>1. Trace(prog)[s] \in Parallel(prog)
      BY <1>6, <1>8 DEF OneBlock
    <2>2. QED
      BY <2>1 DEF ComputeAt, FromSerial
  <1>10. PICK h \in Int, i \in Nat :
          /\ h = Trace(prog)[s] /\ i = t.item /\ In(L, t, l) /\ t \in TaskSet(prog)
          /\ ReleasedAt(L, l) = h /\ v = s - (h - i) /\ x = TaskBody(prog, t, v)
    <2>1. /\ In(L, t, l) /\ ReleasedAt(L, l) = Trace(prog)[s]
          /\ x = TaskBody(prog, t, s - (Trace(prog)[s] - t.item))
      BY <1>4, <1>9 DEF FromTask
    <2>2. t \in TaskSet(prog)
      BY <1>4, <2>1, LevelsOfTasks
    <2>3. t.item \in Parallel(prog) /\ Trace(prog)[s] \in Parallel(prog)
      BY <1>4, <2>1, <2>2, ReleasedInGroup, TaskFields
    <2>4. t.item \in Nat /\ Trace(prog)[s] \in Int
      BY <1>3, <2>3
    <2>5. v = s - (Trace(prog)[s] - t.item)
      BY <1>1, <2>1 DEF TaskBody, Body
    <2>6. QED
      BY <2>1, <2>2, <2>4, <2>5
  <1>11. j < i
    <2>1. PICK a \in Int, b \in Int : a = s /\ b = z
      BY <1>2
    <2>2. h = k - (b - a)
      BY <1>8, <1>10, <2>1
    <2>3. v = a - (h - i)
      BY <1>10, <2>1
    <2>4. w = b - (k - j)
      BY <1>6, <2>1
    <2>5. w < v
      BY <1>1
    <2>6. QED
      BY <2>2, <2>3, <2>4, <2>5
  <1>12. l <= m
    <2>1. CASE s = z
      BY <2>1
    <2>2. CASE s # z
      <3>1. h < k
        BY <1>2, <1>6, <1>8, <1>10, <2>2
      <3>2. SUFFICES ASSUME m < l PROVE FALSE
        OBVIOUS
      <3>3. PICK r, n : In(L, r, n) /\ n <= m /\ r.item = k
        BY <1>4, <1>6, ReleasedInGroup
      <3>4. n <= l
        <4>1. n \in Int
          BY <1>4, <3>3, LevelsOfTasks DEF In
        <4>2. QED
          BY <3>2, <3>3, <4>1
      <3>5. k <= h
        BY <1>4, <1>10, <3>3, <3>4, ReleasedInGroup
      <3>6. QED
        BY <1>6, <1>10, <3>1, <3>5
    <2>3. QED
      BY <2>1, <2>2
  <1>13. ~ DependsOn(prog, u, t)
    <2>1. SUFFICES ASSUME DependsOn(prog, u, t) PROVE FALSE
      OBVIOUS
    <2>2. m < l
      BY <1>4, <1>6, <1>10, <1>11, <2>1, LevelsInOrder
    <2>3. QED
      BY <1>12, <2>2
  <1>14. u.item # t.item
    BY <1>6, <1>10, <1>11
  <1>15. QED
    BY <1>1, <1>6, <1>10, <1>13, <1>14

-----------------------------------------------------------------------------
(* Two computations of tasks that touch a cell have operands that conflict. *)
Touches(op, c) ==
  op.mem = c[1] /\ (op.view => op.lo \in Nat /\ op.len \in Nat /\ c[2] \in op.lo .. op.lo + op.len - 1)

LEMMA TouchingConflict ==
  ASSUME NEW a, NEW b, NEW c, Touches(a, c), Touches(b, c)
  PROVE  memoryAccessesConflict(a, b)
  <1>1. a.mem = b.mem
    BY DEF Touches
  <1>2. ASSUME a.view, b.view PROVE rangesOverlap(a, b)
    <2>1. PICK x \in Nat, n \in Nat : x = a.lo /\ n = a.len /\ c[2] \in x .. x + n - 1
      BY <1>2 DEF Touches
    <2>2. PICK y \in Nat, k \in Nat : y = b.lo /\ k = b.len /\ c[2] \in y .. y + k - 1
      BY <1>2 DEF Touches
    <2>3. n > 0 /\ k > 0 /\ x < y + k /\ y < x + n
      BY <2>1, <2>2
    <2>4. QED
      BY <2>1, <2>2, <2>3 DEF rangesOverlap
  <1>3. QED
    BY <1>1, <1>2 DEF memoryAccessesConflict

(* An access touches cells of its memref, in the rows its index names; a    *)
(* store of an accepted program touches those of its own iteration.        *)
LEMMA TouchedCells ==
  ASSUME NEW prog, WellFormed(prog), NEW k \in Parallel(prog),
         NEW a \in AccessSet(prog.items[k]), NEW i, NEW c \in Touched(a, i)
  PROVE  c \in MemCells(a.mem) /\ a.mem \in Mems /\ c[1] = a.mem /\ c[2] \in RowsOf(a, i)
  <1>1. k \in Items(prog) /\ prog.items[k].kind = "parallel"
    BY DEF Parallel
  <1>2. WellFormedItem(prog.items[k])
    BY <1>1 DEF WellFormed
  <1>3. prog.items[k].accesses \in Seq(Accesses) /\ a.part \subseteq MemCells(a.mem)
    BY <1>1, <1>2 DEF WellFormedItem, AccessSet
  <1>4. a \in Accesses
    BY <1>3 DEF AccessSet
  <1>5. c \in MemCells(a.mem) /\ c[2] \in RowsOf(a, i)
    BY <1>3 DEF Touched
  <1>6. QED
    BY <1>4, <1>5 DEF MemCells, Accesses

LEMMA StoreTouches ==
  ASSUME NEW prog, WellFormed(prog), Accepted(prog), NEW k \in Parallel(prog),
         NEW i \in Int, NEW c \in StoresOf(prog.items[k], i)
  PROVE  c \in Cells /\ \E a \in Stores(prog.items[k]) : a.mem = c[1] /\ c[2] = i
  <1>1. PICK a \in Stores(prog.items[k]) : c \in Touched(a, i)
    BY DEF StoresOf
  <1>2. a \in AccessSet(prog.items[k])
    BY DEF Stores
  <1>3. a.form = "exact" /\ a.dim = 0 /\ a.off = 0
    BY DEF Accepted, Lowerable
  <1>4. RowsOf(a, i) = {i}
    BY <1>3 DEF RowsOf
  <1>5. c \in MemCells(a.mem) /\ a.mem \in Mems /\ c[1] = a.mem /\ c[2] \in RowsOf(a, i)
    BY <1>1, <1>2, TouchedCells
  <1>6. QED
    BY <1>4, <1>5 DEF Cells

LEMMA TaskCells ==
  ASSUME NEW prog, WellFormed(prog), Accepted(prog), NEW t \in TaskSet(prog), NEW s
  PROVE  /\ \A c \in Written(TaskBody(prog, t, s)) : \E op \in ToSet(t.outputs) : Touches(op, c)
         /\ \A c \in ReadBy(TaskBody(prog, t, s)) :
              \E op \in ToSet(t.inputs) \cup ToSet(t.outputs) : Touches(op, c)
  <1>1. t.item \in Parallel(prog) /\ t.target \in Nodes /\ t = Task(prog, t.item, t.target)
    BY TaskFields
  <1>2. PICK k, n, item : k = t.item /\ n = t.target /\ item = prog.items[k]
    OBVIOUS
  <1>3. /\ item.lb \in Nat /\ item.ub \in Nat /\ item.lb <= item.ub
        /\ item.accesses \in Seq(Accesses)
    BY <1>1, <1>2 DEF WellFormed, WellFormedItem, Parallel, Accepted, Lowerable
  <1>4. PICK start \in Nat, chunk \in Nat : start = Start(item, n) /\ chunk = Chunk(item, n)
    BY <1>1, <1>2, <1>3, ShardsAreRanges
  <1>5. PICK outs \in Seq(Mems) : outs = Writes(item) /\ ToSet(outs) = {a.mem : a \in AccessSet(item) \cap Stores(item)}
    BY <1>3, Collected DEF Writes
  <1> DEFINE only == {a \in AccessSet(item) \ Stores(item) : \A b \in Stores(item) : b.mem # a.mem}
  <1>6. PICK ins \in Seq(Mems) : ins = Reads(item) /\ ToSet(ins) = {a.mem : a \in AccessSet(item) \cap only}
    BY <1>3, Collected DEF Reads
  <1> DEFINE operand(m) == IF Sliced(prog, k, m) THEN SubView(m, start, chunk) ELSE Whole(m)
  <1>7. /\ t.outputs = [i \in 1 .. Len(outs) |-> operand(outs[i])]
        /\ t.inputs = [i \in 1 .. Len(ins) |-> operand(ins[i])]
        /\ t.outRanges = <<start, start + chunk>>
    <2>1. t = Task(prog, k, n)
      BY <1>1, <1>2
    <2>2. t.outputs = Operands(prog, k, n, outs) /\ t.inputs = Operands(prog, k, n, ins)
          /\ t.outRanges = <<start, start + chunk>>
      BY <1>2, <1>4, <1>5, <1>6, <2>1 DEF Task
    <2>3. QED
      BY <1>2, <1>4, <2>2 DEF Operands
  <1> HIDE DEF operand
  <1>8. /\ \A m \in ToSet(outs) : operand(m) \in ToSet(t.outputs)
        /\ \A m \in ToSet(ins) : operand(m) \in ToSet(t.inputs)
    <2>1. ASSUME NEW mems \in Seq(Mems), NEW ops, ops = [i \in 1 .. Len(mems) |-> operand(mems[i])],
                 NEW m \in ToSet(mems)
          PROVE  operand(m) \in ToSet(ops)
      <3>1. PICK N \in Nat : N = Len(mems) /\ DOMAIN mems = 1 .. N
        OBVIOUS
      <3>2. PICK i \in 1 .. N : m = mems[i]
        BY <2>1, <3>1 DEF ToSet
      <3>3. i \in DOMAIN ops /\ ops[i] = operand(m)
        BY <2>1, <3>1, <3>2
      <3>4. QED
        BY <3>3 DEF ToSet
    <2>2. QED
      BY <1>7, <2>1
  <1> DEFINE rows == start .. start + chunk - 1
  <1>9. ASSUME NEW c, Sliced(prog, k, c[1]) => c[2] \in rows
        PROVE  Touches(operand(c[1]), c)
    <2>1. CASE Sliced(prog, k, c[1])
      <3>1. operand(c[1]) = [mem |-> c[1], view |-> TRUE, lo |-> Max({0, start}), len |-> chunk]
        BY <2>1 DEF operand, SubView
      <3>2. Max({0, start}) = start
        BY DEF Max
      <3>3. QED
        BY <1>9, <2>1, <3>1, <3>2 DEF Touches
    <2>2. CASE ~ Sliced(prog, k, c[1])
      BY <2>2 DEF operand, Whole, Touches
    <2>3. QED
      BY <2>1, <2>2
  <1> DEFINE needs(i) == Dated(prog, s, LoadsOf(item, i))
             iteration(i) == {[cell |-> c, needs |-> needs(i)] : c \in StoresOf(item, i)}
  <1>10. /\ TaskBody(prog, t, s).effect = UNION {iteration(i) : i \in rows}
         /\ TaskBody(prog, t, s).keeps = Dated(prog, s, Kept(prog, t))
         /\ Iterations(t) = rows
    BY <1>2, <1>7 DEF TaskBody, Body, Iterations
  <1>11. ASSUME NEW e \in TaskBody(prog, t, s).effect
         PROVE  \E i \in rows : e.needs = needs(i) /\ e.cell \in StoresOf(item, i)
    <2>1. PICK i \in rows : e \in iteration(i)
      BY <1>10
    <2>2. PICK c \in StoresOf(item, i) : e = [cell |-> c, needs |-> needs(i)]
      BY <2>1
    <2>3. e.needs = needs(i) /\ e.cell = c
      BY <2>2
    <2>4. QED
      BY <2>2, <2>3
  <1> HIDE DEF iteration, needs
  <1>12. ASSUME NEW c, c[2] \in rows, NEW a \in Stores(item), a.mem = c[1]
         PROVE  \E op \in ToSet(t.outputs) : Touches(op, c)
    <2>1. c[1] \in ToSet(outs)
      BY <1>5, <1>12 DEF Stores
    <2>2. QED
      BY <1>8, <1>9, <1>12, <2>1
  <1> HIDE DEF rows
  <1>13. ASSUME NEW c \in Written(TaskBody(prog, t, s))
         PROVE  \E op \in ToSet(t.outputs) : Touches(op, c)
    <2>1. PICK e \in TaskBody(prog, t, s).effect : c = e.cell
      BY <1>13 DEF Written
    <2>2. PICK i \in rows : c \in StoresOf(item, i)
      BY <1>11, <2>1
    <2>3. PICK a \in Stores(item) : a.mem = c[1] /\ c[2] = i
      BY <1>1, <1>2, <1>4, <2>2, StoreTouches DEF rows
    <2>4. QED
      BY <1>12, <2>3
  <1>14. ASSUME NEW c \in ReadBy(TaskBody(prog, t, s))
         PROVE  \E op \in ToSet(t.inputs) \cup ToSet(t.outputs) : Touches(op, c)
    <2>1. CASE c \in Kept(prog, t)
      <3>1. PICK a \in Stores(item) : a.mem = c[1] /\ c[2] \in rows
        BY <1>2, <1>10, <2>1 DEF Kept
      <3>2. QED
        BY <1>12, <3>1
    <2>2. CASE c \notin Kept(prog, t)
      <3>1. PICK e \in TaskBody(prog, t, s).effect : \E d \in e.needs : c = d.cell
        BY <1>10, <1>14, <2>2 DEF ReadBy, Dated
      <3>2. PICK i \in rows : e.needs = needs(i)
        BY <1>11
      <3>3. c \in LoadsOf(item, i)
        <4>1. PICK d \in needs(i) : c = d.cell
          BY <3>1, <3>2
        <4>2. QED
          BY <4>1 DEF needs, Dated
      <3>4. PICK a \in AccessSet(item) \ Stores(item) : c \in Touched(a, i)
        BY <3>3 DEF LoadsOf
      <3>5. a.mem = c[1] /\ c[2] \in RowsOf(a, i)
        BY <1>1, <1>2, <3>4, TouchedCells
      <3>6. Sliced(prog, k, c[1]) => c[2] \in rows
        <4>1. SUFFICES ASSUME Sliced(prog, k, c[1]) PROVE c[2] \in rows
          OBVIOUS
        <4>2. a.form = "exact" /\ a.dim = 0 /\ a.off = 0
          BY <1>2, <3>4, <3>5, <4>1 DEF Sliced, RowPartition, AccessesTo
        <4>3. RowsOf(a, i) = {i}
          BY <4>2 DEF RowsOf, rows
        <4>4. QED
          BY <3>5, <4>3
      <3>7. Touches(operand(c[1]), c)
        BY <1>9, <3>6 DEF rows
      <3>8. operand(c[1]) \in ToSet(t.inputs) \cup ToSet(t.outputs)
        <4>1. CASE \E b \in Stores(item) : b.mem = c[1]
          <5>1. c[1] \in ToSet(outs)
            BY <1>5, <4>1 DEF Stores
          <5>2. QED
            BY <1>8, <5>1
        <4>2. CASE \A b \in Stores(item) : b.mem # c[1]
          <5>1. a \in AccessSet(item) \cap only
            BY <3>4, <3>5, <4>2
          <5>2. c[1] \in ToSet(ins)
            BY <1>6, <3>5, <5>1
          <5>3. QED
            BY <1>8, <5>2
        <4>3. QED
          BY <4>1, <4>2
      <3>9. QED
        BY <3>7, <3>8
    <2>3. QED
      BY <2>1, <2>2
  <1>15. QED
    BY <1>13, <1>14

LEMMA ClashIsDependence ==
  ASSUME NEW prog, WellFormed(prog), Accepted(prog),
         NEW t \in TaskSet(prog), NEW u \in TaskSet(prog), NEW v, NEW w,
         Clash(TaskBody(prog, t, v), TaskBody(prog, u, w))
  PROVE  checkMemoryDependency(u, t)
  <1>1. /\ \A c \in Written(TaskBody(prog, t, v)) : \E op \in ToSet(t.outputs) : Touches(op, c)
        /\ \A c \in ReadBy(TaskBody(prog, t, v)) :
             \E op \in ToSet(t.inputs) \cup ToSet(t.outputs) : Touches(op, c)
    BY TaskCells
  <1>2. /\ \A c \in Written(TaskBody(prog, u, w)) : \E op \in ToSet(u.outputs) : Touches(op, c)
        /\ \A c \in ReadBy(TaskBody(prog, u, w)) :
             \E op \in ToSet(u.inputs) \cup ToSet(u.outputs) : Touches(op, c)
    BY TaskCells
  <1>3. PICK c : \/ /\ \E a \in ToSet(t.outputs) : Touches(a, c)
                    /\ \E b \in ToSet(u.inputs) \cup ToSet(u.outputs) : Touches(b, c)
                 \/ /\ \E a \in ToSet(t.inputs) \cup ToSet(t.outputs) : Touches(a, c)
                    /\ \E b \in ToSet(u.outputs) : Touches(b, c)
    <2>1. CASE Written(TaskBody(prog, t, v))
                 \cap (Written(TaskBody(prog, u, w)) \cup ReadBy(TaskBody(prog, u, w))) # {}
      BY <1>1, <1>2, <2>1
    <2>2. CASE ReadBy(TaskBody(prog, t, v)) \cap Written(TaskBody(prog, u, w)) # {}
      BY <1>1, <1>2, <2>2
    <2>3. QED
      BY <2>1, <2>2 DEF Clash
  <1>4. PICK a, b : /\ \/ a \in ToSet(t.outputs) /\ b \in ToSet(u.inputs) \cup ToSet(u.outputs)
                       \/ a \in ToSet(t.inputs) \cup ToSet(t.outputs) /\ b \in ToSet(u.outputs)
                    /\ Touches(a, c) /\ Touches(b, c)
    BY <1>3
  <1>5. memoryAccessesConflict(b, a)
    BY <1>4, TouchingConflict
  <1>6. QED
    BY <1>4, <1>5 DEF checkMemoryDependency

(* Of two computations of an emitted text that clash, that of the earlier  *)
(* item, or of the earlier round of the time loop, comes first: sorting    *)
(* the tasks into levels takes none of them past one it conflicts with.    *)
THEOREM ClashesKeepSourceOrder ==
  ASSUME NEW prog, WellFormed(prog), Accepted(prog),
         NEW p \in 1 .. Len(EmittedProgram(prog)), NEW q \in 1 .. Len(EmittedProgram(prog)), p < q,
         EmittedProgram(prog)[p].op = "compute", EmittedProgram(prog)[q].op = "compute",
         Clash(EmittedProgram(prog)[p], EmittedProgram(prog)[q])
  PROVE  EmittedProgram(prog)[p].version <= EmittedProgram(prog)[q].version
  <1>1. PICK emitted \in Seq(Instructions(prog) \cup {Return(prog)}), n \in Nat :
           /\ emitted = EmittedProgram(prog) /\ n = Len(BodyText(prog)) /\ Len(emitted) = n + 2
           /\ \A k \in 1 .. n : emitted[k] = BodyText(prog)[k] /\ emitted[k] \in Instructions(prog)
           /\ emitted[n + 1] = Barrier /\ emitted[n + 2] = Return(prog)
    BY TextIs
  <1>2. p \in 1 .. n /\ q \in 1 .. n
    <2>1. \A k \in 1 .. n + 2 : emitted[k].op = "compute" => k \in 1 .. n
      <3>1. Barrier.op # "compute" /\ Return(prog).op # "compute"
        BY DEF Barrier, Return
      <3>2. \A k \in 1 .. n + 2 : k \in 1 .. n \/ k = n + 1 \/ k = n + 2
        OBVIOUS
      <3>3. QED
        BY <1>1, <3>1, <3>2
    <2>2. QED
      BY <1>1, <2>1
  <1>3. PICK x, y : x = emitted[p] /\ y = emitted[q]
    OBVIOUS
  <1>4. /\ x = BodyText(prog)[p] /\ x.op = "compute"
        /\ y = BodyText(prog)[q] /\ y.op = "compute" /\ Clash(x, y)
    BY <1>1, <1>2, <1>3
  <1>5. PICK s \in 1 .. Len(Trace(prog)), z \in 1 .. Len(Trace(prog)) : \E l, m \in Int :
           /\ s <= z /\ (s = z => l <= m)
           /\ ComputeAt(prog, x, s, l) /\ ComputeAt(prog, y, z, m)
    <2>1. p <= q /\ p \in 1 .. Len(BodyText(prog)) /\ q \in 1 .. Len(BodyText(prog))
      BY <1>1, <1>2
    <2>2. QED
      BY <1>4, <2>1, BodyOrigin
  <1>6. PICK l \in Int, m \in Int :
           /\ s <= z /\ (s = z => l <= m)
           /\ ComputeAt(prog, x, s, l) /\ ComputeAt(prog, y, z, m)
    BY <1>5
  <1>7. x.version \in Int /\ y.version \in Int
    BY <1>6, VersionIsReached
  <1>8. SUFFICES ASSUME x.version > y.version PROVE FALSE
    BY <1>1, <1>3, <1>7
  <1>9. PICK t \in TaskSet(prog), u \in TaskSet(prog) :
           /\ x = TaskBody(prog, t, x.version) /\ y = TaskBody(prog, u, y.version)
           /\ u.item # t.item /\ ~ DependsOn(prog, u, t)
    BY <1>6, <1>8, OvertakenIsNotAwaited
  <1>10. PICK v, w : v = x.version /\ w = y.version
    OBVIOUS
  <1>11. Clash(TaskBody(prog, t, v), TaskBody(prog, u, w))
    BY <1>4, <1>9, <1>10
  <1>12. checkMemoryDependency(u, t)
    BY <1>11, ClashIsDependence
  <1>13. QED
    BY <1>9, <1>12 DEF DependsOn

(* Whatever programs are compiled, InSourceOrder holds of their texts.     *)
THEOREM CompiledCodeKeepsSourceOrder ==
  ASSUME NEW Sources, \A prog \in Sources : WellFormed(prog) /\ Accepted(prog),
         Programs = {EmittedProgram(prog) : prog \in Sources}
  PROVE  LockstepSpec => []InSourceOrder
  <1> DEFINE Here == text \in Programs /\ position \in 1 .. Len(text)
  <1>1. ASSUME NEW code \in Programs PROVE Len(code) \in Nat \ {0}
    BY ProgramsAssumption DEF WellFormedText
  <1>2. LockstepInit => Here
    BY <1>1 DEF LockstepInit
  <1>3. Here /\ [LockstepNext]_lockstepVars => Here'
    <2> SUFFICES ASSUME Here, [LockstepNext]_lockstepVars PROVE Here'
      OBVIOUS
    <2>1. Len(text) \in Nat
      BY <1>1
    <2>2. CASE Take
      BY <2>1, <2>2 DEF Take
    <2>3. CASE AtEnd
      BY <2>3 DEF AtEnd, lockstepVars
    <2>4. CASE UNCHANGED lockstepVars
      BY <2>4 DEF lockstepVars
    <2>5. QED
      BY <2>2, <2>3, <2>4 DEF LockstepNext
  <1>4. Here => InSourceOrder
    <2> SUFFICES ASSUME Here, text[position].op = "compute",
                        NEW p \in 1 .. position - 1, text[p].op = "compute",
                        text[p].version > text[position].version,
                        Clash(text[p], text[position])
                 PROVE  FALSE
      BY DEF InSourceOrder
    <2>1. PICK prog \in Sources : text = EmittedProgram(prog)
      OBVIOUS
    <2>2. WellFormed(prog) /\ Accepted(prog)
      OBVIOUS
    <2>3. p \in 1 .. Len(text) /\ position \in 1 .. Len(text) /\ p < position
      BY <1>1
    <2>4. text[p].version <= text[position].version
      BY <2>1, <2>2, <2>3, ClashesKeepSourceOrder
    <2>5. text[p].version \in Int /\ text[position].version \in Int
      BY <2>3, ProgramsAssumption DEF WellFormedText
    <2>6. QED
      BY <2>4, <2>5
  <1>5. QED
    BY <1>2, <1>3, <1>4, PTL DEF LockstepSpec
=============================================================================

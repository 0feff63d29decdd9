--------------------------- MODULE CompilerProofs ---------------------------
(***************************************************************************)
(* For all covered programs, devices, weights and tables of ranks: the     *)
(* emitted text gives every task, on whatever rank runs it, the values the *)
(* sequential program would read, and leaves its result at the root.       *)
(*                                                                         *)
(* The argument follows one cell from its last writer to its reader.       *)
(*   - A text comes in blocks, one for each level released: task bodies,   *)
(*     then what they have written, gathered and broadcast (InBlocks).     *)
(*   - The shards of a loop tile it, and loops with the same bounds are    *)
(*     cut alike (ShardsTile, SameShards).                                 *)
(*   - Clashing computations come in the order of the source, so the last  *)
(*     writer of a cell before its reader is the one that the sequential   *)
(*     program has there (NowIs).                                          *)
(*   - The reader is in a later block.  Either the block of the writer     *)
(*     brings the cell to the reader's rank (Reaches), or reader and       *)
(*     writer are on one device (ReaderIsServed).                          *)
(*   - A task takes what it loads and also what it keeps: what its loop    *)
(*     leaves alone of the rows it stores to.  A gather or a broadcast     *)
(*     sends these rows whole, and they are right on the task's rank       *)
(*     (RowsTravel) because what it keeps was served like a load.          *)
(***************************************************************************)
EXTENDS Coverage, PipelineProofs, ScheduleRunProofs

(* A place of the whole is one place of one part.                          *)
LEMMA SamePlace ==
  ASSUME NEW code, NEW parts, NEW off, LaidOut(code, parts, off), NEW p \in Int,
         NEW n, NEW j, At(code, parts, off, p, n, j), NEW m, NEW i, At(code, parts, off, p, m, i)
  PROVE  n = m /\ j = i
  <1>1. n \in 1 .. Len(parts) /\ m \in 1 .. Len(parts) /\ Len(parts) \in Nat
        /\ {n - 1, n, m - 1, m} \subseteq 0 .. Len(parts)
    BY DEF At, LaidOut
  <1>2. /\ off[n] \in Nat /\ off[n - 1] \in Nat /\ off[n] = off[n - 1] + Len(parts[n])
        /\ off[m] \in Nat /\ off[m - 1] \in Nat /\ off[m] = off[m - 1] + Len(parts[m])
        /\ Len(parts[n]) \in Nat /\ Len(parts[m]) \in Nat
    BY <1>1 DEF LaidOut
  <1>3. /\ p = off[n - 1] + j /\ j \in 1 .. Len(parts[n])
        /\ p = off[m - 1] + i /\ i \in 1 .. Len(parts[m])
    BY DEF At
  <1>4. CASE m < n
    <2>1. m \in 0 .. Len(parts) /\ n - 1 \in m .. Len(parts)
      BY <1>1, <1>4
    <2>2. off[m] <= off[n - 1]
      BY <2>1, OffsetsGrow
    <2>3. QED
      BY <1>2, <1>3, <2>2
  <1>5. CASE n < m
    <2>1. n \in 0 .. Len(parts) /\ m - 1 \in n .. Len(parts)
      BY <1>1, <1>5
    <2>2. off[n] <= off[m - 1]
      BY <2>1, OffsetsGrow
    <2>3. QED
      BY <1>2, <1>3, <2>2
  <1>6. CASE n = m
    BY <1>2, <1>3, <1>6
  <1>7. QED
    BY <1>1, <1>4, <1>5, <1>6

-----------------------------------------------------------------------------
(* A text comes in blocks: at each step of the trace that of the host code, *)
(* or one for each level released there.  Block l + 1 is that of level l.   *)
Levels(prog) == Len(LevelVector(prog))

Block(prog, z, b) ==
  IF b = 1
    THEN IF Trace(prog)[z] \in Parallel(prog) THEN <<>> ELSE <<SerialBody(prog, Trace(prog)[z], z)>>
    ELSE IF Trace(prog)[z] \in Parallel(prog) THEN LevelTexts(prog, z)[b - 1] ELSE <<>>

Blocks(prog, z) == [b \in 1 .. Levels(prog) + 1 |-> Block(prog, z, b)]

LEMMA StepLayout ==
  ASSUME NEW prog, WellFormed(prog), Accepted(prog), NEW z \in 1 .. Len(Trace(prog))
  PROVE  /\ Blocks(prog, z) \in Seq(Seq(Instructions(prog))) /\ Len(Blocks(prog, z)) = Levels(prog) + 1
         /\ \E off : LaidOut(StepText(prog, z), Blocks(prog, z), off)
  <1>1. PICK k : k = Trace(prog)[z] /\ k \in Items(prog)
    BY TraceFollows
  <1>2a. PICK N \in Nat : N = Levels(prog)
    BY LevelsOfTasks DEF Levels
  <1>2. PICK I : I = Instructions(prog) /\ N = Levels(prog)
    BY <1>2a
  <1>3. PICK texts \in Seq(Seq(I)) : texts = LevelTexts(prog, z) /\ Len(texts) = N
    <2>1. LevelTexts(prog, z) \in Seq(Seq(I))
      BY <1>2, LevelTextsAre
    <2>2. Len(LevelTexts(prog, z)) = N
      BY <1>2 DEF LevelTexts, Levels
    <2>3. QED
      BY <2>1, <2>2
  <1>4. PICK host \in I : host = SerialBody(prog, k, z)
    <2>1. z \in Int
      BY TraceFollows
    <2>2. SerialBody(prog, k, z) \in Instructions(prog)
      BY <1>1, <2>1 DEF Instructions, SerialComputes
    <2>3. QED
      BY <1>2, <2>2
  <1> DEFINE block(b) == IF b = 1 THEN IF k \in Parallel(prog) THEN <<>> ELSE <<host>>
                                  ELSE IF k \in Parallel(prog) THEN texts[b - 1] ELSE <<>>
  <1>5. ASSUME NEW b \in 1 .. N + 1
        PROVE  Block(prog, z, b) = block(b) /\ block(b) \in Seq(I)
    <2>1. b # 1 => b - 1 \in 1 .. N
      OBVIOUS
    <2>2. <<>> \in Seq(I) /\ <<host>> \in Seq(I)
      OBVIOUS
    <2>3. block(b) \in Seq(I)
      BY <1>3, <2>1, <2>2
    <2>4. QED
      BY <1>1, <1>3, <1>4, <2>3 DEF Block
  <1>6. PICK blocks \in Seq(Seq(I)) :
          /\ blocks = Blocks(prog, z) /\ Len(blocks) = N + 1
          /\ \A b \in 1 .. N + 1 : blocks[b] = block(b)
    <2>1. PICK V : V = Seq(I)
      OBVIOUS
    <2>2. Blocks(prog, z) = [b \in 1 .. N + 1 |-> block(b)]
      BY <1>2, <1>5 DEF Blocks
    <2>3. \A b \in 1 .. N + 1 : block(b) \in V
      BY <1>5, <2>1
    <2> HIDE DEF block
    <2>4. [b \in 1 .. N + 1 |-> block(b)] \in Seq(V) /\ Len([b \in 1 .. N + 1 |-> block(b)]) = N + 1
      BY <2>3
    <2>5. QED
      BY <2>1, <2>2, <2>4
  <1>7. \E off : LaidOut(StepText(prog, z), blocks, off)
    <2>1. CASE k \in Parallel(prog)
      <3>1. StepText(prog, z) = FlattenSeq(texts)
        BY <1>1, <1>3, <2>1 DEF StepText, EmittedAt, LevelTexts
      <3>2. PICK off : LaidOut(FlattenSeq(texts), texts, off)
        BY <1>3, Layout
      <3>3. PICK code : code = FlattenSeq(texts)
        OBVIOUS
      <3> DEFINE shifted == [n \in 0 .. N + 1 |-> IF n = 0 THEN 0 ELSE off[n - 1]]
      <3>4. /\ off \in [0 .. N -> Nat] /\ off[0] = 0
            /\ \A n \in 1 .. N : off[n] = off[n - 1] + Len(texts[n]) /\ Len(texts[n]) \in Nat
            /\ Len(code) = off[N]
            /\ \A n \in 1 .. N : \A j \in 1 .. Len(texts[n]) : code[off[n - 1] + j] = texts[n][j]
        BY <1>3, <3>2, <3>3 DEF LaidOut
      <3>5. shifted \in [0 .. N + 1 -> Nat] /\ shifted[0] = 0
        <4>1. \A n \in 1 .. N + 1 : off[n - 1] \in Nat
          BY <3>4
        <4>2. QED
          BY <4>1
      <3>6. ASSUME NEW n \in 1 .. N + 1
            PROVE  /\ Len(blocks[n]) \in Nat /\ shifted[n] = shifted[n - 1] + Len(blocks[n])
                   /\ \A j \in 1 .. Len(blocks[n]) : code[shifted[n - 1] + j] = blocks[n][j]
        <4>1. CASE n = 1
          <5>1. blocks[1] = <<>>
            BY <1>6, <2>1, <4>1
          <5>2. shifted[1] = 0 /\ shifted[0] = 0
            BY <3>4
          <5>3. QED
            BY <4>1, <5>1, <5>2
        <4>2. CASE n # 1
          <5>1. PICK m \in 1 .. N : n = m + 1
            BY <4>2
          <5>2. blocks[n] = texts[m]
            BY <1>6, <2>1, <5>1
          <5>3. shifted[n] = off[m] /\ shifted[n - 1] = off[m - 1]
            BY <5>1
          <5> HIDE DEF shifted
          <5>4. QED
            BY <3>4, <5>2, <5>3
        <4>3. QED
          BY <4>1, <4>2
      <3>7. Len(code) = shifted[N + 1]
        BY <3>4
      <3> HIDE DEF shifted
      <3>8. LaidOut(code, blocks, shifted)
        <4>1. PICK m \in Nat : m = N + 1 /\ Len(blocks) = m
          BY <1>6
        <4>2. QED
          BY <3>5, <3>6, <3>7, <4>1 DEF LaidOut
      <3>9. QED
        BY <3>1, <3>3, <3>8
    <2>2. CASE k \notin Parallel(prog)
      <3>1. PICK code \in Seq(I) : code = <<host>> /\ Len(code) = 1 /\ code[1] = host
        <4>1. <<host>> \in Seq(I) /\ Len(<<host>>) = 1 /\ <<host>>[1] = host
          OBVIOUS
        <4>2. QED
          BY <4>1
      <3>2. StepText(prog, z) = code
        BY <1>1, <1>4, <2>2, <3>1 DEF StepText, EmittedAt
      <3> DEFINE off == [n \in 0 .. N + 1 |-> IF n = 0 THEN 0 ELSE 1]
      <3>3. ASSUME NEW n \in 1 .. N + 1
            PROVE  /\ Len(blocks[n]) \in Nat /\ off[n] = off[n - 1] + Len(blocks[n])
                   /\ \A j \in 1 .. Len(blocks[n]) : code[off[n - 1] + j] = blocks[n][j]
        <4>1. CASE n = 1
          <5>1. blocks[n] = code
            BY <1>6, <2>2, <3>1, <4>1
          <5>2. off[n] = 1 /\ off[n - 1] = 0
            BY <4>1
          <5> HIDE DEF off
          <5>3. QED
            BY <3>1, <5>1, <5>2
        <4>2. CASE n # 1
          <5>1. blocks[n] = <<>>
            BY <1>6, <2>2, <4>2
          <5>2. off[n] = 1 /\ off[n - 1] = 1
            BY <4>2
          <5> HIDE DEF off
          <5>3. QED
            BY <5>1, <5>2
        <4>3. QED
          BY <4>1, <4>2
      <3>4. off \in [0 .. N + 1 -> Nat] /\ off[0] = 0 /\ off[N + 1] = 1
        OBVIOUS
      <3> HIDE DEF off
      <3>5. LaidOut(code, blocks, off)
        <4>1. PICK m \in Nat : m = N + 1 /\ Len(blocks) = m
          BY <1>6
        <4>2. QED
          BY <3>1, <3>3, <3>4, <4>1 DEF LaidOut
      <3>6. QED
        BY <3>2, <3>5
    <2>3. QED
      BY <2>1, <2>2
  <1>8. QED
    BY <1>2, <1>6, <1>7

(* Where the positions of a text are: at[p] is a step of the trace, a      *)
(* block of it and a place in the block.                                   *)
Spots == [step : Nat, block : Nat, place : Nat]

Spot(prog, w) ==
  /\ w \in Spots /\ w.step \in 1 .. Len(Trace(prog)) /\ w.block \in 1 .. Levels(prog) + 1
  /\ w.place \in 1 .. Len(Block(prog, w.step, w.block))

Before(u, w) ==
  \/ u.step < w.step
  \/ u.step = w.step /\ u.block < w.block
  \/ u.step = w.step /\ u.block = w.block /\ u.place < w.place

InBlocks(prog, at) ==
  /\ at \in [1 .. Len(BodyText(prog)) -> Spots]
  /\ \A p \in 1 .. Len(BodyText(prog)) :
       /\ Spot(prog, at[p])
       /\ BodyText(prog)[p] = Block(prog, at[p].step, at[p].block)[at[p].place]
  /\ \A w : Spot(prog, w) => \E p \in 1 .. Len(BodyText(prog)) : at[p] = w
  /\ \A p, q \in 1 .. Len(BodyText(prog)) : p < q => Before(at[p], at[q])

LEMMA TextInBlocks ==
  ASSUME NEW prog, WellFormed(prog), Accepted(prog)
  PROVE  \E at : InBlocks(prog, at)
  <1>1. PICK T \in Nat : T = Len(Trace(prog))
    BY TraceFollows
  <1>2. PICK N \in Nat : N = Levels(prog)
    BY LevelsOfTasks DEF Levels
  <1>3. PICK I : I = Instructions(prog)
    OBVIOUS
  <1>4. PICK steps \in Seq(Seq(I)) :
           /\ steps = [s \in 1 .. T |-> StepText(prog, s)] /\ Len(steps) = T
           /\ \A s \in 1 .. T : steps[s] = StepText(prog, s)
    <2>1. PICK V : V = Seq(I)
      OBVIOUS
    <2>2. \A s \in 1 .. T : StepText(prog, s) \in V
      BY <1>1, <1>3, <2>1, StepOrigin
    <2>3. /\ [s \in 1 .. T |-> StepText(prog, s)] \in Seq(V)
          /\ Len([s \in 1 .. T |-> StepText(prog, s)]) = T
      BY <2>2
    <2>4. QED
      BY <2>1, <2>3
  <1>5a. PICK code \in Seq(I) : code = FlattenSeq(steps) /\ \E off : LaidOut(code, steps, off)
    BY Layout
  <1>5. PICK off : code = FlattenSeq(steps) /\ LaidOut(code, steps, off)
    BY <1>5a
  <1>6. BodyText(prog) = code
    BY <1>1, <1>4, <1>5 DEF BodyText
  <1>7. PICK n \in Nat : n = Len(code)
    OBVIOUS
  <1> DEFINE inner == [z \in 1 .. T |-> CHOOSE o : LaidOut(StepText(prog, z), Blocks(prog, z), o)]
  <1>8. ASSUME NEW z \in 1 .. T
        PROVE  /\ LaidOut(steps[z], Blocks(prog, z), inner[z])
               /\ Len(Blocks(prog, z)) = N + 1
               /\ \A b \in 1 .. N + 1 : Blocks(prog, z)[b] = Block(prog, z, b)
    <2>1. \E o : LaidOut(StepText(prog, z), Blocks(prog, z), o)
      BY <1>1, StepLayout
    <2>2. LaidOut(StepText(prog, z), Blocks(prog, z), inner[z])
      BY <2>1
    <2>3. Len(Blocks(prog, z)) = N + 1 /\ \A b \in 1 .. N + 1 : Blocks(prog, z)[b] = Block(prog, z, b)
      BY <1>1, <1>2, StepLayout DEF Blocks
    <2>4. QED
      BY <1>4, <2>2, <2>3
  <1> HIDE DEF inner
  <1> DEFINE stands(p, w) ==
        \E i : /\ At(code, steps, off, p, w.step, i)
               /\ At(steps[w.step], Blocks(prog, w.step), inner[w.step], i, w.block, w.place)
  <1>9. ASSUME NEW p \in 1 .. n PROVE \E w \in Spots : Spot(prog, w) /\ stands(p, w)
    <2>1. PICK z, i : At(code, steps, off, p, z, i)
      BY <1>5, <1>7, PlaceFound
    <2>2. z \in 1 .. T /\ i \in 1 .. Len(steps[z])
      BY <1>4, <2>1 DEF At
    <2>3. PICK b, j : At(steps[z], Blocks(prog, z), inner[z], i, b, j)
      BY <1>8, <2>2, PlaceFound
    <2>4. b \in 1 .. N + 1 /\ j \in 1 .. Len(Block(prog, z, b))
      BY <1>8, <2>2, <2>3 DEF At
    <2>5. Len(Block(prog, z, b)) \in Nat
      BY <1>8, <2>2, <2>4 DEF LaidOut
    <2> DEFINE w == [step |-> z, block |-> b, place |-> j]
    <2>6. w.step = z /\ w.block = b /\ w.place = j /\ w \in Spots
      BY <2>2, <2>4, <2>5 DEF Spots
    <2> HIDE DEF w
    <2>7. Spot(prog, w)
      BY <1>1, <1>2, <2>2, <2>4, <2>6 DEF Spot
    <2>8. stands(p, w)
      BY <2>1, <2>3, <2>6
    <2>9. QED
      BY <2>6, <2>7, <2>8
  <1>10. ASSUME NEW w, Spot(prog, w) PROVE \E p \in 1 .. n : stands(p, w)
    <2>1. PICK z \in 1 .. T, b \in 1 .. N + 1, j \in Nat :
            z = w.step /\ b = w.block /\ j = w.place /\ j \in 1 .. Len(Block(prog, z, b))
      BY <1>1, <1>2, <1>10 DEF Spot, Spots
    <2>2. /\ LaidOut(steps[z], Blocks(prog, z), inner[z])
          /\ b \in 1 .. Len(Blocks(prog, z)) /\ j \in 1 .. Len(Blocks(prog, z)[b])
      BY <1>8, <2>1
    <2>3. PICK i : i = inner[z][b - 1] + j
      OBVIOUS
    <2>4. At(steps[z], Blocks(prog, z), inner[z], i, b, j) /\ i \in 1 .. Len(steps[z])
      BY <2>2, <2>3, PartPlaced
    <2>5. z \in 1 .. Len(steps)
      BY <1>4
    <2>6. At(code, steps, off, off[z - 1] + i, z, i) /\ off[z - 1] + i \in 1 .. Len(code)
      BY <1>5, <2>4, <2>5, PartPlaced
    <2>7. stands(off[z - 1] + i, w)
      BY <2>1, <2>4, <2>6
    <2>8. QED
      BY <1>7, <2>6, <2>7
  <1>11. ASSUME NEW p \in 1 .. n, NEW u \in Spots, stands(p, u), NEW w \in Spots, stands(p, w)
         PROVE  u = w
    <2>1. PICK i : /\ At(code, steps, off, p, u.step, i)
                   /\ At(steps[u.step], Blocks(prog, u.step), inner[u.step], i, u.block, u.place)
      BY <1>11
    <2>2. PICK j : /\ At(code, steps, off, p, w.step, j)
                   /\ At(steps[w.step], Blocks(prog, w.step), inner[w.step], j, w.block, w.place)
      BY <1>11
    <2>3. u.step = w.step /\ i = j
      BY <1>5, <2>1, <2>2, SamePlace
    <2>4. PICK z \in 1 .. T : z = u.step /\ i \in 1 .. Len(steps[z]) /\ Len(steps[z]) \in Nat
      BY <1>4, <1>5, <2>1 DEF At, LaidOut
    <2>5. u.block = w.block /\ u.place = w.place
      <3>1. LaidOut(steps[z], Blocks(prog, z), inner[z]) /\ i \in Int
        BY <1>8, <2>4
      <3>2. /\ At(steps[z], Blocks(prog, z), inner[z], i, u.block, u.place)
            /\ At(steps[z], Blocks(prog, z), inner[z], i, w.block, w.place)
        BY <2>1, <2>2, <2>3, <2>4
      <3>3. QED
        BY <3>1, <3>2, SamePlace
    <2>6. QED
      BY <2>3, <2>5 DEF Spots
  <1>12. ASSUME NEW p \in 1 .. n, NEW u \in Spots, stands(p, u),
                NEW q \in 1 .. n, NEW w \in Spots, stands(q, w), p < q
         PROVE  Before(u, w)
    <2>1. PICK i : /\ At(code, steps, off, p, u.step, i)
                   /\ At(steps[u.step], Blocks(prog, u.step), inner[u.step], i, u.block, u.place)
      BY <1>12
    <2>2. PICK j : /\ At(code, steps, off, q, w.step, j)
                   /\ At(steps[w.step], Blocks(prog, w.step), inner[w.step], j, w.block, w.place)
      BY <1>12
    <2>3. u.step < w.step \/ (u.step = w.step /\ i < j)
      BY <1>5, <1>12, <2>1, <2>2, PlacesInOrder
    <2>4. CASE u.step = w.step /\ i < j
      <3>1. PICK z \in 1 .. T : z = u.step /\ Len(steps[z]) \in Nat
                                /\ i \in 1 .. Len(steps[z]) /\ j \in 1 .. Len(steps[z])
        BY <1>4, <1>5, <2>1, <2>2, <2>4 DEF At, LaidOut
      <3>2. LaidOut(steps[z], Blocks(prog, z), inner[z]) /\ i \in Int /\ j \in Int /\ i < j
        BY <1>8, <2>4, <3>1
      <3>3. /\ At(steps[z], Blocks(prog, z), inner[z], i, u.block, u.place)
            /\ At(steps[z], Blocks(prog, z), inner[z], j, w.block, w.place)
        BY <2>1, <2>2, <2>4, <3>1
      <3>4. u.block < w.block \/ (u.block = w.block /\ u.place < w.place)
        BY <3>2, <3>3, PlacesInOrder
      <3>5. QED
        BY <2>4, <3>4 DEF Before
    <2>5. QED
      BY <2>3, <2>4 DEF Before
  <1>13. ASSUME NEW p \in 1 .. n, NEW w \in Spots, stands(p, w)
         PROVE  code[p] = Block(prog, w.step, w.block)[w.place]
    <2>1. PICK i : /\ At(code, steps, off, p, w.step, i)
                   /\ At(steps[w.step], Blocks(prog, w.step), inner[w.step], i, w.block, w.place)
      BY <1>13
    <2>2. w.step \in 1 .. T /\ w.block \in 1 .. N + 1
      <3>1. w.step \in 1 .. T
        BY <1>4, <2>1 DEF At
      <3>2. QED
        BY <1>8, <2>1, <3>1 DEF At
    <2>3. code[p] = Blocks(prog, w.step)[w.block][w.place]
      BY <2>1 DEF At
    <2>4. QED
      BY <1>8, <2>2, <2>3
  <1> HIDE DEF stands
  <1> DEFINE at == [p \in 1 .. n |-> CHOOSE w \in Spots : Spot(prog, w) /\ stands(p, w)]
  <1>14. ASSUME NEW p \in 1 .. n PROVE at[p] \in Spots /\ Spot(prog, at[p]) /\ stands(p, at[p])
    BY <1>9
  <1>15. at \in [1 .. n -> Spots]
    BY <1>14
  <1> HIDE DEF at
  <1>16. \A w : Spot(prog, w) => \E p \in 1 .. n : at[p] = w
    <2>1. SUFFICES ASSUME NEW w, Spot(prog, w) PROVE \E p \in 1 .. n : at[p] = w
      OBVIOUS
    <2>2. PICK p \in 1 .. n : stands(p, w)
      BY <1>10, <2>1
    <2>3. w \in Spots
      BY <2>1 DEF Spot
    <2>4. QED
      BY <1>11, <1>14, <2>2, <2>3
  <1>17. /\ \A p \in 1 .. n : Spot(prog, at[p]) /\ code[p] = Block(prog, at[p].step, at[p].block)[at[p].place]
         /\ \A p, q \in 1 .. n : p < q => Before(at[p], at[q])
    BY <1>12, <1>13, <1>14
  <1>18. InBlocks(prog, at)
    BY <1>6, <1>7, <1>15, <1>16, <1>17 DEF InBlocks
  <1>19. QED
    BY <1>18

-----------------------------------------------------------------------------
(* The shards of a loop: every iteration is in one of them, and only one.  *)
Shard(loop, n) == Start(loop, n) .. Start(loop, n) + Chunk(loop, n) - 1

LEMMA Truncated ==
  ASSUME NEW a \in Nat, NEW W \in Nat \ {0}
  PROVE  a \div W \in Nat /\ W * (a \div W) <= a /\ a <= W * (a \div W) + (W - 1)
  OBVIOUS

(* The truncated shares leave at most one iteration for each device.       *)
SumUp(L, N, W, T, p, w, b) ==
  /\ T[0] = 0 /\ p[0] = 0 /\ T[N] = W
  /\ \A n \in 1 .. N : /\ w[n] \in Nat /\ b[n] \in Nat
                        /\ T[n] = T[n - 1] + w[n] /\ p[n] = p[n - 1] + b[n]
                        /\ W * b[n] <= w[n] * L /\ w[n] * L <= W * b[n] + (W - 1)

LEMMA SharesFallShort ==
  ASSUME NEW L \in Nat, NEW N \in Nat \ {0}, NEW W \in Nat \ {0},
         NEW T \in [0 .. N -> Nat], NEW p \in [0 .. N -> Nat], NEW w, NEW b,
         SumUp(L, N, W, T, p, w, b)
  PROVE  L - p[N] \in 0 .. N
  <1>a. /\ T[0] = 0 /\ p[0] = 0 /\ T[N] = W
        /\ \A n \in 1 .. N : /\ w[n] \in Nat /\ b[n] \in Nat
                              /\ T[n] = T[n - 1] + w[n] /\ p[n] = p[n - 1] + b[n]
                              /\ W * b[n] <= w[n] * L /\ w[n] * L <= W * b[n] + (W - 1)
    BY DEF SumUp
  <1> DEFINE good == {n \in 0 .. N : W * p[n] <= L * T[n] /\ L * T[n] <= W * p[n] + n * (W - 1)}
  <1>1. 0 \in good
    BY <1>a
  <1>2. ASSUME NEW n \in 1 .. N, n - 1 \in good PROVE n \in good
    <2>1. PICK t \in Nat, q \in Nat, x \in Nat, y \in Nat :
            t = T[n - 1] /\ q = p[n - 1] /\ x = w[n] /\ y = b[n]
      <3>1. n - 1 \in 0 .. N
        OBVIOUS
      <3>2. QED
        BY <1>a, <3>1
    <2>2. T[n] = t + x /\ p[n] = q + y
      BY <1>a, <2>1
    <2>3. W * y <= x * L /\ x * L <= W * y + (W - 1)
      BY <1>a, <2>1
    <2>4. W * q <= L * t /\ L * t <= W * q + (n - 1) * (W - 1)
      BY <1>2, <2>1
    <2>5. L * (t + x) = L * t + x * L /\ W * (q + y) = W * q + W * y
      OBVIOUS
    <2>6. n * (W - 1) = (n - 1) * (W - 1) + (W - 1)
      OBVIOUS
    <2>7. PICK lt \in Int, xl \in Int, wq \in Int, wy \in Int, f \in Int :
            lt = L * t /\ xl = x * L /\ wq = W * q /\ wy = W * y /\ f = (n - 1) * (W - 1)
      OBVIOUS
    <2>8. wq + wy <= lt + xl /\ lt + xl <= wq + wy + (f + (W - 1))
      BY <2>3, <2>4, <2>7
    <2>9. W * p[n] <= L * T[n] /\ L * T[n] <= W * p[n] + n * (W - 1)
      BY <2>2, <2>5, <2>6, <2>7, <2>8
    <2>10. QED
      BY <2>9
  <1>3. N \in good
    <2> HIDE DEF good
    <2>1. \A n \in 0 .. N : n \in good
      BY <1>1, <1>2, Counting
    <2>2. QED
      BY <2>1
  <1>4. PICK q \in Nat : q = p[N]
    OBVIOUS
  <1>5. W * q <= L * W /\ L * W <= W * q + N * (W - 1)
    BY <1>3, <1>4, <1>a
  <1>6. q <= L
    <2>1. SUFFICES ASSUME q >= L + 1 PROVE FALSE
      OBVIOUS
    <2>2. W * q >= W * (L + 1)
      BY <2>1
    <2>3. W * (L + 1) = L * W + W
      OBVIOUS
    <2>4. QED
      BY <1>5, <2>2, <2>3
  <1>7. L - q <= N
    <2>1. SUFFICES ASSUME q <= L - N - 1 PROVE FALSE
      OBVIOUS
    <2>2. W * q <= W * (L - N - 1)
      BY <2>1
    <2>3. PICK lw \in Int, nw \in Int, wq \in Int : lw = L * W /\ nw = N * W /\ wq = W * q
      OBVIOUS
    <2>4. W * (L - N - 1) = L * W - N * W - W /\ N * (W - 1) = N * W - N
      OBVIOUS
    <2>5. wq <= lw - nw - W /\ lw <= wq + (nw - N)
      BY <1>5, <2>2, <2>3, <2>4
    <2>6. QED
      BY <2>5
  <1>8. QED
    BY <1>4, <1>6, <1>7

LEMMA RemainderIsSmall ==
  ASSUME NEW loop, loop.lb \in Nat, loop.ub \in Nat, loop.lb <= loop.ub
  PROVE  Remainder(loop) \in 0 .. NumNodes /\ \A n \in Nodes : BaseChunk(loop, n) \in Nat
  <1>1. PICK N \in Nat \ {0} : N = NumNodes
    BY WeightAssumption
  <1>2. PICK L \in Nat : L = loop.ub - loop.lb
    OBVIOUS
  <1>3. PICK T \in [0 .. N -> Nat] :
          /\ T = RunningSums(Weight) /\ T[0] = 0
          /\ \A n \in 1 .. N : T[n] = T[n - 1] + Weight[n - 1]
    <2>1. Weight \in [Nodes -> Nat]
      BY WeightAssumption
    <2>2. QED
      BY <1>1, <2>1, SumsAdd
  <1>4. PICK W \in Nat \ {0} : W = WeightSum /\ W = T[N]
    <2>1. N \in 1 .. N /\ N - 1 \in 0 .. N /\ N - 1 \in Nodes
      BY <1>1 DEF Nodes
    <2>2. T[N] = T[N - 1] + Weight[N - 1] /\ T[N - 1] \in Nat
      BY <1>3, <2>1
    <2>3. Weight[N - 1] \in Nat \ {0}
      BY <2>1, WeightAssumption
    <2>4. QED
      BY <1>1, <1>3, <2>2, <2>3 DEF WeightSum
  <1> DEFINE base == [n \in Nodes |-> BaseChunk(loop, n)]
  <1>5. ASSUME NEW n \in Nodes
        PROVE  /\ base[n] = BaseChunk(loop, n) /\ base[n] \in Nat /\ Weight[n] \in Nat
               /\ W * base[n] <= Weight[n] * L /\ Weight[n] * L <= W * base[n] + (W - 1)
    <2>1. PICK x \in Nat : x = Weight[n]
      BY WeightAssumption
    <2>2. BaseChunk(loop, n) = (x * L) \div W
      BY <1>2, <1>4, <2>1 DEF BaseChunk
    <2>3. PICK a \in Nat : a = x * L
      OBVIOUS
    <2>4. a \div W \in Nat /\ W * (a \div W) <= a /\ a <= W * (a \div W) + (W - 1)
      BY Truncated
    <2>5. QED
      BY <2>1, <2>2, <2>3, <2>4
  <1>6. base \in [Nodes -> Nat]
    BY <1>5
  <1> HIDE DEF base
  <1>7. PICK p \in [0 .. N -> Nat] :
          /\ p = RunningSums(base) /\ p[0] = 0
          /\ \A n \in 1 .. N : p[n] = p[n - 1] + base[n - 1]
    BY <1>1, <1>6, SumsAdd
  <1> DEFINE w == [n \in 1 .. N |-> Weight[n - 1]]
             b == [n \in 1 .. N |-> base[n - 1]]
  <1>8. ASSUME NEW n \in 1 .. N
        PROVE  /\ w[n] \in Nat /\ b[n] \in Nat
               /\ T[n] = T[n - 1] + w[n] /\ p[n] = p[n - 1] + b[n]
               /\ W * b[n] <= w[n] * L /\ w[n] * L <= W * b[n] + (W - 1)
    <2>1. n - 1 \in Nodes
      BY <1>1 DEF Nodes
    <2>2. QED
      BY <1>3, <1>5, <1>7, <2>1
  <1> HIDE DEF w, b
  <1>9. L - p[N] \in 0 .. N
    <2>1. SumUp(L, N, W, T, p, w, b)
      BY <1>3, <1>4, <1>7, <1>8, Zenon DEF SumUp
    <2>2. QED
      BY <2>1, SharesFallShort, Zenon
  <1>10. Remainder(loop) = L - p[N]
    BY <1>1, <1>2, <1>7 DEF Remainder, base
  <1>11. QED
    BY <1>1, <1>5, <1>9, <1>10

LEMMA ChunksAdd ==
  ASSUME NEW loop, loop.lb \in Nat, loop.ub \in Nat, loop.lb <= loop.ub
  PROVE  \E q \in [0 .. NumNodes -> Nat] :
           /\ q[0] = 0 /\ q[NumNodes] = loop.ub - loop.lb
           /\ \A n \in Nodes : /\ Chunk(loop, n) \in Nat /\ q[n + 1] = q[n] + Chunk(loop, n)
                               /\ Start(loop, n) = loop.lb + q[n]
  <1>1. PICK N \in Nat \ {0} : N = NumNodes
    BY WeightAssumption
  <1>2. PICK R \in 0 .. N : R = Remainder(loop)
    BY <1>1, RemainderIsSmall
  <1> DEFINE base == [n \in Nodes |-> BaseChunk(loop, n)]
             chunk == [n \in Nodes |-> Chunk(loop, n)]
  <1>3. base \in [Nodes -> Nat]
    BY RemainderIsSmall
  <1>4. ASSUME NEW n \in Nodes
        PROVE  /\ chunk[n] = Chunk(loop, n) /\ chunk[n] \in Nat /\ base[n] \in Nat
               /\ chunk[n] = base[n] + (IF n < R THEN 1 ELSE 0)
    <2>1. BaseChunk(loop, n) \in Nat
      BY RemainderIsSmall
    <2>2. Chunk(loop, n) = BaseChunk(loop, n) + (IF n < R THEN 1 ELSE 0)
      BY <1>2 DEF Chunk
    <2>3. QED
      BY <2>1, <2>2
  <1>5. chunk \in [Nodes -> Nat]
    BY <1>4
  <1>6. Remainder(loop) = loop.ub - loop.lb - RunningSums(base)[NumNodes]
    BY DEF Remainder
  <1>7. \A n \in Nodes : Start(loop, n) = loop.lb + RunningSums(chunk)[n]
    BY DEF Start
  <1> HIDE DEF base, chunk
  <1>8. PICK p \in [0 .. N -> Nat] :
          /\ p = RunningSums(base) /\ p[0] = 0
          /\ \A n \in 1 .. N : p[n] = p[n - 1] + base[n - 1]
    BY <1>1, <1>3, SumsAdd
  <1>9. PICK q \in [0 .. N -> Nat] :
          /\ q = RunningSums(chunk) /\ q[0] = 0
          /\ \A n \in 1 .. N : q[n] = q[n - 1] + chunk[n - 1]
    BY <1>1, <1>5, SumsAdd
  <1> DEFINE good == {n \in 0 .. N : q[n] = p[n] + (IF n < R THEN n ELSE R)}
  <1>10. 0 \in good
    BY <1>8, <1>9
  <1>11. ASSUME NEW n \in 1 .. N, n - 1 \in good PROVE n \in good
    <2>1. n - 1 \in Nodes /\ n - 1 \in 0 .. N
      BY <1>1 DEF Nodes
    <2>2. PICK x \in Nat, y \in Nat : x = chunk[n - 1] /\ y = base[n - 1] /\ x = y + (IF n - 1 < R THEN 1 ELSE 0)
      BY <1>4, <2>1
    <2>3. q[n] = q[n - 1] + x /\ p[n] = p[n - 1] + y
      BY <1>8, <1>9, <2>2
    <2>4. PICK g \in Nat, h \in Nat : g = q[n - 1] /\ h = p[n - 1] /\ g = h + (IF n - 1 < R THEN n - 1 ELSE R)
      BY <1>11, <2>1
    <2>5. q[n] = g + x /\ p[n] = h + y /\ n \in 0 .. N /\ R \in Nat
      BY <2>3, <2>4
    <2>6. q[n] = p[n] + (IF n < R THEN n ELSE R)
      <3>1. CASE n - 1 < R
        <4>1. x = y + 1 /\ g = h + (n - 1)
          BY <2>2, <2>4, <3>1
        <4>2. q[n] = h + y + n /\ p[n] = h + y
          BY <2>5, <4>1
        <4>3. (IF n < R THEN n ELSE R) = n
          BY <3>1
        <4>4. QED
          BY <4>2, <4>3
      <3>2. CASE ~ n - 1 < R
        <4>1. x = y /\ g = h + R
          BY <2>2, <2>4, <3>2
        <4>2. q[n] = h + y + R /\ p[n] = h + y
          BY <2>5, <4>1
        <4>3. (IF n < R THEN n ELSE R) = R
          BY <3>2
        <4>4. QED
          BY <4>2, <4>3
      <3>3. QED
        BY <3>1, <3>2
    <2>7. QED
      BY <2>5, <2>6
  <1>12. N \in good
    <2> HIDE DEF good
    <2>1. \A n \in 0 .. N : n \in good
      BY <1>10, <1>11, Counting
    <2>2. QED
      BY <2>1
  <1>13. q[N] = loop.ub - loop.lb
    <2>1. q[N] = p[N] + R
      BY <1>12
    <2>2. R = loop.ub - loop.lb - p[N]
      BY <1>1, <1>2, <1>6, <1>8
    <2>3. p[N] \in Nat
      OBVIOUS
    <2>4. QED
      BY <2>1, <2>2, <2>3
  <1>14. ASSUME NEW n \in Nodes
         PROVE  q[n + 1] = q[n] + Chunk(loop, n) /\ Start(loop, n) = loop.lb + q[n]
    <2>1. n + 1 \in 1 .. N /\ (n + 1) - 1 = n
      BY <1>1 DEF Nodes
    <2>2. QED
      BY <1>4, <1>7, <1>9, <2>1
  <1>15. QED
    BY <1>1, <1>4, <1>9, <1>13, <1>14

LEMMA ShardsTile ==
  ASSUME NEW loop, loop.lb \in Nat, loop.ub \in Nat, loop.lb <= loop.ub
  PROVE  /\ \A n \in Nodes : Shard(loop, n) \subseteq loop.lb .. loop.ub - 1
         /\ \A i \in loop.lb .. loop.ub - 1 : \E n \in Nodes : i \in Shard(loop, n)
         /\ \A n, m \in Nodes : \A i : i \in Shard(loop, n) /\ i \in Shard(loop, m) => n = m
  <1>1. PICK N \in Nat \ {0} : N = NumNodes
    BY WeightAssumption
  <1>2. PICK lb \in Nat, ub \in Nat : lb = loop.lb /\ ub = loop.ub
    OBVIOUS
  <1>3. PICK q \in [0 .. N -> Nat] :
           /\ q[0] = 0 /\ q[N] = ub - lb
           /\ \A n \in Nodes : /\ Chunk(loop, n) \in Nat /\ q[n + 1] = q[n] + Chunk(loop, n)
                               /\ Start(loop, n) = lb + q[n]
    BY <1>1, <1>2, ChunksAdd
  <1>4. ASSUME NEW n \in Nodes
        PROVE  /\ n \in 0 .. N /\ n + 1 \in 0 .. N /\ q[n] <= q[n + 1]
               /\ Shard(loop, n) = lb + q[n] .. lb + q[n + 1] - 1
    <2>1. n \in 0 .. N /\ n + 1 \in 0 .. N
      BY <1>1 DEF Nodes
    <2>2. QED
      BY <1>3, <2>1 DEF Shard
  <1>5. ASSUME NEW a \in 0 .. N PROVE \A n \in 0 .. N : a <= n => q[a] <= q[n]
    <2> DEFINE good == {n \in 0 .. N : a <= n => q[a] <= q[n]}
    <2>1. 0 \in good
      OBVIOUS
    <2>2. ASSUME NEW n \in 1 .. N, n - 1 \in good PROVE n \in good
      <3>1. n - 1 \in Nodes
        BY <1>1 DEF Nodes
      <3>2. (n - 1) + 1 = n
        OBVIOUS
      <3>3. q[n - 1] <= q[n] /\ q[n - 1] \in Nat /\ q[n] \in Nat /\ q[a] \in Nat
        BY <1>4, <3>1, <3>2
      <3>4. CASE a = n
        BY <3>3, <3>4
      <3>5. CASE a # n
        BY <2>2, <3>3, <3>5
      <3>6. QED
        BY <3>4, <3>5
    <2>3. \A n \in 0 .. N : n \in good
      <3> HIDE DEF good
      <3>1. QED
        BY <2>1, <2>2, Counting
    <2>4. QED
      BY <2>3
  <1>6. ASSUME NEW n \in Nodes PROVE Shard(loop, n) \subseteq lb .. ub - 1
    <2>1. q[n + 1] <= q[N] /\ q[n] \in Nat /\ q[n + 1] \in Nat
      BY <1>4, <1>5
    <2>2. Shard(loop, n) = lb + q[n] .. lb + q[n + 1] - 1
      BY <1>4
    <2>3. q[N] = ub - lb
      BY <1>3
    <2>4. PICK x \in Nat, y \in Nat : x = q[n] /\ y = q[n + 1]
      BY <2>1
    <2>5. y <= ub - lb
      BY <2>1, <2>3, <2>4
    <2>6. lb + x .. lb + y - 1 \subseteq lb .. ub - 1
      BY <2>5
    <2>7. QED
      BY <2>2, <2>4, <2>6, Zenon
  <1>7. ASSUME NEW i \in lb .. ub - 1 PROVE \E n \in Nodes : i \in Shard(loop, n)
    <2> DEFINE S == {n \in 0 .. N : lb + q[n] <= i}
    <2>1. 0 \in S /\ N \notin S
      BY <1>3
    <2>2. PICK x \in S : \A y \in S : y <= x
      <3>1. S \in SUBSET (0 .. N) /\ S # {}
        BY <2>1
      <3> HIDE DEF S
      <3>2. QED
        BY <3>1, LargestNumber
    <2>3. x \in Nodes /\ x + 1 \notin S
      BY <1>1, <2>1, <2>2 DEF Nodes
    <2>4. x + 1 \in 0 .. N /\ Shard(loop, x) = lb + q[x] .. lb + q[x + 1] - 1
      BY <1>4, <2>3
    <2>5. lb + q[x] <= i /\ i < lb + q[x + 1] /\ q[x] \in Nat /\ q[x + 1] \in Nat
      BY <2>2, <2>3, <2>4
    <2>6. i \in Shard(loop, x)
      BY <2>4, <2>5
    <2>7. QED
      BY <2>3, <2>6
  <1>8. ASSUME NEW n \in Nodes, NEW m \in Nodes, n < m, NEW i, i \in Shard(loop, n), i \in Shard(loop, m)
        PROVE  FALSE
    <2>1. n + 1 \in 0 .. N /\ m \in 0 .. N /\ n + 1 <= m
      BY <1>1, <1>8 DEF Nodes
    <2>2. q[n + 1] <= q[m] /\ q[n + 1] \in Nat /\ q[m] \in Nat
      BY <1>5, <2>1
    <2>3. i \in lb + q[n] .. lb + q[n + 1] - 1 /\ i \in lb + q[m] .. lb + q[m + 1] - 1
      BY <1>4, <1>8
    <2>4. q[n] \in Nat /\ q[m + 1] \in Nat
      BY <1>4
    <2>5. QED
      BY <2>2, <2>3, <2>4
  <1>9. \A n, m \in Nodes : \A i : i \in Shard(loop, n) /\ i \in Shard(loop, m) => n = m
    <2>1. \A n, m \in Nodes : n < m \/ m < n \/ n = m
      BY DEF Nodes
    <2>2. QED
      BY <1>8, <2>1
  <1>10. QED
    BY <1>2, <1>6, <1>7, <1>9

(* They depend on the bounds only.                                         *)
LEMMA SameShards ==
  ASSUME NEW a, NEW b, a.lb = b.lb, a.ub = b.ub, NEW n
  PROVE  Shard(a, n) = Shard(b, n)
  <1>1. \A m : BaseChunk(a, m) = BaseChunk(b, m)
    BY DEF BaseChunk
  <1>2. Remainder(a) = Remainder(b)
    BY <1>1 DEF Remainder
  <1>3. \A m : Chunk(a, m) = Chunk(b, m)
    BY <1>1, <1>2 DEF Chunk
  <1>4. Start(a, n) = Start(b, n)
    BY <1>3 DEF Start
  <1>5. QED
    BY <1>3, <1>4 DEF Shard

-----------------------------------------------------------------------------
(* What a computation of the text touches.                                 *)
LEMMA LoopFields ==
  ASSUME NEW prog, WellFormed(prog), Accepted(prog), NEW k \in Parallel(prog)
  PROVE  /\ k \in Nat \ {0} /\ k \in Items(prog)
         /\ prog.items[k].lb \in Nat /\ prog.items[k].ub \in Nat
         /\ prog.items[k].lb <= prog.items[k].ub
         /\ prog.items[k].accesses \in Seq(Accesses) /\ Lowerable(prog.items[k])
         /\ Independent(prog.items[k]) /\ InRange(prog.items[k])
         /\ prog.items[k].kind = "parallel"
  BY DEF WellFormed, WellFormedItem, Parallel, Accepted, Lowerable, Items

(* A loop writes the memrefs it stores to.                                 *)
LEMMA OutputMems ==
  ASSUME NEW prog, WellFormed(prog), Accepted(prog), NEW k \in Parallel(prog), NEW m
  PROVE  m \in ToSet(Writes(prog.items[k])) <=> \E a \in Stores(prog.items[k]) : a.mem = m
  <1>1. PICK item : item = prog.items[k] /\ item.accesses \in Seq(Accesses)
    BY LoopFields
  <1>2. ToSet(Writes(item)) = {a.mem : a \in AccessSet(item) \cap Stores(item)}
    BY <1>1, Collected DEF Writes
  <1>3. Stores(item) \subseteq AccessSet(item)
    BY DEF Stores
  <1>4. QED
    BY <1>1, <1>2, <1>3

LEMMA DatedCells ==
  ASSUME NEW prog, NEW s, NEW cells, NEW c
  PROVE  /\ (\E d \in Dated(prog, s, cells) : c = d.cell) <=> c \in cells
         /\ \A d \in Dated(prog, s, cells) : d.version = VersionBefore(prog, s, d.cell)
  <1>1. ASSUME NEW d \in Dated(prog, s, cells)
        PROVE  d.cell \in cells /\ d.version = VersionBefore(prog, s, d.cell)
    BY DEF Dated
  <1>2. ASSUME c \in cells PROVE \E d \in Dated(prog, s, cells) : c = d.cell
    <2>1. PICK d : d = [cell |-> c, version |-> VersionBefore(prog, s, c)] /\ d.cell = c
      <3>1. [cell |-> c, version |-> VersionBefore(prog, s, c)].cell = c
        OBVIOUS
      <3>2. QED
        BY <3>1
    <2>2. d \in Dated(prog, s, cells)
      BY <1>2, <2>1 DEF Dated
    <2>3. QED
      BY <2>1, <2>2
  <1>3. QED
    BY <1>1, <1>2

(* An iteration stores in its own row, of memrefs its loop writes.         *)
LEMMA StoreCells ==
  ASSUME NEW prog, WellFormed(prog), Accepted(prog), NEW k \in Parallel(prog),
         NEW i \in Int, NEW c \in StoresOf(prog.items[k], i)
  PROVE  c \in Cells /\ c[2] = i /\ c[1] \in ToSet(Writes(prog.items[k]))
  <1>1. c \in Cells /\ \E a \in Stores(prog.items[k]) : a.mem = c[1] /\ c[2] = i
    BY StoreTouches
  <1>2. \A m : m \in ToSet(Writes(prog.items[k])) <=> \E a \in Stores(prog.items[k]) : a.mem = m
    BY OutputMems
  <1>3. QED
    BY <1>1, <1>2

(* The effect of a task: the cells its iterations store, each computed     *)
(* from what its iteration loads.  The rest of their rows it keeps.        *)
OfIteration(prog, k, s, e, i) ==
  /\ e.cell \in StoresOf(prog.items[k], i)
  /\ e.needs = Dated(prog, s, LoadsOf(prog.items[k], i))

KeptIn(item, i) ==
  {c \in Cells : c[2] = i /\ \E a \in Stores(item) : a.mem = c[1]} \ StoresOf(item, i)

LEMMA TaskEffect ==
  ASSUME NEW prog, WellFormed(prog), Accepted(prog), NEW k \in Parallel(prog), NEW n \in Nodes, NEW s
  PROVE  /\ TaskBody(prog, Task(prog, k, n), s).op = "compute"
         /\ TaskBody(prog, Task(prog, k, n), s).nodes = {n}
         /\ TaskBody(prog, Task(prog, k, n), s).version = s
         /\ \A e \in TaskBody(prog, Task(prog, k, n), s).effect :
              \E i \in Shard(prog.items[k], n) : OfIteration(prog, k, s, e, i)
         /\ \A i \in Shard(prog.items[k], n) : \A c \in StoresOf(prog.items[k], i) :
              \E e \in TaskBody(prog, Task(prog, k, n), s).effect : e.cell = c
         /\ Shard(prog.items[k], n) \subseteq Int
         /\ \E cells : /\ TaskBody(prog, Task(prog, k, n), s).keeps = Dated(prog, s, cells)
                       /\ \A c : c \in cells <=>
                                   \E i \in Shard(prog.items[k], n) : c \in KeptIn(prog.items[k], i)
  <1>1. PICK item : item = prog.items[k] /\ item.lb \in Nat /\ item.ub \in Nat /\ item.lb <= item.ub
    BY LoopFields
  <1>2. PICK start \in Nat, chunk \in Nat : start = Start(item, n) /\ chunk = Chunk(item, n)
    BY <1>1, ShardsAreRanges
  <1>3. PICK t : /\ t = Task(prog, k, n) /\ t.item = k /\ t.target = n
                 /\ t.outRanges = <<start, start + chunk>>
    <2>1. PICK t : t = Task(prog, k, n)
      OBVIOUS
    <2>2. t.item = k /\ t.target = n /\ t.outRanges = <<start, start + chunk>>
      BY <1>1, <1>2, <2>1 DEF Task
    <2>3. QED
      BY <2>1, <2>2
  <1>4. PICK rows : rows = start .. start + chunk - 1 /\ rows = Shard(item, n) /\ rows \subseteq Int
    BY <1>2 DEF Shard
  <1>5. Iterations(t) = rows
    BY <1>3, <1>4 DEF Iterations
  <1> DEFINE needs(i) == Dated(prog, s, LoadsOf(item, i))
             iteration(i) == {[cell |-> c, needs |-> needs(i)] : c \in StoresOf(item, i)}
  <1>6. PICK x : x = TaskBody(prog, t, s) /\ x.op = "compute" /\ x.nodes = {n} /\ x.version = s
                 /\ x.effect = UNION {iteration(i) : i \in rows}
                 /\ x.keeps = Dated(prog, s, Kept(prog, t))
    <2>1. PICK x : x = TaskBody(prog, t, s)
      OBVIOUS
    <2>2. x.effect = UNION {iteration(i) : i \in rows}
      BY <1>1, <1>3, <1>5, <2>1 DEF TaskBody, Body
    <2>3. x.op = "compute" /\ x.nodes = {n} /\ x.version = s /\ x.keeps = Dated(prog, s, Kept(prog, t))
      BY <1>3, <2>1 DEF TaskBody, Body
    <2>4. QED
      BY <2>1, <2>2, <2>3
  <1>7. ASSUME NEW e \in x.effect PROVE \E i \in rows : OfIteration(prog, k, s, e, i)
    <2>1. PICK i \in rows : e \in iteration(i)
      BY <1>6
    <2>2. PICK c \in StoresOf(item, i) : e = [cell |-> c, needs |-> needs(i)]
      BY <2>1
    <2>3. e.needs = needs(i) /\ e.cell = c
      BY <2>2
    <2>4. QED
      BY <1>1, <2>3 DEF OfIteration
  <1>8. ASSUME NEW i \in rows, NEW c \in StoresOf(item, i) PROVE \E e \in x.effect : e.cell = c
    <2>1. PICK e \in {[cell |-> c, needs |-> needs(i)]} : e.cell = c
      <3>1. [cell |-> c, needs |-> needs(i)].cell = c
        OBVIOUS
      <3>2. QED
        BY <3>1
    <2>2. e \in iteration(i)
      BY <2>1
    <2>3. e \in x.effect
      BY <1>6, <2>2
    <2>4. QED
      BY <2>1, <2>3
  <1>9. ASSUME NEW c PROVE c \in Kept(prog, t) <=> \E i \in rows : c \in KeptIn(item, i)
    <2>1. c \in Kept(prog, t) <=>
            /\ c \in Cells /\ \E a \in Stores(item) : a.mem = c[1]
            /\ c[2] \in rows /\ c \notin StoresOf(item, c[2])
      BY <1>1, <1>3, <1>5 DEF Kept
    <2>2. \A i : c \in KeptIn(item, i) <=>
            /\ c \in Cells /\ \E a \in Stores(item) : a.mem = c[1]
            /\ c[2] = i /\ c \notin StoresOf(item, i)
      BY DEF KeptIn
    <2>3. QED
      BY <2>1, <2>2
  <1>10. QED
    BY <1>1, <1>3, <1>4, <1>6, <1>7, <1>8, <1>9

(* The cells of the rows a computation stores to.                          *)
Travels(instr, c) == c \in Written(instr) \/ \E d \in instr.keeps : c = d.cell

LEMMA TaskTouches ==
  ASSUME NEW prog, WellFormed(prog), Accepted(prog), NEW k \in Parallel(prog), NEW n \in Nodes, NEW s, NEW c
  PROVE  /\ c \in Written(TaskBody(prog, Task(prog, k, n), s)) <=>
              \E i \in Shard(prog.items[k], n) : c \in StoresOf(prog.items[k], i)
         /\ (\E d \in TaskBody(prog, Task(prog, k, n), s).keeps : c = d.cell) <=>
              \E i \in Shard(prog.items[k], n) : c \in KeptIn(prog.items[k], i)
         /\ c \in ReadBy(TaskBody(prog, Task(prog, k, n), s)) =>
              \E i \in Shard(prog.items[k], n) : c \in TakesIn(prog.items[k], i)
  <1>1. PICK x : x = TaskBody(prog, Task(prog, k, n), s)
    OBVIOUS
  <1>2. /\ \A e \in x.effect : \E i \in Shard(prog.items[k], n) : OfIteration(prog, k, s, e, i)
        /\ \A i \in Shard(prog.items[k], n) : \A b \in StoresOf(prog.items[k], i) : \E e \in x.effect : e.cell = b
    BY <1>1, TaskEffect
  <1>3. c \in Written(x) <=> \E i \in Shard(prog.items[k], n) : c \in StoresOf(prog.items[k], i)
    <2>1. c \in Written(x) <=> \E e \in x.effect : c = e.cell
      BY DEF Written
    <2>2. QED
      BY <1>2, <2>1 DEF OfIteration
  <1>4. (\E d \in x.keeps : c = d.cell) <=> \E i \in Shard(prog.items[k], n) : c \in KeptIn(prog.items[k], i)
    <2>1. PICK cells : /\ x.keeps = Dated(prog, s, cells)
                       /\ \A b : b \in cells <=> \E i \in Shard(prog.items[k], n) : b \in KeptIn(prog.items[k], i)
      BY <1>1, TaskEffect
    <2>2. (\E d \in x.keeps : c = d.cell) <=> c \in cells
      BY <2>1, DatedCells
    <2>3. QED
      BY <2>1, <2>2
  <1>5. ASSUME c \in ReadBy(x) PROVE \E i \in Shard(prog.items[k], n) : c \in TakesIn(prog.items[k], i)
    <2>1. CASE \E e \in x.effect : \E d \in e.needs : c = d.cell
      <3>1. PICK e \in x.effect : \E d \in e.needs : c = d.cell
        BY <2>1
      <3>2. PICK i \in Shard(prog.items[k], n) : e.needs = Dated(prog, s, LoadsOf(prog.items[k], i))
        BY <1>2 DEF OfIteration
      <3>3. c \in LoadsOf(prog.items[k], i)
        BY <3>1, <3>2, DatedCells
      <3>4. QED
        BY <3>3 DEF TakesIn
    <2>2. CASE \E d \in x.keeps : c = d.cell
      <3>1. PICK i \in Shard(prog.items[k], n) : c \in KeptIn(prog.items[k], i)
        BY <1>4, <2>2
      <3>2. QED
        BY <3>1 DEF KeptIn, TakesIn
    <2>3. QED
      BY <1>5, <2>1, <2>2 DEF ReadBy
  <1>6. QED
    BY <1>1, <1>3, <1>4, <1>5

(* Shards of one loop do not clash.                                        *)
LEMMA ShardsAgree ==
  ASSUME NEW prog, WellFormed(prog), Accepted(prog), NEW k \in Parallel(prog),
         NEW n \in Nodes, NEW m \in Nodes, n # m, NEW s, NEW z
  PROVE  ~ Clash(TaskBody(prog, Task(prog, k, n), s), TaskBody(prog, Task(prog, k, m), z))
  <1>1. PICK item : item = prog.items[k]
          /\ item.lb \in Nat /\ item.ub \in Nat /\ item.lb <= item.ub /\ Independent(item)
    BY LoopFields
  <1>2. ASSUME NEW i \in Shard(item, n), NEW j \in Shard(item, m)
        PROVE  i # j /\ i \in item.lb .. item.ub - 1 /\ j \in item.lb .. item.ub - 1
    BY <1>1, ShardsTile
  <1>3. ASSUME NEW i \in Shard(item, n), NEW j \in Shard(item, m), NEW c
        PROVE  /\ ~ (c \in StoresOf(item, i) /\ c \in StoresOf(item, j))
               /\ ~ (c \in TakesIn(item, i) /\ c \in StoresOf(item, j))
               /\ ~ (c \in StoresOf(item, i) /\ c \in TakesIn(item, j))
    <2>1. i # j /\ i \in Int /\ j \in Int
      BY <1>1, <1>2
    <2>2. c \in StoresOf(item, i) => c[2] = i
      BY <1>1, <2>1, StoreCells
    <2>3. c \in StoresOf(item, j) => c[2] = j
      BY <1>1, <2>1, StoreCells
    <2>4. LoadsOf(item, i) \cap StoresOf(item, j) = {} /\ LoadsOf(item, j) \cap StoresOf(item, i) = {}
      BY <1>1, <1>2 DEF Independent
    <2>5. /\ c \in TakesIn(item, i) => c \in LoadsOf(item, i) \/ c[2] = i
          /\ c \in TakesIn(item, j) => c \in LoadsOf(item, j) \/ c[2] = j
      BY DEF TakesIn
    <2>6. QED
      BY <2>1, <2>2, <2>3, <2>4, <2>5
  <1>4. PICK x, y : x = TaskBody(prog, Task(prog, k, n), s) /\ y = TaskBody(prog, Task(prog, k, m), z)
    OBVIOUS
  <1>5. ASSUME NEW c
        PROVE  /\ c \in Written(x) => \E i \in Shard(item, n) : c \in StoresOf(item, i)
               /\ c \in Written(y) => \E i \in Shard(item, m) : c \in StoresOf(item, i)
               /\ c \in ReadBy(x) => \E i \in Shard(item, n) : c \in TakesIn(item, i)
               /\ c \in ReadBy(y) => \E i \in Shard(item, m) : c \in TakesIn(item, i)
    BY <1>1, <1>4, TaskTouches
  <1>6. SUFFICES ASSUME Clash(x, y) PROVE FALSE
    BY <1>4
  <1>7. PICK c : (c \in Written(x) /\ c \in Written(y)) \/ (c \in Written(x) /\ c \in ReadBy(y))
                 \/ (c \in ReadBy(x) /\ c \in Written(y))
    BY <1>6 DEF Clash
  <1>8. QED
    BY <1>3, <1>5, <1>7

LEMMA HostEffect ==
  ASSUME NEW prog, NEW k, NEW s
  PROVE  /\ SerialBody(prog, k, s).op = "compute" /\ SerialBody(prog, k, s).nodes = Nodes
         /\ SerialBody(prog, k, s).version = s
         /\ Written(SerialBody(prog, k, s)) = prog.items[k].writes
         /\ \A e \in SerialBody(prog, k, s).effect : e.needs = Dated(prog, s, prog.items[k].reads)
         /\ SerialBody(prog, k, s).keeps = {}
  <1>1. PICK needs : needs = Dated(prog, s, prog.items[k].reads)
    OBVIOUS
  <1>2. PICK cells : cells = prog.items[k].writes
    OBVIOUS
  <1>3. PICK x : /\ x = SerialBody(prog, k, s) /\ x.op = "compute" /\ x.nodes = Nodes /\ x.version = s
                 /\ x.effect = {[cell |-> c, needs |-> needs] : c \in cells} /\ x.keeps = {}
    <2>1. PICK x : x = SerialBody(prog, k, s)
      OBVIOUS
    <2>2. x.effect = {[cell |-> c, needs |-> needs] : c \in cells}
      BY <1>1, <1>2, <2>1 DEF SerialBody, Body
    <2>3. x.op = "compute" /\ x.nodes = Nodes /\ x.version = s /\ x.keeps = {}
      BY <2>1 DEF SerialBody, Body
    <2>4. QED
      BY <2>1, <2>2, <2>3
  <1>4. ASSUME NEW e \in x.effect PROVE e.cell \in cells /\ e.needs = needs
    BY <1>3
  <1>5. ASSUME NEW c \in cells PROVE \E e \in x.effect : e.cell = c
    <2>1. PICK e \in {[cell |-> c, needs |-> needs]} : e.cell = c
      <3>1. [cell |-> c, needs |-> needs].cell = c
        OBVIOUS
      <3>2. QED
        BY <3>1
    <2>2. e \in x.effect
      BY <1>3, <2>1
    <2>3. QED
      BY <2>1, <2>2
  <1>6. Written(x) = cells
    BY <1>4, <1>5 DEF Written
  <1>7. QED
    BY <1>1, <1>2, <1>3, <1>4, <1>6

LEMMA LoopWrites ==
  ASSUME NEW prog, WellFormed(prog), Accepted(prog), NEW k \in Parallel(prog), NEW s, NEW c
  PROVE  c \in WrittenBy(prog.items[k]) <=>
           \E n \in Nodes : c \in Written(TaskBody(prog, Task(prog, k, n), s))
  <1>1. PICK item : item = prog.items[k] /\ item.lb \in Nat /\ item.ub \in Nat /\ item.lb <= item.ub
                    /\ item.kind = "parallel"
    BY LoopFields
  <1>2. c \in WrittenBy(item) <=> \E i \in item.lb .. item.ub - 1 : c \in StoresOf(item, i)
    BY <1>1 DEF WrittenBy
  <1>3. \A n \in Nodes : c \in Written(TaskBody(prog, Task(prog, k, n), s)) <=>
                           \E i \in Shard(item, n) : c \in StoresOf(item, i)
    BY <1>1, TaskTouches
  <1>4. /\ \A n \in Nodes : Shard(item, n) \subseteq item.lb .. item.ub - 1
        /\ \A i \in item.lb .. item.ub - 1 : \E n \in Nodes : i \in Shard(item, n)
    BY <1>1, ShardsTile
  <1>5. QED
    BY <1>1, <1>2, <1>3, <1>4

-----------------------------------------------------------------------------
(* The slabs of a task's outputs are the cells of the rows it stores to.   *)
LEMMA CellParts ==
  ASSUME AllCells = Cells, NEW c \in Cells
  PROVE  c = <<c[1], c[2], c[3]>> /\ c[3] \in Parts
  <1>1. PICK m \in Mems : c \in {m} \X (0 .. Extent[m] - 1) \X Columns[m]
    BY DEF Cells, MemCells
  <1>2. QED
    BY <1>1 DEF Parts

LEMMA OutputCells ==
  ASSUME AllCells = Cells, NEW prog, WellFormed(prog), Accepted(prog), NEW k \in Parallel(prog),
         NEW n \in Nodes, NEW s, NEW c \in Cells
  PROVE  Travels(TaskBody(prog, Task(prog, k, n), s), c) <=>
           \E j \in 1 .. Len(Task(prog, k, n).outputs) : c \in SlabCells(OutSlabs(Task(prog, k, n))[j])
  <1>1. PICK item : item = prog.items[k] /\ item.accesses \in Seq(Accesses) /\ Lowerable(item)
          /\ item.lb \in Nat /\ item.ub \in Nat /\ item.lb <= item.ub
    BY LoopFields
  <1>2. PICK start \in Nat, chunk \in Nat : start = Start(item, n) /\ chunk = Chunk(item, n)
    BY <1>1, ShardsAreRanges
  <1>3. PICK rows : rows = start .. start + chunk - 1 /\ rows = Shard(item, n) /\ rows \subseteq Int
    BY <1>2 DEF Shard
  <1>4. PICK outs \in Seq(Mems) : outs = Writes(item)
    BY <1>1, Collected DEF Writes
  <1>5. PICK N \in Nat : N = Len(outs) /\ DOMAIN outs = 1 .. N
    BY <1>4
  <1>6. PICK t : t = Task(prog, k, n)
    OBVIOUS
  <1>7. t.outRanges = <<start, start + chunk>> /\ t.outputs = Operands(prog, k, n, outs)
    BY <1>1, <1>2, <1>4, <1>6 DEF Task
  <1>8. Len(t.outputs) = N /\ \A j \in 1 .. N : t.outputs[j].mem = outs[j]
    <2>1. t.outputs = [j \in 1 .. N |-> IF Sliced(prog, k, outs[j])
                                         THEN SubView(outs[j], Start(item, n), Chunk(item, n))
                                         ELSE Whole(outs[j])]
      BY <1>1, <1>5, <1>7 DEF Operands
    <2>2. Len(t.outputs) = N
      BY <2>1
    <2>3. \A m : SubView(m, Start(item, n), Chunk(item, n)).mem = m /\ Whole(m).mem = m
      BY DEF SubView, Whole
    <2>4. ASSUME NEW j \in 1 .. N PROVE t.outputs[j].mem = outs[j]
      <3>1. t.outputs[j] = IF Sliced(prog, k, outs[j])
                             THEN SubView(outs[j], Start(item, n), Chunk(item, n))
                             ELSE Whole(outs[j])
        BY <2>1
      <3>2. QED
        BY <2>3, <3>1
    <2>5. QED
      BY <2>2, <2>4
  <1>9. ASSUME NEW j \in 1 .. N PROVE SlabCells(OutSlabs(t)[j]) = {outs[j]} \X rows \X Parts
    <2>1. OutSlabs(t)[j] = Slab(outs[j], start, chunk)
      BY <1>7, <1>8 DEF OutSlabs
    <2>2. OutSlabs(t)[j].mem = outs[j] /\ OutSlabs(t)[j].lo = start /\ OutSlabs(t)[j].len = chunk
      BY <2>1 DEF Slab
    <2>3. QED
      BY <1>3, <2>2 DEF SlabCells
  <1>10. Travels(TaskBody(prog, t, s), c) <=> c[2] \in rows /\ c[1] \in ToSet(outs)
    <2>1. Travels(TaskBody(prog, t, s), c) <=>
            \E i \in rows : c \in StoresOf(item, i) \/ c \in KeptIn(item, i)
      BY <1>1, <1>3, <1>6, TaskTouches DEF Travels
    <2>2. \A i \in rows : c \in StoresOf(item, i) => c[2] = i /\ c[1] \in ToSet(outs)
      BY <1>1, <1>3, <1>4, StoreCells
    <2>3. c[1] \in ToSet(outs) <=> \E a \in Stores(item) : a.mem = c[1]
      <3>1. \A m : m \in ToSet(Writes(prog.items[k])) <=> \E a \in Stores(prog.items[k]) : a.mem = m
        BY OutputMems
      <3>2. QED
        BY <1>1, <1>4, <3>1
    <2>4. \A i : c \in KeptIn(item, i) <=> c[2] = i /\ c[1] \in ToSet(outs) /\ c \notin StoresOf(item, i)
      BY <2>3 DEF KeptIn
    <2>5. QED
      BY <2>1, <2>2, <2>4
  <1>11. c = <<c[1], c[2], c[3]>> /\ c[3] \in Parts
    BY CellParts
  <1>12. ToSet(outs) = {outs[j] : j \in 1 .. N}
    BY <1>5 DEF ToSet
  <1>13. (\E j \in 1 .. N : c \in SlabCells(OutSlabs(t)[j])) <=>
           c[2] \in rows /\ \E j \in 1 .. N : c[1] = outs[j]
    BY <1>9, <1>11
  <1>14. QED
    BY <1>6, <1>8, <1>10, <1>12, <1>13

(* Slabs that lie one after the other are the slab broadcast for them.     *)
LEMMA CombinedCells ==
  ASSUME NEW slabs \in Seq(RowSlabs), slabs # <<>>, Contiguous(slabs), NEW c
  PROVE  c \in SlabCells(CombinedSlab(slabs)) <=>
           \E j \in 1 .. Len(slabs) : c \in SlabCells(slabs[j])
  <1>1. PICK sum : Combined(slabs, sum)
    BY CombinedSums
  <1>2. PICK N \in Nat : N = Len(slabs) /\ N >= 1 /\ \A j \in 1 .. N : slabs[j] \in RowSlabs
    OBVIOUS
  <1>3. /\ sum \in [0 .. N -> Nat] /\ sum[0] = 0
        /\ \A n \in 1 .. N : sum[n] = sum[n - 1] + slabs[n].len
    BY <1>1, <1>2 DEF Combined
  <1>3a. ASSUME NEW n \in 1 .. N
         PROVE  /\ n - 1 \in 0 .. N /\ sum[n - 1] \in Nat /\ slabs[n].len \in Nat
                /\ sum[n] = sum[n - 1] + slabs[n].len
    <2>1. n - 1 \in 0 .. N
      OBVIOUS
    <2>2. slabs[n].len \in Nat
      BY <1>2 DEF RowSlabs
    <2>3. QED
      BY <1>3, <2>1, <2>2
  <1>4. PICK m \in Mems, lo \in Nat : m = slabs[1].mem /\ lo = slabs[1].lo
    BY <1>2 DEF RowSlabs
  <1>5. SlabCells(CombinedSlab(slabs)) = {m} \X (lo .. lo + sum[N] - 1) \X Parts
    <2>1. (IF \E b \in ToSet(slabs) : RankOf[b.mem] >= 2 THEN slabs[1].lo ELSE 0) = lo
      <3>1. CASE \E b \in ToSet(slabs) : RankOf[b.mem] >= 2
        BY <1>4, <3>1
      <3>2. CASE ~ \E b \in ToSet(slabs) : RankOf[b.mem] >= 2
        <4>1. slabs[1] \in ToSet(slabs)
          BY <1>2 DEF ToSet
        <4>2. slabs[1].lo = 0
          BY <3>2, <4>1 DEF Contiguous
        <4>3. QED
          BY <1>4, <3>2, <4>2
      <3>3. QED
        BY <3>1, <3>2
    <2>2. CombinedSlab(slabs) = Slab(m, lo, sum[N])
      BY <1>1, <1>2, <1>4, <2>1 DEF Combined
    <2>3. QED
      BY <2>2 DEF SlabCells, Slab
  <1> DEFINE good == {n \in 0 .. N : n > 0 => slabs[n].mem = m /\ slabs[n].lo = lo + sum[n - 1]}
  <1>6. \A n \in 1 .. N : slabs[n].mem = m /\ slabs[n].lo = lo + sum[n - 1]
    <2>1. 0 \in good
      OBVIOUS
    <2>2. ASSUME NEW n \in 1 .. N, n - 1 \in good PROVE n \in good
      <3>1. CASE n = 1
        BY <1>3, <1>4, <3>1
      <3>2. CASE n # 1
        <4>1. PICK j \in 1 .. N - 1 : n = j + 1 /\ j = n - 1
          <5>1. n - 1 \in 1 .. N - 1
            BY <3>2
          <5>2. QED
            BY <5>1
        <4>2. slabs[j + 1].mem = slabs[j].mem /\ slabs[j + 1].lo = slabs[j].lo + slabs[j].len
          BY <1>2 DEF Contiguous
        <4>3. slabs[j].mem = m /\ slabs[j].lo = lo + sum[j - 1]
          BY <2>2, <4>1
        <4>4. sum[j] = sum[j - 1] + slabs[j].len /\ sum[j - 1] \in Nat /\ slabs[j].len \in Nat
          BY <1>3a
        <4>5. QED
          BY <4>1, <4>2, <4>3, <4>4
      <3>3. QED
        BY <3>1, <3>2
    <2>3. \A n \in 0 .. N : n \in good
      <3> HIDE DEF good
      <3>1. QED
        BY <2>1, <2>2, Counting
    <2>4. QED
      BY <2>3
  <1>7. ASSUME NEW j \in 1 .. N
        PROVE  SlabCells(slabs[j]) = {m} \X (lo + sum[j - 1] .. lo + sum[j] - 1) \X Parts
    <2>1. sum[j - 1] \in Nat /\ slabs[j].len \in Nat /\ sum[j] = sum[j - 1] + slabs[j].len
      BY <1>3a
    <2>2. slabs[j].lo + slabs[j].len - 1 = lo + sum[j] - 1
      <3>1. slabs[j].lo = lo + sum[j - 1]
        BY <1>6
      <3>2. QED
        BY <2>1, <3>1
    <2>3. QED
      BY <1>6, <2>2 DEF SlabCells
  <1>8. ASSUME NEW j \in 0 .. N PROVE sum[j] <= sum[N]
    <2> DEFINE up == {n \in 0 .. N : j <= n => sum[j] <= sum[n]}
    <2>1. 0 \in up
      BY <1>3
    <2>2. ASSUME NEW n \in 1 .. N, n - 1 \in up PROVE n \in up
      <3>1. n - 1 \in 0 .. N /\ sum[n - 1] \in Nat /\ slabs[n].len \in Nat /\ sum[j] \in Nat
        BY <1>3, <1>3a
      <3>2. sum[n - 1] <= sum[n] /\ sum[n] \in Nat
        <4>1. PICK a \in Nat, b \in Nat : a = sum[n - 1] /\ b = slabs[n].len /\ sum[n] = a + b
          BY <1>3a
        <4>2. QED
          BY <4>1
      <3>3. CASE j = n
        BY <3>1, <3>3
      <3>4. CASE j # n
        BY <2>2, <3>1, <3>2, <3>4
      <3>5. QED
        BY <3>3, <3>4
    <2>3. \A n \in 0 .. N : n \in up
      <3> HIDE DEF up
      <3>1. QED
        BY <2>1, <2>2, Counting
    <2>4. QED
      BY <2>3
  <1>9. ASSUME NEW j \in 1 .. N, c \in SlabCells(slabs[j])
        PROVE  c \in SlabCells(CombinedSlab(slabs))
    <2>1. PICK i \in lo + sum[j - 1] .. lo + sum[j] - 1, part \in Parts : c = <<m, i, part>>
      BY <1>7, <1>9
    <2>2. sum[j] <= sum[N] /\ sum[j - 1] \in Nat /\ sum[j] \in Nat /\ sum[N] \in Nat
      BY <1>3, <1>8
    <2>3. i \in lo .. lo + sum[N] - 1
      BY <2>1, <2>2
    <2>4. QED
      BY <1>5, <2>1, <2>3
  <1>10. ASSUME c \in SlabCells(CombinedSlab(slabs))
         PROVE  \E j \in 1 .. N : c \in SlabCells(slabs[j])
    <2>1. PICK i \in lo .. lo + sum[N] - 1, part \in Parts : c = <<m, i, part>>
      BY <1>5, <1>10
    <2> DEFINE S == {n \in 0 .. N : lo + sum[n] <= i}
    <2>2. 0 \in S /\ N \notin S
      BY <1>3, <2>1
    <2>3. PICK x \in S : \A y \in S : y <= x
      <3>1. S \in SUBSET (0 .. N) /\ S # {}
        BY <2>2
      <3> HIDE DEF S
      <3>2. QED
        BY <3>1, LargestNumber
    <2>4. PICK j \in 1 .. N : j = x + 1 /\ j \notin S
      BY <2>2, <2>3
    <2>5. lo + sum[j - 1] <= i /\ i < lo + sum[j] /\ sum[j] \in Nat /\ sum[j - 1] \in Nat
      BY <1>3, <2>3, <2>4
    <2>6. c \in SlabCells(slabs[j])
      BY <1>7, <2>1, <2>5
    <2>7. QED
      BY <2>6
  <1>11. QED
    BY <1>2, <1>9, <1>10

-----------------------------------------------------------------------------
(* Block b of step z is that of level l, which is released there.          *)
LevelReleased(prog, z, b, l) ==
  /\ l \in 1 .. Levels(prog) /\ b = l + 1
  /\ ReleasedAt(LevelVector(prog), l) = Trace(prog)[z]
  /\ IsLevelText(prog, LevelVector(prog)[l], Trace(prog)[z], z, Block(prog, z, b))

LEMMA LevelBlock ==
  ASSUME NEW prog, WellFormed(prog), Accepted(prog), NEW z \in 1 .. Len(Trace(prog)),
         NEW l \in 1 .. Levels(prog), ReleasedAt(LevelVector(prog), l) = Trace(prog)[z],
         Trace(prog)[z] \in Parallel(prog)
  PROVE  LevelReleased(prog, z, l + 1, l)
  <1>1. PICK LV \in Seq(Seq(TaskSet(prog))) : LV = LevelVector(prog)
    BY LevelsOfTasks
  <1>2. l \in 1 .. Len(LV) /\ Len(LV) \in Nat
    BY <1>1 DEF Levels
  <1>3. PICK level \in Seq(TaskSet(prog)) : level = LV[l]
    BY <1>2
  <1>4. Block(prog, z, l + 1) = emitLevel(prog, level, Trace(prog)[z], z)
    <2>1. l + 1 # 1 /\ (l + 1) - 1 = l
      BY <1>2
    <2>2. Block(prog, z, l + 1) = LevelTexts(prog, z)[l]
      BY <2>1 DEF Block
    <2>3. LevelTexts(prog, z)[l] = emitLevel(prog, level, Trace(prog)[z], z)
      BY <1>1, <1>2, <1>3 DEF LevelTexts
    <2>4. QED
      BY <2>2, <2>3
  <1>5. PICK k \in Int, s \in Int : k = Trace(prog)[z] /\ s = z
    BY LoopFields
  <1>6. IsLevelText(prog, level, k, s, emitLevel(prog, level, k, s))
    BY LevelInstructions
  <1>7. QED
    BY <1>1, <1>2, <1>3, <1>4, <1>5, <1>6 DEF LevelReleased, Levels

LEMMA BlockIs ==
  ASSUME NEW prog, WellFormed(prog), Accepted(prog), NEW w, Spot(prog, w)
  PROVE  \/ /\ Trace(prog)[w.step] \notin Parallel(prog) /\ w.block = 1 /\ w.place = 1
            /\ Block(prog, w.step, w.block)[w.place] = SerialBody(prog, Trace(prog)[w.step], w.step)
         \/ \E l : LevelReleased(prog, w.step, w.block, l)
  <1>1. PICK z \in 1 .. Len(Trace(prog)), b \in 1 .. Levels(prog) + 1, j \in Int :
          z = w.step /\ b = w.block /\ j = w.place /\ j \in 1 .. Len(Block(prog, z, b))
    BY DEF Spot
  <1>2. Levels(prog) \in Nat
    BY LevelsOfTasks DEF Levels
  <1>3. ~ j \in 1 .. Len(<<>>)
    <2>1. Len(<<>>) = 0
      OBVIOUS
    <2>2. QED
      BY <2>1
  <1>4. CASE b = 1
    <2>1. Trace(prog)[z] \notin Parallel(prog)
      BY <1>1, <1>3, <1>4 DEF Block
    <2>2. Block(prog, z, b) = <<SerialBody(prog, Trace(prog)[z], z)>>
      BY <1>4, <2>1 DEF Block
    <2>3. j = 1 /\ Block(prog, z, b)[1] = SerialBody(prog, Trace(prog)[z], z)
      BY <1>1, <2>2
    <2>4. QED
      BY <1>1, <1>4, <2>1, <2>3
  <1>5. CASE b # 1
    <2>1. PICK l \in 1 .. Levels(prog) : b = l + 1 /\ b - 1 = l
      <3>1. b - 1 \in 1 .. Levels(prog) /\ b = (b - 1) + 1
        BY <1>2, <1>5
      <3>2. QED
        BY <3>1
    <2>2. Trace(prog)[z] \in Parallel(prog) /\ Block(prog, z, b) = LevelTexts(prog, z)[l]
      BY <1>1, <1>3, <1>5, <2>1 DEF Block
    <2>3. ReleasedAt(LevelVector(prog), l) = Trace(prog)[z]
      BY <1>1, <1>3, <2>1, <2>2 DEF LevelTexts, Levels
    <2>4. LevelReleased(prog, z, b, l)
      BY <2>1, <2>2, <2>3, LevelBlock
    <2>5. QED
      BY <1>1, <2>4
  <1>6. QED
    BY <1>4, <1>5

(* A task of a released level is that of a step of the trace.              *)
LEMMA StepOfTask ==
  ASSUME NEW prog, WellFormed(prog), Accepted(prog), NEW z \in 1 .. Len(Trace(prog)), NEW b, NEW l,
         LevelReleased(prog, z, b, l), NEW i \in 1 .. Len(LevelVector(prog)[l]),
         NEW t, t = LevelVector(prog)[l][i]
  PROVE  /\ In(LevelVector(prog), t, l) /\ t \in TaskSet(prog)
         /\ z - (Trace(prog)[z] - t.item) \in 1 .. Len(Trace(prog))
         /\ Trace(prog)[z - (Trace(prog)[z] - t.item)] = t.item
         /\ i \in 1 .. Len(Block(prog, z, b))
         /\ Block(prog, z, b)[i] = TaskBody(prog, t, z - (Trace(prog)[z] - t.item))
         /\ Len(LevelVector(prog)[l]) \in Nat
         /\ Len(Block(prog, z, b)) \in Nat
  <1>1. PICK LV \in Seq(Seq(TaskSet(prog))) : LV = LevelVector(prog)
    BY LevelsOfTasks
  <1>2. l \in 1 .. Len(LV)
    BY <1>1 DEF LevelReleased, Levels
  <1>3. PICK level \in Seq(TaskSet(prog)) : level = LV[l]
    BY <1>1, <1>2
  <1>4. PICK N \in Nat : N = Len(level) /\ DOMAIN level = 1 .. N
    OBVIOUS
  <1>5. t \in ToSet(level) /\ i \in 1 .. N
    BY <1>1, <1>3, <1>4 DEF ToSet
  <1>6. In(LevelVector(prog), t, l) /\ t \in TaskSet(prog)
    BY <1>1, <1>2, <1>3, <1>5, LevelsOfTasks DEF In
  <1>7. /\ Trace(prog)[z] \in Parallel(prog) /\ t.item <= Trace(prog)[z]
        /\ OneBlock(prog, t.item, Trace(prog)[z])
    BY <1>6, ReleasedInGroup DEF LevelReleased
  <1>8. PICK k \in Nat, j \in Nat : k = Trace(prog)[z] /\ j = t.item
    BY <1>6, <1>7, LoopFields, TaskFields
  <1>9. z - (k - j) \in 1 .. Len(Trace(prog)) /\ Trace(prog)[z - (k - j)] = j
    <2>1. \A d \in 0 .. k - j : z - d \in 1 .. Len(Trace(prog)) /\ Trace(prog)[z - d] = k - d
      BY <1>7, <1>8, BlockRuns
    <2>2. k - j \in 0 .. k - j /\ k - (k - j) = j
      BY <1>7, <1>8
    <2>3. QED
      BY <2>1, <2>2
  <1>10. PICK code : code = Block(prog, z, b) /\ IsLevelText(prog, level, k, z, code)
    BY <1>1, <1>3, <1>8 DEF LevelReleased
  <1>11. Len(level) <= Len(code) /\ Len(code) \in Nat /\ code[i] = TaskBody(prog, level[i], z - (k - level[i].item))
    BY <1>4, <1>5, <1>10 DEF IsLevelText
  <1>12. level[i] = t /\ i \in 1 .. Len(code)
    BY <1>1, <1>3, <1>4, <1>5, <1>11
  <1>13. QED
    BY <1>1, <1>3, <1>4, <1>6, <1>8, <1>9, <1>10, <1>11, <1>12

-----------------------------------------------------------------------------
(* The computations of a text: task t at step v of the trace, from level l, *)
(* or the host code of step v.                                             *)
TaskAt(prog, at, p, t, v, l) ==
  /\ p \in 1 .. Len(BodyText(prog)) /\ t \in TaskSet(prog)
  /\ v \in 1 .. Len(Trace(prog)) /\ Trace(prog)[v] = t.item
  /\ BodyText(prog)[p] = TaskBody(prog, t, v)
  /\ In(LevelVector(prog), t, l) /\ LevelReleased(prog, at[p].step, at[p].block, l)
  /\ at[p].place \in 1 .. Len(LevelVector(prog)[l]) /\ LevelVector(prog)[l][at[p].place] = t
  /\ v = at[p].step - (Trace(prog)[at[p].step] - t.item)

HostAt(prog, at, p, v) ==
  /\ p \in 1 .. Len(BodyText(prog)) /\ v \in 1 .. Len(Trace(prog))
  /\ Trace(prog)[v] \notin Parallel(prog)
  /\ BodyText(prog)[p] = SerialBody(prog, Trace(prog)[v], v)
  /\ at[p] = [step |-> v, block |-> 1, place |-> 1]

Together(at, p, q) == at[p].step = at[q].step /\ at[p].block = at[q].block

LEMMA SamePosition ==
  ASSUME NEW prog, NEW at, InBlocks(prog, at),
         NEW p \in 1 .. Len(BodyText(prog)), NEW q \in 1 .. Len(BodyText(prog)), at[p] = at[q]
  PROVE  p = q
  <1>1. PICK n : n = Len(BodyText(prog))
    OBVIOUS
  <1>2. ASSUME NEW u \in Spots PROVE ~ Before(u, u)
    BY DEF Before, Spots
  <1>3. at[p] \in Spots /\ at[q] \in Spots
    BY DEF InBlocks
  <1>4. ~ p < q /\ ~ q < p
    BY <1>2, <1>3 DEF InBlocks
  <1>5. QED
    BY <1>4

LEMMA ComputeIs ==
  ASSUME NEW prog, WellFormed(prog), Accepted(prog), NEW at, InBlocks(prog, at),
         NEW p \in 1 .. Len(BodyText(prog)), BodyText(prog)[p].op = "compute"
  PROVE  (\E v : HostAt(prog, at, p, v)) \/ (\E t, v, l : TaskAt(prog, at, p, t, v, l))
  <1>1. PICK w : w = at[p] /\ w \in Spots /\ Spot(prog, w) /\ BodyText(prog)[p] = Block(prog, w.step, w.block)[w.place]
    BY DEF InBlocks
  <1>2. PICK z \in 1 .. Len(Trace(prog)), b \in 1 .. Levels(prog) + 1, j \in Int :
          z = w.step /\ b = w.block /\ j = w.place /\ j \in 1 .. Len(Block(prog, z, b))
    BY <1>1 DEF Spot
  <1>3. CASE /\ Trace(prog)[z] \notin Parallel(prog) /\ b = 1 /\ j = 1
             /\ Block(prog, z, b)[j] = SerialBody(prog, Trace(prog)[z], z)
    <2>1. w = [step |-> z, block |-> 1, place |-> 1]
      BY <1>1, <1>2, <1>3 DEF Spots
    <2>2. HostAt(prog, at, p, z)
      BY <1>1, <1>2, <1>3, <2>1 DEF HostAt
    <2>3. QED
      BY <2>2
  <1>4. CASE \E l : LevelReleased(prog, z, b, l)
    <2>1. PICK l : LevelReleased(prog, z, b, l)
      BY <1>4
    <2>2. PICK level : level = LevelVector(prog)[l] /\ IsLevelText(prog, level, Trace(prog)[z], z, Block(prog, z, b))
      BY <2>1 DEF LevelReleased
    <2>3. j \in 1 .. Len(level)
      BY <1>1, <1>2, <2>2 DEF IsLevelText
    <2>4. PICK t : t = LevelVector(prog)[l][j]
      OBVIOUS
    <2>5. PICK v : v = z - (Trace(prog)[z] - t.item)
      OBVIOUS
    <2>6. /\ In(LevelVector(prog), t, l) /\ t \in TaskSet(prog)
          /\ v \in 1 .. Len(Trace(prog)) /\ Trace(prog)[v] = t.item
          /\ Block(prog, z, b)[j] = TaskBody(prog, t, v)
      BY <2>1, <2>2, <2>3, <2>4, <2>5, StepOfTask
    <2>7. TaskAt(prog, at, p, t, v, l)
      BY <1>1, <1>2, <2>1, <2>2, <2>3, <2>4, <2>5, <2>6 DEF TaskAt
    <2>8. QED
      BY <2>7
  <1>5. QED
    BY <1>1, <1>2, <1>3, <1>4, BlockIs

(* Every item of the trace has its computations.                           *)
LEMMA HostRuns ==
  ASSUME NEW prog, WellFormed(prog), Accepted(prog), NEW at, InBlocks(prog, at),
         NEW v \in 1 .. Len(Trace(prog)), Trace(prog)[v] \notin Parallel(prog)
  PROVE  \E p : HostAt(prog, at, p, v)
  <1>1. PICK w : w = [step |-> v, block |-> 1, place |-> 1] /\ w.step = v /\ w.block = 1 /\ w.place = 1
    <2>1. PICK w : w = [step |-> v, block |-> 1, place |-> 1]
      OBVIOUS
    <2>2. QED
      BY <2>1
  <1>2. Block(prog, v, 1) = <<SerialBody(prog, Trace(prog)[v], v)>>
    BY DEF Block
  <1>3. Len(Block(prog, v, 1)) = 1 /\ Block(prog, v, 1)[1] = SerialBody(prog, Trace(prog)[v], v)
    BY <1>2
  <1>4. Levels(prog) \in Nat
    BY LevelsOfTasks DEF Levels
  <1>5. w \in Spots
    BY <1>1 DEF Spots
  <1>6. Spot(prog, w)
    BY <1>1, <1>3, <1>4, <1>5 DEF Spot
  <1>7. PICK p \in 1 .. Len(BodyText(prog)) : at[p] = w
    BY <1>6 DEF InBlocks
  <1>8. BodyText(prog)[p] = Block(prog, v, 1)[1]
    BY <1>1, <1>7 DEF InBlocks
  <1>9. HostAt(prog, at, p, v)
    BY <1>1, <1>3, <1>7, <1>8 DEF HostAt
  <1>10. QED
    BY <1>9

LEMMA TaskRuns ==
  ASSUME NEW prog, WellFormed(prog), Accepted(prog), NEW at, InBlocks(prog, at),
         NEW v \in 1 .. Len(Trace(prog)), NEW t \in TaskSet(prog), Trace(prog)[v] = t.item
  PROVE  \E p, l : TaskAt(prog, at, p, t, v, l)
  <1>1. PICK l : In(LevelVector(prog), t, l)
    BY LevelsOfTasks
  <1>2. PICK LV \in Seq(Seq(TaskSet(prog))) : LV = LevelVector(prog)
    BY LevelsOfTasks
  <1>3. PICK level \in Seq(TaskSet(prog)) : level = LV[l] /\ l \in 1 .. Len(LV) /\ t \in ToSet(level)
    BY <1>1, <1>2 DEF In
  <1>4. PICK i \in 1 .. Len(level) : level[i] = t
    BY <1>3 DEF ToSet
  <1>5. PICK k : k = ReleasedAt(LV, l) /\ k \in Parallel(prog) /\ t.item <= k /\ OneBlock(prog, t.item, k)
    BY <1>1, <1>2, ReleasedInGroup
  <1>6. k \in Nat /\ t.item \in Nat
    BY <1>5, LoopFields, TaskFields
  <1>7. PICK z \in 1 .. Len(Trace(prog)) : z = v + (k - t.item) /\ Trace(prog)[z] = k
    <2>1. \A d \in 0 .. k - t.item : v + d \in 1 .. Len(Trace(prog)) /\ Trace(prog)[v + d] = t.item + d
      BY <1>5, <1>6, BlockRunsOn
    <2>2. k - t.item \in 0 .. k - t.item /\ t.item + (k - t.item) = k
      BY <1>5, <1>6
    <2>3. QED
      BY <2>1, <2>2
  <1>8. LevelReleased(prog, z, l + 1, l)
    BY <1>2, <1>3, <1>5, <1>7, LevelBlock DEF Levels
  <1>9. /\ i \in 1 .. Len(Block(prog, z, l + 1)) /\ Len(Block(prog, z, l + 1)) \in Nat
        /\ Block(prog, z, l + 1)[i] = TaskBody(prog, t, z - (k - t.item))
    BY <1>2, <1>3, <1>4, <1>7, <1>8, StepOfTask
  <1>10. v = z - (k - t.item)
    BY <1>6, <1>7
  <1>11. PICK w : w = [step |-> z, block |-> l + 1, place |-> i] /\ w.step = z /\ w.block = l + 1 /\ w.place = i
    <2>1. PICK w : w = [step |-> z, block |-> l + 1, place |-> i]
      OBVIOUS
    <2>2. QED
      BY <2>1
  <1>12. Spot(prog, w)
    <2>1. w \in Spots
      BY <1>2, <1>3, <1>11 DEF Spots
    <2>2. QED
      BY <1>2, <1>3, <1>9, <1>11, <2>1 DEF Spot, Levels
  <1>13. PICK p \in 1 .. Len(BodyText(prog)) : at[p] = w
    BY <1>12 DEF InBlocks
  <1>14. BodyText(prog)[p] = TaskBody(prog, t, v)
    BY <1>9, <1>10, <1>11, <1>13 DEF InBlocks
  <1>15. TaskAt(prog, at, p, t, v, l)
    BY <1>1, <1>2, <1>3, <1>4, <1>7, <1>8, <1>10, <1>11, <1>13, <1>14 DEF TaskAt
  <1>16. QED
    BY <1>15

(* Each of them once.                                                      *)
LEMMA TaskRunsOnce ==
  ASSUME NEW prog, WellFormed(prog), Accepted(prog), NEW at, InBlocks(prog, at),
         NEW t, NEW v, NEW p, NEW l, TaskAt(prog, at, p, t, v, l),
         NEW q, NEW m, TaskAt(prog, at, q, t, v, m)
  PROVE  p = q
  <1>1. l = m
    BY LevelsOfTasks DEF TaskAt
  <1>2. PICK u \in Spots, w \in Spots : u = at[p] /\ w = at[q]
    BY DEF InBlocks, TaskAt
  <1>3. PICK k \in Nat, j \in Nat : k = ReleasedAt(LevelVector(prog), l) /\ j = t.item
    <2>1. ReleasedAt(LevelVector(prog), l) \in Parallel(prog) /\ t.item \in Parallel(prog)
      BY ReleasedInGroup, TaskFields DEF TaskAt
    <2>2. QED
      BY <2>1, LoopFields
  <1>4. u.step = w.step /\ u.block = w.block
    <2>1. /\ v = u.step - (k - j) /\ v = w.step - (k - j)
          /\ u.step \in Nat /\ w.step \in Nat
      BY <1>1, <1>2, <1>3 DEF TaskAt, LevelReleased, Spots
    <2>2. u.block = l + 1 /\ w.block = l + 1
      BY <1>1, <1>2 DEF TaskAt, LevelReleased
    <2>3. QED
      BY <2>1, <2>2
  <1>5. u.place = w.place
    <2>1. PICK level : level = LevelVector(prog)[l]
      OBVIOUS
    <2>2. NoRepeats(level)
      BY <2>1, LevelsOfTasks DEF TaskAt, In
    <2>3. QED
      BY <1>1, <1>2, <2>1, <2>2 DEF TaskAt, NoRepeats
  <1>6. at[p] = at[q]
    BY <1>2, <1>4, <1>5 DEF Spots
  <1>7. QED
    BY <1>6, SamePosition DEF TaskAt

-----------------------------------------------------------------------------
(* A block is a stretch of the text.                                       *)
LEMMA InTheBlock ==
  ASSUME NEW prog, NEW at, InBlocks(prog, at),
         NEW p \in 1 .. Len(BodyText(prog)), NEW q \in 1 .. Len(BodyText(prog)), Together(at, p, q)
  PROVE  /\ p < q <=> at[p].place < at[q].place
         /\ \A k \in p .. q : k \in 1 .. Len(BodyText(prog)) => Together(at, p, k)
  <1>1. \A k \in 1 .. Len(BodyText(prog)) : at[k] \in Spots
    BY DEF InBlocks
  <1>2. PICK u \in Spots, w \in Spots : u = at[p] /\ w = at[q] /\ u.step = w.step /\ u.block = w.block
    BY <1>1 DEF Together
  <1>3. p < q => u.place < w.place
    BY <1>2 DEF InBlocks, Before, Spots
  <1>4. q < p => w.place < u.place
    BY <1>2 DEF InBlocks, Before, Spots
  <1>5. p = q => u.place = w.place
    BY <1>2
  <1>6. p < q <=> at[p].place < at[q].place
    <2>1. u.place \in Nat /\ w.place \in Nat
      BY DEF Spots
    <2>2. p \in Int /\ q \in Int
      OBVIOUS
    <2>3. QED
      BY <1>2, <1>3, <1>4, <1>5, <2>1, <2>2
  <1>7. ASSUME NEW k \in p .. q, k \in 1 .. Len(BodyText(prog)) PROVE Together(at, p, k)
    <2>1. PICK x \in Spots : x = at[k]
      BY <1>1, <1>7
    <2>2. CASE k = p
      BY <2>2 DEF Together
    <2>3. CASE k = q
      BY <1>2, <2>3 DEF Together
    <2>4. CASE p < k /\ k < q
      <3>1. Before(u, x) /\ Before(x, w)
        BY <1>2, <1>7, <2>1, <2>4 DEF InBlocks
      <3>2. u.step = x.step /\ u.block = x.block
        BY <1>2, <3>1 DEF Before, Spots
      <3>3. QED
        BY <1>2, <2>1, <3>2 DEF Together
    <2>5. QED
      BY <2>2, <2>3, <2>4
  <1>8. QED
    BY <1>6, <1>7

(* Each place of the block of p is a position.                             *)
AtPlace(prog, at, p, i, g) ==
  /\ g \in 1 .. Len(BodyText(prog)) /\ Together(at, p, g) /\ at[g].place = i
  /\ BodyText(prog)[g] = Block(prog, at[p].step, at[p].block)[i]

LEMMA BlockPlace ==
  ASSUME NEW prog, NEW at, InBlocks(prog, at), NEW p \in 1 .. Len(BodyText(prog)),
         NEW i, i \in Nat, i \in 1 .. Len(Block(prog, at[p].step, at[p].block))
  PROVE  \E g : AtPlace(prog, at, p, i, g)
  <1>1. PICK u \in Spots : u = at[p] /\ Spot(prog, u)
    BY DEF InBlocks
  <1>2. PICK w \in Spots : w.step = u.step /\ w.block = u.block /\ w.place = i
    <2>1. [u EXCEPT !.place = i] \in Spots
      BY DEF Spots
    <2>2. [u EXCEPT !.place = i].step = u.step /\ [u EXCEPT !.place = i].block = u.block
          /\ [u EXCEPT !.place = i].place = i
      BY DEF Spots
    <2>3. QED
      BY <2>1, <2>2
  <1>3. Spot(prog, w)
    BY <1>1, <1>2 DEF Spot
  <1>4. PICK g \in 1 .. Len(BodyText(prog)) : at[g] = w
    BY <1>3 DEF InBlocks
  <1>5. BodyText(prog)[g] = Block(prog, w.step, w.block)[w.place]
    BY <1>4 DEF InBlocks
  <1>6. AtPlace(prog, at, p, i, g)
    BY <1>1, <1>2, <1>4, <1>5 DEF Together, AtPlace
  <1>7. QED
    BY <1>6

(* The tasks of a level come in its block, before anything else there.     *)
LEMMA TaskInBlock ==
  ASSUME NEW prog, WellFormed(prog), Accepted(prog), NEW at, InBlocks(prog, at),
         NEW g \in 1 .. Len(BodyText(prog)), NEW l, LevelReleased(prog, at[g].step, at[g].block, l),
         NEW t \in ToSet(LevelVector(prog)[l])
  PROVE  \E p, v : /\ TaskAt(prog, at, p, t, v, l) /\ Together(at, g, p)
                   /\ BodyText(prog)[g].op # "compute" => p < g
  <1>1. PICK u \in Spots : u = at[g] /\ Spot(prog, u) /\ BodyText(prog)[g] = Block(prog, u.step, u.block)[u.place]
    BY DEF InBlocks
  <1>2. PICK z \in 1 .. Len(Trace(prog)), b \in 1 .. Levels(prog) + 1, j \in Int :
          z = u.step /\ b = u.block /\ j = u.place
          /\ j \in 1 .. Len(Block(prog, z, b)) /\ j \in Nat
    BY <1>1 DEF Spot, Spots
  <1>3. LevelReleased(prog, z, b, l)
    BY <1>1, <1>2
  <1>4. PICK LV \in Seq(Seq(TaskSet(prog))) : LV = LevelVector(prog) /\ l \in 1 .. Len(LV)
    BY <1>3, LevelsOfTasks DEF LevelReleased, Levels
  <1>5. PICK level \in Seq(TaskSet(prog)) : level = LV[l]
    BY <1>4
  <1>6. PICK i \in 1 .. Len(level) : t = level[i]
    <2>1. t \in ToSet(level)
      BY <1>4, <1>5
    <2>2. DOMAIN level = 1 .. Len(level)
      OBVIOUS
    <2>3. ToSet(level) = {level[n] : n \in DOMAIN level}
      BY DEF ToSet
    <2>4. QED
      BY <2>1, <2>2, <2>3, Zenon
  <1>7. PICK v : v = z - (Trace(prog)[z] - t.item)
    OBVIOUS
  <1>8. /\ In(LevelVector(prog), t, l) /\ t \in TaskSet(prog)
        /\ v \in 1 .. Len(Trace(prog)) /\ Trace(prog)[v] = t.item
        /\ i \in 1 .. Len(Block(prog, z, b)) /\ Block(prog, z, b)[i] = TaskBody(prog, t, v)
    BY <1>3, <1>4, <1>5, <1>6, <1>7, StepOfTask
  <1>9. PICK p \in 1 .. Len(BodyText(prog)) :
          Together(at, g, p) /\ at[p].place = i /\ BodyText(prog)[p] = Block(prog, z, b)[i]
    <2>1. i \in Nat /\ i \in 1 .. Len(Block(prog, at[g].step, at[g].block))
      BY <1>1, <1>2, <1>6, <1>8
    <2>2. \E p : AtPlace(prog, at, g, i, p)
      BY <2>1, BlockPlace, Zenon
    <2>3. QED
      BY <1>1, <1>2, <2>2 DEF AtPlace
  <1>10. TaskAt(prog, at, p, t, v, l)
    BY <1>1, <1>2, <1>3, <1>4, <1>5, <1>6, <1>7, <1>8, <1>9 DEF TaskAt, Together
  <1>11. ASSUME BodyText(prog)[g].op # "compute" PROVE p < g
    <2>1. IsLevelText(prog, level, Trace(prog)[z], z, Block(prog, z, b))
      BY <1>3, <1>4, <1>5 DEF LevelReleased
    <2>2. j \notin 1 .. Len(level)
      BY <1>1, <1>2, <1>11, <2>1 DEF IsLevelText
    <2>3. i < j
      BY <1>2, <1>6, <2>2
    <2>4. Together(at, p, g)
      BY <1>9 DEF Together
    <2>5. QED
      BY <1>1, <1>2, <1>9, <2>3, <2>4, InTheBlock
  <1>12. QED
    BY <1>9, <1>10, <1>11

(* Of the computations of a block, no two clash.                           *)
LEMMA BlockAgrees ==
  ASSUME NEW prog, WellFormed(prog), Accepted(prog), NEW at, InBlocks(prog, at),
         NEW p \in 1 .. Len(BodyText(prog)), NEW q \in 1 .. Len(BodyText(prog)), Together(at, p, q),
         BodyText(prog)[p].op = "compute", BodyText(prog)[q].op = "compute", p # q
  PROVE  ~ Clash(BodyText(prog)[p], BodyText(prog)[q])
  <1>1. \A x, y : Clash(x, y) => Clash(y, x)
    BY DEF Clash
  <1>2. ASSUME NEW t, NEW u, NEW l, NEW v, NEW s, In(LevelVector(prog), t, l), In(LevelVector(prog), u, l),
               t.item < u.item, Clash(TaskBody(prog, t, v), TaskBody(prog, u, s))
        PROVE  FALSE
    <2>1. t \in TaskSet(prog) /\ u \in TaskSet(prog)
      BY <1>2, LevelsOfTasks
    <2>2. t.item \in Nat /\ u.item \in Nat
      BY <2>1, LoopFields, TaskFields
    <2>3. checkMemoryDependency(t, u)
      BY <1>1, <1>2, <2>1, ClashIsDependence
    <2>4. DependsOn(prog, t, u)
      BY <1>2, <2>2, <2>3 DEF DependsOn
    <2>5. l < l
      BY <1>2, <2>4, LevelsInOrder
    <2>6. LevelVector(prog) \in Seq(Seq(TaskSet(prog))) /\ l \in 1 .. Len(LevelVector(prog))
      BY <1>2, LevelsOfTasks DEF In
    <2>7. l \in Nat
      BY <2>6
    <2>8. QED
      BY <2>5, <2>7
  <1>2a. PICK N \in Nat : N = Levels(prog)
    BY LevelsOfTasks DEF Levels
  <1>3. ASSUME NEW v, HostAt(prog, at, p, v), NEW s, HostAt(prog, at, q, s) PROVE FALSE
    <2>1. v = s
      BY <1>3 DEF HostAt, Together
    <2>2. at[p] = at[q]
      BY <1>3, <2>1 DEF HostAt
    <2>3. QED
      BY <2>2, SamePosition
  <1>4. ASSUME NEW a, NEW b, Together(at, a, b), NEW v, HostAt(prog, at, a, v),
               NEW t, NEW s, NEW l, TaskAt(prog, at, b, t, s, l)
        PROVE  FALSE
    <2>1. at[a].block = 1
      BY <1>4 DEF HostAt
    <2>2. at[b].block = l + 1 /\ l \in 1 .. N
      BY <1>2a, <1>4 DEF TaskAt, LevelReleased
    <2>3. at[a].block = at[b].block
      BY <1>4 DEF Together
    <2>4. QED
      BY <2>1, <2>2, <2>3
  <1>5. ASSUME NEW t, NEW v, NEW l, TaskAt(prog, at, p, t, v, l),
               NEW u, NEW s, NEW m, TaskAt(prog, at, q, u, s, m),
               Clash(BodyText(prog)[p], BodyText(prog)[q])
        PROVE  FALSE
    <2>1. l = m
      <3>1. at[p].block = l + 1 /\ at[q].block = m + 1 /\ l \in 1 .. N /\ m \in 1 .. N
        BY <1>2a, <1>5 DEF TaskAt, LevelReleased
      <3>2. at[p].block = at[q].block
        BY DEF Together
      <3>3. QED
        BY <3>1, <3>2
    <2>2. In(LevelVector(prog), t, l) /\ In(LevelVector(prog), u, l)
      BY <1>5, <2>1 DEF TaskAt
    <2>3. /\ t \in TaskSet(prog) /\ t.item \in Parallel(prog) /\ t.target \in Nodes /\ t = Task(prog, t.item, t.target)
          /\ u \in TaskSet(prog) /\ u.item \in Parallel(prog) /\ u.target \in Nodes /\ u = Task(prog, u.item, u.target)
      BY <1>5, TaskFields DEF TaskAt
    <2>4. t.item \in Nat /\ u.item \in Nat
      BY <2>3, LoopFields
    <2>5. Clash(TaskBody(prog, t, v), TaskBody(prog, u, s)) /\ Clash(TaskBody(prog, u, s), TaskBody(prog, t, v))
      BY <1>1, <1>5 DEF TaskAt
    <2>6. t.item = u.item
      <3>1. ~ t.item < u.item /\ ~ u.item < t.item
        BY <1>2, <2>2, <2>5
      <3>2. QED
        BY <2>4, <3>1
    <2>7. v = s
      BY <1>5, <2>6 DEF TaskAt, Together
    <2>8. t # u
      BY <1>5, <2>7, TaskRunsOnce
    <2>9. t.target # u.target
      BY <2>3, <2>6, <2>8
    <2>10. QED
      BY <2>3, <2>5, <2>6, <2>9, ShardsAgree
  <1>6. Together(at, q, p)
    BY DEF Together
  <1>7. QED
    BY <1>3, <1>4, <1>5, <1>6, ComputeIs

-----------------------------------------------------------------------------
(* What a task away from the root has written is gathered before its block *)
(* ends.                                                                   *)
LEMMA GatherFollows ==
  ASSUME NEW prog, WellFormed(prog), Accepted(prog), NEW at, InBlocks(prog, at),
         NEW p, NEW t, NEW v, NEW l, TaskAt(prog, at, p, t, v, l), t.target # 0,
         NEW j \in 1 .. Len(t.outputs)
  PROVE  \E g \in 1 .. Len(BodyText(prog)) :
           p < g /\ Together(at, p, g) /\ BodyText(prog)[g] = Gather(t, j)
  <1>1. PICK level, code :
          /\ level = LevelVector(prog)[l] /\ code = Block(prog, at[p].step, at[p].block)
          /\ IsLevelText(prog, level, Trace(prog)[at[p].step], at[p].step, code)
    BY DEF TaskAt, LevelReleased
  <1>2. p \in 1 .. Len(BodyText(prog)) /\ t \in ToSet(level) /\ at[p].place \in 1 .. Len(level)
    BY <1>1 DEF TaskAt, In
  <1>3. Len(level) \in Nat /\ Len(code) \in Nat
    BY <1>1, LevelsOfTasks DEF IsLevelText, TaskAt, In
  <1>4. PICK i \in 1 .. Len(code) : code[i] = Gather(t, j)
    BY <1>1, <1>2 DEF IsLevelText, Within
  <1>5. i \notin 1 .. Len(level)
    <2>1. Gather(t, j).op # "compute"
      BY DEF Gather
    <2>2. QED
      BY <1>1, <1>4, <2>1 DEF IsLevelText
  <1>6. PICK g \in 1 .. Len(BodyText(prog)) :
          Together(at, p, g) /\ at[g].place = i /\ BodyText(prog)[g] = code[i]
    <2>1. i \in Nat /\ i \in 1 .. Len(Block(prog, at[p].step, at[p].block))
      BY <1>1, <1>3, <1>4
    <2>2. \E g : AtPlace(prog, at, p, i, g)
      BY <1>2, <2>1, BlockPlace, Zenon
    <2>3. QED
      BY <1>1, <2>2 DEF AtPlace
  <1>7. at[p].place < i
    BY <1>2, <1>3, <1>4, <1>5
  <1>8. p < g
    BY <1>2, <1>6, <1>7, InTheBlock
  <1>9. QED
    BY <1>4, <1>6, <1>8

(* If its loop needs a broadcast, that comes last, and brings its rows.    *)
LEMMA BroadcastFollows ==
  ASSUME NEW prog, WellFormed(prog), Accepted(prog), Covered(prog), NEW at, InBlocks(prog, at),
         NEW p, NEW t, NEW v, NEW l, TaskAt(prog, at, p, t, v, l), needBroadcast(prog, t.item),
         NEW j \in 1 .. Len(t.outputs), NEW c \in SlabCells(OutSlabs(t)[j])
  PROVE  \E b \in 1 .. Len(BodyText(prog)) :
           /\ p < b /\ Together(at, p, b) /\ BodyText(prog)[b].op = "broadcast"
           /\ c \in SlabCells(BodyText(prog)[b].slab)
  <1>1. PICK LV \in Seq(Seq(TaskSet(prog))) : LV = LevelVector(prog) /\ l \in 1 .. Len(LV)
    BY LevelsOfTasks DEF TaskAt, In
  <1>2. PICK level \in Seq(TaskSet(prog)) : level = LV[l]
    BY <1>1
  <1>3. PICK code :
          /\ code = Block(prog, at[p].step, at[p].block)
          /\ IsLevelText(prog, level, Trace(prog)[at[p].step], at[p].step, code)
    BY <1>1, <1>2 DEF TaskAt, LevelReleased
  <1>4. p \in 1 .. Len(BodyText(prog)) /\ t \in TaskSet(prog)
        /\ at[p].place \in 1 .. Len(level) /\ level[at[p].place] = t
    BY <1>1, <1>2 DEF TaskAt
  <1>5. Len(level) \in Nat /\ Len(code) \in Nat
    BY <1>3 DEF IsLevelText
  <1>6. PICK slabs \in Seq(RowSlabs) : slabs = toBroadcast(level)
    BY BroadcastSlabs
  <1>7. Within(slabs, OutSlabs(t)[j])
    <2>1. t.needBroadcast
      <3>1. t = Task(prog, t.item, t.target)
        BY <1>4, TaskFields
      <3>2. Task(prog, t.item, t.target).needBroadcast = needBroadcast(prog, t.item)
        BY DEF Task
      <3>3. QED
        BY <3>1, <3>2
    <2>2. Within(OutSlabs(t), OutSlabs(t)[j])
      <3>1. Len(OutSlabs(t)) = Len(t.outputs)
        BY <1>4, TaskSlabs
      <3>2. QED
        BY <3>1 DEF Within
    <2>3. QED
      BY <1>4, <1>6, <2>1, <2>2, BroadcastSlabs
  <1>8. PICK i \in 1 .. Len(slabs) : slabs[i] = OutSlabs(t)[j]
    BY <1>7 DEF Within
  <1>9. slabs # <<>>
    BY <1>8
  <1>10. Contiguous(slabs)
    <2>1. level \in ToSet(LevelVector(prog))
      BY <1>1, <1>2 DEF ToSet
    <2>2. QED
      BY <1>6, <2>1 DEF Covered
  <1>11. c \in SlabCells(CombinedSlab(slabs))
    BY <1>8, <1>9, <1>10, CombinedCells
  <1>12. PICK n \in Nat : n = Len(code)
    BY <1>5
  <1>13. n \in 1 .. n /\ code[n] = Broadcast(slabs)
    BY <1>3, <1>6, <1>9, <1>12 DEF IsLevelText
  <1>14. Broadcast(slabs).op = "broadcast" /\ Broadcast(slabs).slab = CombinedSlab(slabs)
    BY DEF Broadcast
  <1>15. PICK b \in 1 .. Len(BodyText(prog)) :
          Together(at, p, b) /\ at[b].place = n /\ BodyText(prog)[b] = code[n]
    <2>1. n \in 1 .. Len(Block(prog, at[p].step, at[p].block)) /\ n \in Nat
      BY <1>3, <1>12, <1>13
    <2>2. p \in 1 .. Len(BodyText(prog))
      BY <1>4
    <2>3. \E g : AtPlace(prog, at, p, n, g)
      BY <2>1, <2>2, BlockPlace, Zenon
    <2>4. QED
      BY <1>3, <2>3 DEF AtPlace
  <1>16. n \notin 1 .. Len(level)
    BY <1>3, <1>12, <1>13, <1>14 DEF IsLevelText
  <1>17. at[p].place < n
    BY <1>4, <1>5, <1>13, <1>16
  <1>18. p < b
    BY <1>4, <1>15, <1>17, InTheBlock
  <1>19. QED
    BY <1>11, <1>13, <1>14, <1>15, <1>18

(* What is gathered is of rows its owner has stored to in the same block.  *)
LEMMA GatherSource ==
  ASSUME AllCells = Cells, NEW prog, WellFormed(prog), Accepted(prog), NEW at, InBlocks(prog, at),
         NEW g \in 1 .. Len(BodyText(prog)), BodyText(prog)[g].op = "gather",
         NEW c \in SlabCells(BodyText(prog)[g].slab), c \in Cells
  PROVE  \E p, t, v, l : /\ TaskAt(prog, at, p, t, v, l) /\ Together(at, g, p) /\ p < g
                         /\ t.target = BodyText(prog)[g].owner /\ Travels(BodyText(prog)[p], c)
  <1>1. PICK l : LevelReleased(prog, at[g].step, at[g].block, l)
    <2>1. Spot(prog, at[g]) /\ BodyText(prog)[g] = Block(prog, at[g].step, at[g].block)[at[g].place]
      BY DEF InBlocks
    <2>2. SerialBody(prog, Trace(prog)[at[g].step], at[g].step).op = "compute"
      BY HostEffect
    <2>3. QED
      BY <2>1, <2>2, BlockIs
  <1>2. PICK level, code :
          /\ level = LevelVector(prog)[l] /\ code = Block(prog, at[g].step, at[g].block)
          /\ IsLevelText(prog, level, Trace(prog)[at[g].step], at[g].step, code)
    BY <1>1 DEF LevelReleased
  <1>3. at[g].place \in 1 .. Len(code) /\ BodyText(prog)[g] = code[at[g].place]
    BY <1>2 DEF InBlocks, Spot
  <1>4. PICK t \in ToSet(level) : \E j \in 1 .. Len(t.outputs) : BodyText(prog)[g] = Gather(t, j)
    BY <1>2, <1>3 DEF IsLevelText
  <1>5. PICK j \in 1 .. Len(t.outputs) : BodyText(prog)[g] = Gather(t, j)
    BY <1>4
  <1>6. BodyText(prog)[g].owner = t.target /\ BodyText(prog)[g].slab = OutSlabs(t)[j]
    BY <1>5 DEF Gather
  <1>7. PICK p, v : TaskAt(prog, at, p, t, v, l) /\ Together(at, g, p) /\ p < g
    BY <1>1, <1>2, TaskInBlock
  <1>8. t.item \in Parallel(prog) /\ t.target \in Nodes /\ t = Task(prog, t.item, t.target)
    BY <1>7, TaskFields DEF TaskAt
  <1>9. Travels(TaskBody(prog, t, v), c)
    BY <1>6, <1>8, OutputCells
  <1>10. QED
    BY <1>6, <1>7, <1>9 DEF TaskAt

(* And what is broadcast, by a task of the block whose rows the root has,  *)
(* or gets before.                                                         *)
LEMMA BroadcastSource ==
  ASSUME AllCells = Cells, NEW prog, WellFormed(prog), Accepted(prog), Covered(prog), NEW at, InBlocks(prog, at),
         NEW b \in 1 .. Len(BodyText(prog)), BodyText(prog)[b].op = "broadcast",
         NEW c \in SlabCells(BodyText(prog)[b].slab), c \in Cells
  PROVE  \E p, t, v, l :
           /\ TaskAt(prog, at, p, t, v, l) /\ Together(at, b, p) /\ p < b
           /\ Travels(BodyText(prog)[p], c)
           /\ t.target # 0 => \E g \in 1 .. Len(BodyText(prog)) :
                /\ p < g /\ g < b
                /\ BodyText(prog)[g].op = "gather" /\ c \in SlabCells(BodyText(prog)[g].slab)
  <1>1. PICK l : LevelReleased(prog, at[b].step, at[b].block, l)
    <2>1. Spot(prog, at[b]) /\ BodyText(prog)[b] = Block(prog, at[b].step, at[b].block)[at[b].place]
      BY DEF InBlocks
    <2>2. SerialBody(prog, Trace(prog)[at[b].step], at[b].step).op = "compute"
      BY HostEffect
    <2>3. QED
      BY <2>1, <2>2, BlockIs
  <1>2. PICK LV \in Seq(Seq(TaskSet(prog))) : LV = LevelVector(prog) /\ l \in 1 .. Len(LV)
    BY <1>1, LevelsOfTasks DEF LevelReleased, Levels
  <1>3. PICK level \in Seq(TaskSet(prog)) : level = LV[l]
    BY <1>2
  <1>4. PICK code :
          /\ code = Block(prog, at[b].step, at[b].block)
          /\ IsLevelText(prog, level, Trace(prog)[at[b].step], at[b].step, code)
    BY <1>1, <1>2, <1>3 DEF LevelReleased
  <1>5. at[b].place \in 1 .. Len(code) /\ BodyText(prog)[b] = code[at[b].place] /\ at[b] \in Spots
    BY <1>4 DEF InBlocks, Spot
  <1>6. PICK slabs \in Seq(RowSlabs) : slabs = toBroadcast(level)
    BY BroadcastSlabs
  <1>7. slabs # <<>> /\ at[b].place = Len(code) /\ code[Len(code)] = Broadcast(slabs)
    BY <1>4, <1>5, <1>6 DEF IsLevelText
  <1>8. BodyText(prog)[b].slab = CombinedSlab(slabs)
    BY <1>5, <1>7 DEF Broadcast
  <1>9. Contiguous(slabs)
    <2>1. level \in ToSet(LevelVector(prog))
      BY <1>2, <1>3 DEF ToSet
    <2>2. QED
      BY <1>6, <2>1 DEF Covered
  <1>10. PICK i \in 1 .. Len(slabs) : c \in SlabCells(slabs[i])
    BY <1>7, <1>8, <1>9, CombinedCells
  <1>11. PICK a \in 1 .. Len(level) : Within(OutSlabs(level[a]), slabs[i])
    <2>1. Within(slabs, slabs[i])
      BY <1>10 DEF Within
    <2>2. QED
      BY <1>6, <2>1, BroadcastSlabs
  <1>12. PICK t \in ToSet(level) : t = level[a] /\ t \in TaskSet(prog)
    <2>1. level[a] \in ToSet(level) /\ level[a] \in TaskSet(prog)
      BY DEF ToSet
    <2>2. QED
      BY <2>1
  <1>13. PICK j \in 1 .. Len(t.outputs) : c \in SlabCells(OutSlabs(t)[j])
    <2>1. Len(OutSlabs(t)) = Len(t.outputs)
      BY <1>12, TaskSlabs
    <2>2. QED
      BY <1>10, <1>11, <1>12, <2>1 DEF Within
  <1>14. PICK p, v : TaskAt(prog, at, p, t, v, l) /\ Together(at, b, p) /\ p < b
    BY <1>1, <1>2, <1>3, TaskInBlock
  <1>15. t.item \in Parallel(prog) /\ t.target \in Nodes /\ t = Task(prog, t.item, t.target)
    BY <1>12, TaskFields
  <1>16. Travels(BodyText(prog)[p], c)
    BY <1>13, <1>14, <1>15, OutputCells DEF TaskAt
  <1>17. ASSUME t.target # 0
         PROVE  \E g \in 1 .. Len(BodyText(prog)) :
                  /\ p < g /\ g < b
                  /\ BodyText(prog)[g].op = "gather" /\ c \in SlabCells(BodyText(prog)[g].slab)
    <2>1. PICK g \in 1 .. Len(BodyText(prog)) :
            p < g /\ Together(at, p, g) /\ BodyText(prog)[g] = Gather(t, j)
      BY <1>14, <1>17, GatherFollows
    <2>2. BodyText(prog)[g].op = "gather" /\ c \in SlabCells(BodyText(prog)[g].slab)
      BY <1>13, <2>1 DEF Gather
    <2>3. Together(at, b, g)
      BY <1>14, <2>1 DEF Together
    <2>4. at[g] \in Spots /\ at[g].place \in 1 .. Len(code)
      BY <1>4, <2>3 DEF InBlocks, Spot, Together
    <2>5. Len(code) \in Nat
      BY <1>4 DEF IsLevelText
    <2>6. ~ b < g
      BY <1>7, <2>3, <2>4, <2>5, InTheBlock
    <2>7. b # g
      BY <2>2
    <2>8. g < b
      BY <2>6, <2>7
    <2>9. QED
      BY <2>1, <2>2, <2>8
  <1>18. QED
    BY <1>14, <1>16, <1>17

-----------------------------------------------------------------------------
(* A computation of the text is one step of the sequential program, or a   *)
(* shard of one.                                                           *)
PartOf(prog, instr, v) ==
  /\ instr.op = "compute" /\ instr.version = v /\ v \in 1 .. Len(Trace(prog))
  /\ \A c \in Written(instr) : c \in WrittenBy(prog.items[Trace(prog)[v]])

LEMMA HostIsPart ==
  ASSUME NEW prog, WellFormed(prog), NEW at, NEW p, NEW v, HostAt(prog, at, p, v)
  PROVE  /\ PartOf(prog, BodyText(prog)[p], v)
         /\ Written(BodyText(prog)[p]) = WrittenBy(prog.items[Trace(prog)[v]])
         /\ prog.items[Trace(prog)[v]].kind = "serial"
  <1>1. BodyText(prog)[p] = SerialBody(prog, Trace(prog)[v], v) /\ v \in 1 .. Len(Trace(prog))
    BY DEF HostAt
  <1>2. PICK x : x = SerialBody(prog, Trace(prog)[v], v)
    OBVIOUS
  <1>3. prog.items[Trace(prog)[v]].kind = "serial"
    <2>1. PICK k \in Items(prog) : k = Trace(prog)[v]
      BY <1>1, TraceFollows
    <2>2. k \notin Parallel(prog)
      BY <2>1 DEF HostAt
    <2>3. QED
      BY <2>1, <2>2 DEF WellFormed, WellFormedItem, Parallel
  <1>4. /\ x.op = "compute" /\ x.version = v
        /\ Written(x) = WrittenBy(prog.items[Trace(prog)[v]])
    BY <1>2, <1>3, HostEffect DEF WrittenBy
  <1>5. BodyText(prog)[p] = x
    BY <1>1, <1>2
  <1>6. PartOf(prog, x, v)
    BY <1>1, <1>4 DEF PartOf
  <1>7. QED
    BY <1>3, <1>4, <1>5, <1>6

IsTask(prog, instr, t, v) ==
  /\ t.item \in Parallel(prog) /\ t.target \in Nodes /\ t = Task(prog, t.item, t.target)
  /\ instr = TaskBody(prog, Task(prog, t.item, t.target), v)
  /\ instr.nodes = {t.target}

LEMMA TaskIsPart ==
  ASSUME NEW prog, WellFormed(prog), Accepted(prog), NEW at, NEW p, NEW t, NEW v, NEW l,
         TaskAt(prog, at, p, t, v, l)
  PROVE  PartOf(prog, BodyText(prog)[p], v) /\ IsTask(prog, BodyText(prog)[p], t, v)
  <1>1. /\ t \in TaskSet(prog) /\ v \in 1 .. Len(Trace(prog)) /\ Trace(prog)[v] = t.item
        /\ BodyText(prog)[p] = TaskBody(prog, t, v)
    BY DEF TaskAt
  <1>2. t.item \in Parallel(prog) /\ t.target \in Nodes /\ t = Task(prog, t.item, t.target)
    BY <1>1, TaskFields
  <1>3. PICK k \in Parallel(prog), n \in Nodes : k = t.item /\ n = t.target
    BY <1>2
  <1>4. PICK x : x = TaskBody(prog, Task(prog, k, n), v)
    OBVIOUS
  <1>5. x.op = "compute" /\ x.version = v /\ x.nodes = {n}
    BY <1>4, TaskEffect
  <1>6. \A c \in Written(x) : c \in WrittenBy(prog.items[k])
    BY <1>4, LoopWrites, Zenon
  <1>7. BodyText(prog)[p] = x /\ Trace(prog)[v] = k
    BY <1>1, <1>2, <1>3, <1>4
  <1>8. PartOf(prog, x, v)
    BY <1>1, <1>5, <1>6, <1>7 DEF PartOf
  <1>9. IsTask(prog, BodyText(prog)[p], t, v)
    BY <1>2, <1>3, <1>4, <1>5, <1>7 DEF IsTask
  <1>10. QED
    BY <1>7, <1>8, <1>9

LEMMA ComputeIsPart ==
  ASSUME NEW prog, WellFormed(prog), Accepted(prog), NEW at, InBlocks(prog, at),
         NEW p \in 1 .. Len(BodyText(prog)), BodyText(prog)[p].op = "compute"
  PROVE  PartOf(prog, BodyText(prog)[p], BodyText(prog)[p].version)
  <1>1. CASE \E v : HostAt(prog, at, p, v)
    <2>1. PICK v : HostAt(prog, at, p, v)
      BY <1>1
    <2>2. PartOf(prog, BodyText(prog)[p], v)
      BY <2>1, HostIsPart, Zenon
    <2>3. QED
      BY <2>2 DEF PartOf
  <1>2. CASE \E t, v, l : TaskAt(prog, at, p, t, v, l)
    <2>1. PICK t, v, l : TaskAt(prog, at, p, t, v, l)
      BY <1>2
    <2>2. PartOf(prog, BodyText(prog)[p], v)
      BY <2>1, TaskIsPart, Zenon
    <2>3. QED
      BY <2>2 DEF PartOf
  <1>3. QED
    BY <1>1, <1>2, ComputeIs, Zenon

(* And every cell a step writes is written by a computation of it.         *)
LEMMA WriterExists ==
  ASSUME NEW prog, WellFormed(prog), Accepted(prog), NEW at, InBlocks(prog, at),
         NEW v \in 1 .. Len(Trace(prog)), NEW c \in WrittenBy(prog.items[Trace(prog)[v]])
  PROVE  \E p \in 1 .. Len(BodyText(prog)) :
           Writer(BodyText(prog), p, c) /\ BodyText(prog)[p].version = v
  <1>1. CASE Trace(prog)[v] \notin Parallel(prog)
    <2>1. PICK p : HostAt(prog, at, p, v)
      BY <1>1, HostRuns, Zenon
    <2>2. /\ PartOf(prog, BodyText(prog)[p], v)
          /\ Written(BodyText(prog)[p]) = WrittenBy(prog.items[Trace(prog)[v]])
      BY <2>1, HostIsPart, Zenon
    <2>3. p \in 1 .. Len(BodyText(prog))
      BY <2>1 DEF HostAt
    <2>4. QED
      BY <2>2, <2>3 DEF PartOf, Writer
  <1>2. CASE Trace(prog)[v] \in Parallel(prog)
    <2>1. PICK k \in Parallel(prog) : k = Trace(prog)[v]
      BY <1>2
    <2>2. PICK n \in Nodes : c \in Written(TaskBody(prog, Task(prog, k, n), v))
      <3>1. c \in WrittenBy(prog.items[k])
        BY <2>1
      <3>2. QED
        BY <3>1, LoopWrites, Zenon
    <2>3. PICK t \in TaskSet(prog) : t = Task(prog, k, n)
      BY DEF TaskSet
    <2>4. t.item = k
      BY <2>3 DEF Task
    <2>5. PICK p, l : TaskAt(prog, at, p, t, v, l)
      BY <2>1, <2>4, TaskRuns, Zenon
    <2>6. PartOf(prog, BodyText(prog)[p], v)
      BY <2>5, TaskIsPart, Zenon
    <2>7. p \in 1 .. Len(BodyText(prog)) /\ BodyText(prog)[p] = TaskBody(prog, t, v)
      BY <2>5 DEF TaskAt
    <2>8. QED
      BY <2>2, <2>3, <2>6, <2>7 DEF PartOf, Writer
  <1>3. QED
    BY <1>1, <1>2

(* Two computations of one step do not clash.                              *)
LEMMA VersionsApart ==
  ASSUME NEW prog, WellFormed(prog), Accepted(prog), NEW at, InBlocks(prog, at),
         NEW p \in 1 .. Len(BodyText(prog)), BodyText(prog)[p].op = "compute",
         NEW q \in 1 .. Len(BodyText(prog)), BodyText(prog)[q].op = "compute",
         BodyText(prog)[p].version = BodyText(prog)[q].version,
         Clash(BodyText(prog)[p], BodyText(prog)[q])
  PROVE  p = q
  <1>a. PICK B : B = BodyText(prog)
    OBVIOUS
  <1>b. PICK v : v = B[p].version
    OBVIOUS
  <1>1. ASSUME NEW k \in 1 .. Len(B), B[k].op = "compute", B[k].version = v
        PROVE  HostAt(prog, at, k, v) \/ \E t, l : TaskAt(prog, at, k, t, v, l)
    <2>1. CASE \E s : HostAt(prog, at, k, s)
      <3>1. PICK s : HostAt(prog, at, k, s)
        BY <2>1
      <3>2. PartOf(prog, BodyText(prog)[k], s)
        BY <3>1, HostIsPart, Zenon
      <3>3. s = v
        BY <1>a, <1>1, <3>2 DEF PartOf
      <3>4. QED
        BY <3>1, <3>3
    <2>2. CASE \E t, s, l : TaskAt(prog, at, k, t, s, l)
      <3>1. PICK t, s, l : TaskAt(prog, at, k, t, s, l)
        BY <2>2
      <3>2. PartOf(prog, BodyText(prog)[k], s)
        BY <3>1, TaskIsPart, Zenon
      <3>3. s = v
        BY <1>a, <1>1, <3>2 DEF PartOf
      <3>4. QED
        BY <3>1, <3>3
    <2>3. QED
      BY <1>a, <1>1, <2>1, <2>2, ComputeIs, Zenon
  <1>2. HostAt(prog, at, p, v) \/ \E t, l : TaskAt(prog, at, p, t, v, l)
    BY <1>a, <1>b, <1>1
  <1>3. HostAt(prog, at, q, v) \/ \E t, l : TaskAt(prog, at, q, t, v, l)
    BY <1>a, <1>b, <1>1
  <1>4. \A k, t, l : TaskAt(prog, at, k, t, v, l) => Trace(prog)[v] \in Parallel(prog)
    <2>1. SUFFICES ASSUME NEW k, NEW t, NEW l, TaskAt(prog, at, k, t, v, l)
                   PROVE  Trace(prog)[v] \in Parallel(prog)
      OBVIOUS
    <2>2. IsTask(prog, BodyText(prog)[k], t, v)
      BY <2>1, TaskIsPart, Zenon
    <2>3. QED
      BY <2>1, <2>2 DEF TaskAt, IsTask
  <1>5. CASE HostAt(prog, at, p, v) /\ HostAt(prog, at, q, v)
    <2>1. at[p] = at[q]
      BY <1>5 DEF HostAt
    <2>2. QED
      BY <2>1, SamePosition, Zenon
  <1>6. CASE (\E t, l : TaskAt(prog, at, p, t, v, l)) /\ \E t, l : TaskAt(prog, at, q, t, v, l)
    <2>1. PICK t, l : TaskAt(prog, at, p, t, v, l)
      BY <1>6
    <2>2. PICK u, m : TaskAt(prog, at, q, u, v, m)
      BY <1>6
    <2>3. IsTask(prog, BodyText(prog)[p], t, v)
      BY <2>1, TaskIsPart, Zenon
    <2>4. IsTask(prog, BodyText(prog)[q], u, v)
      BY <2>2, TaskIsPart, Zenon
    <2>5. t.item = u.item
      BY <2>1, <2>2 DEF TaskAt
    <2>6. t.target = u.target
      <3>1. SUFFICES ASSUME t.target # u.target PROVE FALSE
        OBVIOUS
      <3>2. PICK k \in Parallel(prog), n \in Nodes, i \in Nodes :
              k = t.item /\ n = t.target /\ i = u.target
        BY <2>3, <2>4 DEF IsTask
      <3>3. ~ Clash(TaskBody(prog, Task(prog, k, n), v), TaskBody(prog, Task(prog, k, i), v))
        BY <3>1, <3>2, ShardsAgree, Zenon
      <3>4. QED
        BY <2>3, <2>4, <2>5, <3>2, <3>3 DEF IsTask
    <2>7. t = u
      BY <2>3, <2>4, <2>5, <2>6 DEF IsTask
    <2>8. QED
      BY <2>1, <2>2, <2>7, TaskRunsOnce, Zenon
  <1>7. ~ (HostAt(prog, at, p, v) /\ \E t, l : TaskAt(prog, at, q, t, v, l))
    BY <1>4 DEF HostAt
  <1>8. ~ (HostAt(prog, at, q, v) /\ \E t, l : TaskAt(prog, at, p, t, v, l))
    BY <1>4 DEF HostAt
  <1>9. QED
    BY <1>2, <1>3, <1>5, <1>6, <1>7, <1>8

(* The step of the trace that writes a cell last before another.           *)
LastStep(prog, s, c, V) ==
  /\ V \in 0 .. s - 1
  /\ V # 0 => c \in WrittenBy(prog.items[Trace(prog)[V]])
  /\ \A j \in 1 .. s - 1 : c \in WrittenBy(prog.items[Trace(prog)[j]]) => j <= V

LEMMA VersionIs ==
  ASSUME NEW prog, NEW s \in Nat \ {0}, NEW c
  PROVE  LastStep(prog, s, c, VersionBefore(prog, s, c))
  <1> DEFINE S == {0} \cup {j \in 1 .. s - 1 : c \in WrittenBy(prog.items[Trace(prog)[j]])}
  <1>1. S \in SUBSET (0 .. s - 1) /\ S # {} /\ s - 1 \in Nat
    OBVIOUS
  <1>2. PICK x \in S : \A y \in S : y <= x
    <2> HIDE DEF S
    <2>1. QED
      BY <1>1, LargestNumber
  <1>3. x >= x /\ \A y \in S : x >= y
    BY <1>1, <1>2
  <1>4. PICK V : V = VersionBefore(prog, s, c)
    OBVIOUS
  <1>5. V = CHOOSE y \in S : \A z \in S : y >= z
    BY <1>4 DEF VersionBefore, Max
  <1>6. V \in S /\ \A y \in S : V >= y
    <2> HIDE DEF S
    <2>1. QED
      BY <1>3, <1>5
  <1>7. V \in 0 .. s - 1
    BY <1>1, <1>6
  <1>8. V # 0 => c \in WrittenBy(prog.items[Trace(prog)[V]])
    BY <1>6
  <1>9. ASSUME NEW j \in 1 .. s - 1, c \in WrittenBy(prog.items[Trace(prog)[j]]) PROVE j <= V
    <2>1. V >= j
      BY <1>6, <1>9
    <2>2. QED
      BY <1>7, <2>1
  <1>10. QED
    BY <1>4, <1>7, <1>8, <1>9 DEF LastStep

(* The text is the body, a barrier and the return.                         *)
TextOf(prog, code) ==
  /\ code = EmittedProgram(prog) /\ Len(BodyText(prog)) \in Nat
  /\ Len(code) = Len(BodyText(prog)) + 2 /\ DOMAIN code = 1 .. Len(BodyText(prog)) + 2
  /\ \A p \in 1 .. Len(BodyText(prog)) : code[p] = BodyText(prog)[p]
  /\ code[Len(BodyText(prog)) + 1] = Barrier /\ code[Len(BodyText(prog)) + 2] = Return(prog)
  /\ Len(Trace(prog)) \in Nat

LEMMA TextParts ==
  ASSUME NEW prog, WellFormed(prog), Accepted(prog)
  PROVE  TextOf(prog, EmittedProgram(prog))
  <1>1. PICK code \in Seq(Instructions(prog) \cup {Return(prog)}), n \in Nat :
          /\ code = EmittedProgram(prog) /\ n = Len(BodyText(prog)) /\ Len(code) = n + 2
          /\ \A p \in 1 .. n : code[p] = BodyText(prog)[p] /\ code[p] \in Instructions(prog)
          /\ code[n + 1] = Barrier /\ code[n + 2] = Return(prog)
    BY TextIs
  <1>2. DOMAIN code = 1 .. n + 2
    BY <1>1
  <1>3. Len(Trace(prog)) \in Nat
    <2>1. Trace(prog) \in Seq(Items(prog))
      BY TraceFollows
    <2>2. QED
      BY <2>1
  <1>4. TextOf(prog, code)
    BY <1>1, <1>2, <1>3 DEF TextOf
  <1>5. QED
    BY <1>1, <1>4

(* The computations of the text are those of its body.                     *)
LEMMA ComputesInBody ==
  ASSUME NEW prog, WellFormed(prog), Accepted(prog), NEW at, InBlocks(prog, at),
         NEW code, TextOf(prog, code), NEW p \in DOMAIN code, code[p].op = "compute"
  PROVE  /\ p \in 1 .. Len(BodyText(prog)) /\ code[p] = BodyText(prog)[p]
         /\ PartOf(prog, code[p], code[p].version)
  <1>1. p \in 1 .. Len(BodyText(prog)) + 2 /\ Len(BodyText(prog)) \in Nat
    BY DEF TextOf
  <1>2. p # Len(BodyText(prog)) + 1
    <2>1. code[Len(BodyText(prog)) + 1].op = "barrier"
      BY DEF TextOf, Barrier
    <2>2. QED
      BY <2>1
  <1>3. p # Len(BodyText(prog)) + 2
    <2>1. code[Len(BodyText(prog)) + 2].op = "return"
      BY DEF TextOf, Return
    <2>2. QED
      BY <2>1
  <1>4. p \in 1 .. Len(BodyText(prog))
    BY <1>1, <1>2, <1>3
  <1>5. code[p] = BodyText(prog)[p]
    BY <1>4 DEF TextOf
  <1>6. PartOf(prog, BodyText(prog)[p], BodyText(prog)[p].version)
    BY <1>4, <1>5, ComputeIsPart, Zenon
  <1>7. QED
    BY <1>4, <1>5, <1>6

(* Of two computations that clash the text has first the one that the      *)
(* sequential program runs first.                                          *)
LEMMA ClashIsOrdered ==
  ASSUME NEW prog, WellFormed(prog), Accepted(prog), NEW at, InBlocks(prog, at),
         NEW code, TextOf(prog, code), NEW p \in DOMAIN code, code[p].op = "compute",
         NEW q \in DOMAIN code, code[q].op = "compute", p < q, Clash(code[p], code[q])
  PROVE  code[p].version < code[q].version
  <1>1. /\ p \in 1 .. Len(BodyText(prog)) /\ code[p] = BodyText(prog)[p]
        /\ PartOf(prog, code[p], code[p].version)
    BY ComputesInBody, Zenon
  <1>2. /\ q \in 1 .. Len(BodyText(prog)) /\ code[q] = BodyText(prog)[q]
        /\ PartOf(prog, code[q], code[q].version)
    BY ComputesInBody, Zenon
  <1>3. code = EmittedProgram(prog) /\ DOMAIN code = 1 .. Len(code)
    BY DEF TextOf
  <1>4. code[p].version <= code[q].version
    BY <1>3, ClashesKeepSourceOrder
  <1>5. code[p].version # code[q].version
    <2>1. SUFFICES ASSUME code[p].version = code[q].version PROVE p = q
      <3>1. p \in Int /\ q \in Int /\ p # q
        BY DEF TextOf
      <3>2. QED
        BY <3>1
    <2>2. /\ BodyText(prog)[p].op = "compute" /\ BodyText(prog)[q].op = "compute"
          /\ BodyText(prog)[p].version = BodyText(prog)[q].version
          /\ Clash(BodyText(prog)[p], BodyText(prog)[q])
      BY <1>1, <1>2, <2>1
    <2>3. QED
      BY <1>1, <1>2, <2>2, VersionsApart, Zenon
  <1>6. code[p].version \in Int /\ code[q].version \in Int
    BY <1>1, <1>2 DEF PartOf
  <1>7. QED
    BY <1>4, <1>5, <1>6

(* If the writers of a cell that come before a position are those of the   *)
(* steps before v, the cell is there of the version it has before v.       *)
Divided(code, q, v, c) ==
  \A p \in DOMAIN code : Writer(code, p, c) => (p < q <=> code[p].version < v)

LEMMA NowIs ==
  ASSUME NEW prog, WellFormed(prog), Accepted(prog), NEW at, InBlocks(prog, at),
         NEW code, TextOf(prog, code), NEW q \in DOMAIN code,
         NEW v \in 1 .. Len(Trace(prog)) + 1, NEW c, Divided(code, q, v, c)
  PROVE  Now(code, q, c, VersionBefore(prog, v, c))
  <1>1. PICK V : V = VersionBefore(prog, v, c)
    OBVIOUS
  <1>2. v \in Nat \ {0} /\ DOMAIN code \subseteq Nat \ {0} /\ 1 .. q - 1 \subseteq DOMAIN code
    BY DEF TextOf
  <1>3. LastStep(prog, v, c, V)
    BY <1>1, <1>2, VersionIs, Zenon
  <1>4. V \in 0 .. v - 1
    BY <1>3 DEF LastStep
  <1>5. ASSUME NEW p \in 1 .. q - 1, Writer(code, p, c)
        PROVE  code[p].version \in 1 .. V
    <2>1. p \in DOMAIN code /\ p < q
      BY <1>2
    <2>2. code[p].op = "compute" /\ c \in Written(code[p])
      BY <1>5 DEF Writer
    <2>3. PartOf(prog, code[p], code[p].version)
      BY <2>1, <2>2, ComputesInBody, Zenon
    <2>4. code[p].version < v
      BY <1>5, <2>1 DEF Divided
    <2>5. PICK s : s = code[p].version
      OBVIOUS
    <2>6. s \in 1 .. Len(Trace(prog)) /\ c \in WrittenBy(prog.items[Trace(prog)[s]]) /\ s < v
      BY <2>2, <2>3, <2>4, <2>5 DEF PartOf
    <2>7. s \in 1 .. v - 1
      BY <1>2, <2>6
    <2>8. s <= V
      BY <1>3, <2>6, <2>7 DEF LastStep
    <2>9. QED
      BY <1>4, <2>5, <2>7, <2>8
  <1>6. CASE V = 0
    <2>1. \A p \in 1 .. q - 1 : ~ Writer(code, p, c)
      BY <1>5, <1>6
    <2>2. QED
      BY <1>1, <1>6, <2>1 DEF Now
  <1>7. CASE V # 0
    <2>1. V \in 1 .. Len(Trace(prog)) /\ V < v
      BY <1>4, <1>7 DEF TextOf
    <2>2. c \in WrittenBy(prog.items[Trace(prog)[V]])
      BY <1>3, <1>7 DEF LastStep
    <2>3. PICK p \in 1 .. Len(BodyText(prog)) :
            Writer(BodyText(prog), p, c) /\ BodyText(prog)[p].version = V
      BY <2>1, <2>2, WriterExists, Zenon
    <2>4. p \in DOMAIN code /\ code[p] = BodyText(prog)[p]
      BY DEF TextOf
    <2>5. Writer(code, p, c) /\ code[p].version = V
      BY <2>3, <2>4 DEF Writer
    <2>6. p < q
      BY <2>1, <2>4, <2>5 DEF Divided
    <2>7. p \in 1 .. q - 1
      BY <1>2, <2>4, <2>6
    <2>8. ASSUME NEW k \in p + 1 .. q - 1, Writer(code, k, c) PROVE FALSE
      <3>1. k \in 1 .. q - 1 /\ k \in DOMAIN code /\ p < k
        BY <1>2, <2>7
      <3>2. code[k].version \in 1 .. V
        BY <1>5, <2>8, <3>1
      <3>3. Clash(code[p], code[k])
        BY <2>5, <2>8 DEF Writer, Clash
      <3>4. code[p].op = "compute" /\ code[k].op = "compute"
        BY <2>5, <2>8 DEF Writer
      <3>5. code[p].version < code[k].version
        BY <2>4, <3>1, <3>3, <3>4, ClashIsOrdered, Zenon
      <3>6. QED
        BY <1>4, <2>5, <3>2, <3>5
    <2>9. IsLast(code, c, q, p)
      BY <2>5, <2>7, <2>8 DEF IsLast
    <2>10. QED
      BY <1>1, <2>5, <2>7, <2>9 DEF Now
  <1>8. QED
    BY <1>6, <1>7

(* That is so at a computation for the cells it reads or writes, and at    *)
(* the return for all.                                                     *)
LEMMA DividedAtCompute ==
  ASSUME NEW prog, WellFormed(prog), Accepted(prog), NEW at, InBlocks(prog, at),
         NEW code, TextOf(prog, code), NEW q \in DOMAIN code, code[q].op = "compute",
         NEW c, c \in Written(code[q]) \cup ReadBy(code[q])
  PROVE  Divided(code, q, code[q].version, c)
  <1>1. SUFFICES ASSUME NEW p \in DOMAIN code, Writer(code, p, c)
                 PROVE  p < q <=> code[p].version < code[q].version
    BY DEF Divided
  <1>2. code[p].op = "compute" /\ c \in Written(code[p])
    BY <1>1 DEF Writer
  <1>3. Clash(code[p], code[q]) /\ Clash(code[q], code[p])
    BY <1>2 DEF Clash
  <1>4. PartOf(prog, code[p], code[p].version) /\ PartOf(prog, code[q], code[q].version)
    BY <1>2, ComputesInBody, Zenon
  <1>5. code[p].version \in Int /\ code[q].version \in Int /\ p \in Int /\ q \in Int
    BY <1>4 DEF PartOf, TextOf
  <1>6. p < q => code[p].version < code[q].version
    BY <1>2, <1>3, ClashIsOrdered, Zenon
  <1>7. q < p => code[q].version < code[p].version
    BY <1>2, <1>3, ClashIsOrdered, Zenon
  <1>8. p = q => code[p].version = code[q].version
    OBVIOUS
  <1>9. QED
    BY <1>5, <1>6, <1>7, <1>8

LEMMA DividedAtReturn ==
  ASSUME NEW prog, WellFormed(prog), Accepted(prog), NEW at, InBlocks(prog, at),
         NEW code, TextOf(prog, code), NEW q \in DOMAIN code, code[q].op = "return", NEW c
  PROVE  Divided(code, q, Len(Trace(prog)) + 1, c) /\ q = Len(BodyText(prog)) + 2
  <1>1. q \in 1 .. Len(BodyText(prog)) + 2 /\ Len(BodyText(prog)) \in Nat
    BY DEF TextOf
  <1>2. q \notin 1 .. Len(BodyText(prog))
    <2>1. SUFFICES ASSUME q \in 1 .. Len(BodyText(prog)) PROVE FALSE
      OBVIOUS
    <2>2. code[q] \in Instructions(prog)
      <3>1. BodyText(prog) \in Seq(Instructions(prog))
        BY BodyOrigin
      <3>2. code[q] = BodyText(prog)[q]
        BY <2>1 DEF TextOf
      <3>3. QED
        BY <2>1, <3>1, <3>2
    <2>3. code[q].op # "return"
      BY <2>2 DEF Instructions, TaskComputes, SerialComputes, TaskBody, SerialBody, Body, Collectives, Barrier
    <2>4. QED
      BY <2>3
  <1>3. q # Len(BodyText(prog)) + 1
    <2>1. code[Len(BodyText(prog)) + 1].op = "barrier"
      BY DEF TextOf, Barrier
    <2>2. QED
      BY <2>1
  <1>4. q = Len(BodyText(prog)) + 2
    BY <1>1, <1>2, <1>3
  <1>5. ASSUME NEW p \in DOMAIN code, Writer(code, p, c)
        PROVE  p < q /\ code[p].version < Len(Trace(prog)) + 1
    <2>1. code[p].op = "compute"
      BY <1>5 DEF Writer
    <2>2. PartOf(prog, code[p], code[p].version) /\ p \in 1 .. Len(BodyText(prog))
      BY <2>1, ComputesInBody, Zenon
    <2>3. code[p].version \in 1 .. Len(Trace(prog)) /\ Len(Trace(prog)) \in Nat
      BY <2>2 DEF PartOf, TextOf
    <2>4. QED
      BY <1>1, <1>4, <2>2, <2>3
  <1>6. QED
    BY <1>4, <1>5 DEF Divided

(* No computation writes over a later version than its own.                *)
LEMMA WritesGoForward ==
  ASSUME NEW prog, WellFormed(prog), Accepted(prog), NEW at, InBlocks(prog, at),
         NEW code, TextOf(prog, code), NEW q \in DOMAIN code, code[q].op = "compute",
         NEW c \in Written(code[q]), NEW v, Now(code, q, c, v)
  PROVE  v < code[q].version
  <1>1. PartOf(prog, code[q], code[q].version)
    BY ComputesInBody, Zenon
  <1>2. code[q].version \in Nat \ {0}
    BY <1>1 DEF PartOf
  <1>3. CASE v = 0
    BY <1>2, <1>3
  <1>4. CASE v # 0
    <2>1. PICK p \in 1 .. q - 1 : IsLast(code, c, q, p) /\ v = code[p].version
      BY <1>4 DEF Now
    <2>2. p \in DOMAIN code /\ p < q
      BY DEF TextOf
    <2>3. Divided(code, q, code[q].version, c)
      BY DividedAtCompute, Zenon
    <2>4. Writer(code, p, c)
      BY <2>1 DEF IsLast
    <2>5. QED
      BY <2>1, <2>2, <2>3, <2>4 DEF Divided
  <1>5. QED
    BY <1>3, <1>4

-----------------------------------------------------------------------------
(* As many ranks as nodes: every rank is that of a node.                   *)
LEMMA EveryRankHasANode ==
  ASSUME NEW r \in Ranks
  PROVE  \E n \in Ranks : NodeToRank[n] = r
  <1>1. IsFiniteSet(Ranks)
    BY RanksAssumption, FS_Interval DEF Ranks
  <1>2. NodeToRank \in Injection(Ranks, Ranks)
    BY NodeToRankAssumption DEF Injection, IsInjective
  <1>3. NodeToRank \in Surjection(Ranks, Ranks)
    BY <1>1, <1>2, FS_Injection
  <1>4. QED
    BY <1>3 DEF Surjection

(* What the computations take, and of which version it should be: what they *)
(* read, and what they leave alone of the rows they store to.              *)
TakenBy(instr, d) == d \in instr.keeps \/ \E e \in instr.effect : d \in e.needs

HostReads(prog, k, d) == d.cell \in prog.items[k].reads

TaskReads(prog, k, n, d) == \E i \in Shard(prog.items[k], n) : d.cell \in TakesIn(prog.items[k], i)

LEMMA HostReadsAre ==
  ASSUME NEW prog, WellFormed(prog), NEW k, NEW v, k \in Items(prog) \ Parallel(prog),
         NEW d, TakenBy(SerialBody(prog, k, v), d)
  PROVE  /\ HostReads(prog, k, d) /\ d.version = VersionBefore(prog, v, d.cell) /\ d.cell \in Cells
  <1>1. d \in Dated(prog, v, prog.items[k].reads)
    BY HostEffect DEF TakenBy
  <1>2. d.cell \in prog.items[k].reads /\ d.version = VersionBefore(prog, v, d.cell)
    BY <1>1, DatedCells
  <1>3. prog.items[k].reads \subseteq Cells
    BY DEF WellFormed, WellFormedItem, Parallel
  <1>4. QED
    BY <1>2, <1>3 DEF HostReads

LEMMA TaskReadsAre ==
  ASSUME NEW prog, WellFormed(prog), Accepted(prog), NEW k \in Parallel(prog), NEW n \in Nodes, NEW v,
         NEW d, TakenBy(TaskBody(prog, Task(prog, k, n), v), d)
  PROVE  /\ TaskReads(prog, k, n, d) /\ d.version = VersionBefore(prog, v, d.cell) /\ d.cell \in Cells
  <1>1. PICK x : x = TaskBody(prog, Task(prog, k, n), v)
    OBVIOUS
  <1>2. CASE \E e \in x.effect : d \in e.needs
    <2>1. PICK e \in x.effect : d \in e.needs
      BY <1>2
    <2>2. PICK i \in Shard(prog.items[k], n) : OfIteration(prog, k, v, e, i)
      BY <1>1, <2>1, TaskEffect
    <2>3. d \in Dated(prog, v, LoadsOf(prog.items[k], i))
      BY <2>1, <2>2 DEF OfIteration
    <2>4. d.cell \in LoadsOf(prog.items[k], i) /\ d.version = VersionBefore(prog, v, d.cell)
      BY <2>3, DatedCells
    <2>5. PICK a \in AccessSet(prog.items[k]) : d.cell \in Touched(a, i)
      BY <2>4 DEF LoadsOf
    <2>6. d.cell \in Cells
      BY <2>5, TouchedCells DEF Cells
    <2>7. QED
      BY <2>4, <2>6 DEF TaskReads, TakesIn
  <1>3. CASE d \in x.keeps
    <2>1. PICK cells : /\ x.keeps = Dated(prog, v, cells)
                       /\ \A c : c \in cells <=> \E i \in Shard(prog.items[k], n) : c \in KeptIn(prog.items[k], i)
      BY <1>1, TaskEffect
    <2>2. d.cell \in cells /\ d.version = VersionBefore(prog, v, d.cell)
      BY <1>3, <2>1, DatedCells
    <2>3. PICK i \in Shard(prog.items[k], n) : d.cell \in KeptIn(prog.items[k], i)
      BY <2>1, <2>2
    <2>4. QED
      BY <2>2, <2>3 DEF KeptIn, TaskReads, TakesIn
  <1>4. QED
    BY <1>1, <1>2, <1>3 DEF TakenBy

(* Every cell a computation of the text takes is in its place.             *)
ReadsRight(prog, at, q, d) ==
  \/ \E v : HostAt(prog, at, q, v) /\ HostReads(prog, Trace(prog)[v], d)
            /\ Trace(prog)[v] \in Items(prog) \ Parallel(prog)
  \/ \E u, v, l : TaskAt(prog, at, q, u, v, l) /\ TaskReads(prog, u.item, u.target, d)

LEMMA ReadsAreRight ==
  ASSUME NEW prog, WellFormed(prog), Accepted(prog), NEW at, InBlocks(prog, at),
         NEW q \in 1 .. Len(BodyText(prog)), BodyText(prog)[q].op = "compute",
         NEW d, TakenBy(BodyText(prog)[q], d)
  PROVE  /\ ReadsRight(prog, at, q, d) /\ d.cell \in Cells
         /\ d.version = VersionBefore(prog, BodyText(prog)[q].version, d.cell)
  <1>1. CASE \E v : HostAt(prog, at, q, v)
    <2>1. PICK v : HostAt(prog, at, q, v)
      BY <1>1
    <2>2. PICK k : k = Trace(prog)[v]
      OBVIOUS
    <2>3. k \in Items(prog) \ Parallel(prog)
      <3>1. Trace(prog) \in Seq(Items(prog))
        BY TraceFollows
      <3>2. v \in 1 .. Len(Trace(prog)) /\ k \notin Parallel(prog)
        BY <2>1, <2>2 DEF HostAt
      <3>3. QED
        BY <2>2, <3>1, <3>2
    <2>4. BodyText(prog)[q] = SerialBody(prog, k, v)
      BY <2>1, <2>2 DEF HostAt
    <2>5. TakenBy(SerialBody(prog, k, v), d)
      BY <2>4
    <2>6. HostReads(prog, k, d) /\ d.version = VersionBefore(prog, v, d.cell) /\ d.cell \in Cells
      BY <2>3, <2>5, HostReadsAre, Zenon
    <2>7. BodyText(prog)[q].version = v
      BY <2>4, HostEffect
    <2>8. ReadsRight(prog, at, q, d)
      BY <2>1, <2>2, <2>3, <2>6 DEF ReadsRight
    <2>9. QED
      BY <2>6, <2>7, <2>8
  <1>2. CASE \E u, v, l : TaskAt(prog, at, q, u, v, l)
    <2>1. PICK u, v, l : TaskAt(prog, at, q, u, v, l)
      BY <1>2
    <2>2. PartOf(prog, BodyText(prog)[q], v) /\ IsTask(prog, BodyText(prog)[q], u, v)
      BY <2>1, TaskIsPart, Zenon
    <2>3. PICK k \in Parallel(prog), n \in Nodes : k = u.item /\ n = u.target
      BY <2>2 DEF IsTask
    <2>4. TakenBy(TaskBody(prog, Task(prog, k, n), v), d)
      BY <2>2, <2>3 DEF IsTask
    <2>5. TaskReads(prog, k, n, d) /\ d.version = VersionBefore(prog, v, d.cell) /\ d.cell \in Cells
      BY <2>4, TaskReadsAre, Zenon
    <2>6. BodyText(prog)[q].version = v
      BY <2>2 DEF PartOf
    <2>7. ReadsRight(prog, at, q, d)
      BY <2>1, <2>3, <2>5 DEF ReadsRight
    <2>8. QED
      BY <2>5, <2>6, <2>7
  <1>3. QED
    BY <1>1, <1>2, ComputeIs, Zenon

(* What a task has written is on its own rank at once, on the root before  *)
(* its block is over, and on every rank then if it is broadcast.           *)
Reaching(code, p, r, c, q) ==
  Concerns(code[p], r) \/ \E k \in p + 1 .. q - 1 : Brings(code[k], r, c)

LEMMA Reaches ==
  ASSUME AllCells = Cells, NEW prog, WellFormed(prog), Accepted(prog), Covered(prog), NEW at, InBlocks(prog, at),
         NEW code, TextOf(prog, code), NEW p, NEW t, NEW v, NEW l, TaskAt(prog, at, p, t, v, l),
         NEW c \in Written(code[p]), NEW q \in DOMAIN code, p < q,
         q \in 1 .. Len(BodyText(prog)) => ~ Together(at, p, q),
         NEW r \in Ranks, r = rootRank \/ needBroadcast(prog, t.item)
  PROVE  Reaching(code, p, r, c, q)
  <1>1. IsTask(prog, BodyText(prog)[p], t, v) /\ PartOf(prog, BodyText(prog)[p], v)
    BY TaskIsPart, Zenon
  <1>2. p \in 1 .. Len(BodyText(prog)) /\ t \in TaskSet(prog)
    BY DEF TaskAt
  <1>3. code[p] = BodyText(prog)[p]
    BY <1>2 DEF TextOf
  <1>4. PICK k \in Parallel(prog), n \in Nodes : k = t.item /\ n = t.target
    BY <1>1 DEF IsTask
  <1>5. c \in Written(TaskBody(prog, Task(prog, k, n), v))
    BY <1>1, <1>3, <1>4 DEF IsTask
  <1>6. PICK j \in 1 .. Len(Task(prog, k, n).outputs) : c \in SlabCells(OutSlabs(Task(prog, k, n))[j])
    <2>1. c \in Cells
      <3>1. PICK i \in Shard(prog.items[k], n) : c \in StoresOf(prog.items[k], i)
        BY <1>5, TaskTouches, Zenon
      <3>2. i \in Int
        BY TaskEffect
      <3>3. QED
        BY <3>1, <3>2, StoreCells
    <2>2. Travels(TaskBody(prog, Task(prog, k, n), v), c)
      BY <1>5 DEF Travels
    <2>3. QED
      BY <2>1, <2>2, OutputCells, Zenon
  <1>7. j \in 1 .. Len(t.outputs) /\ c \in SlabCells(OutSlabs(t)[j])
    BY <1>1, <1>4, <1>6 DEF IsTask
  <1>8. ASSUME NEW g \in 1 .. Len(BodyText(prog)), p < g, Together(at, p, g), Brings(code[g], r, c)
        PROVE  Reaching(code, p, r, c, q)
    <2>1. q \in Nat /\ Len(BodyText(prog)) \in Nat
      BY DEF TextOf
    <2>2. CASE g < q
      <3>1. g \in p + 1 .. q - 1
        BY <1>2, <1>8, <2>1, <2>2
      <3>2. QED
        BY <1>8, <3>1 DEF Reaching
    <2>3. CASE ~ g < q
      <3>1. q \in p .. g /\ q \in 1 .. Len(BodyText(prog))
        BY <1>2, <1>8, <2>1, <2>3
      <3>2. \A i \in p .. g : i \in 1 .. Len(BodyText(prog)) => Together(at, p, i)
        BY <1>2, <1>8, InTheBlock, Zenon
      <3>3. QED
        BY <3>1, <3>2
    <2>4. QED
      BY <2>2, <2>3
  <1>9. CASE r = rootRank
    <2>1. CASE t.target = 0
      <3>1. NodeToRank[0] = r /\ code[p].nodes = {0}
        BY <1>1, <1>3, <1>9, <2>1 DEF IsTask, rootRank
      <3>2. Concerns(code[p], r)
        BY <1>1, <1>3, <3>1 DEF Concerns, RunsTask, PartOf
      <3>3. QED
        BY <3>2 DEF Reaching
    <2>2. CASE t.target # 0
      <3>1. PICK g \in 1 .. Len(BodyText(prog)) :
              p < g /\ Together(at, p, g) /\ BodyText(prog)[g] = Gather(t, j)
        BY <1>7, <2>2, GatherFollows
      <3>2. code[g] = Gather(t, j)
        BY <3>1 DEF TextOf
      <3>3. Brings(code[g], r, c)
        BY <1>7, <1>9, <3>2 DEF Brings, Gather
      <3>4. QED
        BY <1>8, <3>1, <3>3
    <2>3. QED
      BY <2>1, <2>2
  <1>10. CASE r # rootRank
    <2>1. needBroadcast(prog, t.item)
      BY <1>10
    <2>2. PICK b \in 1 .. Len(BodyText(prog)) :
            /\ p < b /\ Together(at, p, b) /\ BodyText(prog)[b].op = "broadcast"
            /\ c \in SlabCells(BodyText(prog)[b].slab)
      BY <1>7, <2>1, BroadcastFollows, Zenon
    <2>3. code[b] = BodyText(prog)[b]
      BY DEF TextOf
    <2>4. Brings(code[b], r, c)
      BY <1>10, <2>2, <2>3 DEF Brings
    <2>5. QED
      BY <1>8, <2>2, <2>4
  <1>11. QED
    BY <1>9, <1>10

(* A reader of what is not broadcast reads what its own device has written. *)
LEMMA ReadersAtHome ==
  ASSUME NEW prog, WellFormed(prog), Accepted(prog), NEW k \in Parallel(prog), NEW j \in Parallel(prog),
         NEW n \in Nodes, NEW m \in Nodes, NEW v, NEW d,
         d.cell \in Written(TaskBody(prog, Task(prog, k, n), v)), TaskReads(prog, j, m, d),
         NEW mem, mem = d.cell[1], StaysOnDevice(prog, k, j, mem)
  PROVE  n = m
  <1>1. PICK item : item = prog.items[k] /\ item.lb \in Nat /\ item.ub \in Nat /\ item.lb <= item.ub
                    /\ item.accesses \in Seq(Accesses) /\ Lowerable(item)
    BY LoopFields
  <1>2. PICK reader : reader = prog.items[j]
    OBVIOUS
  <1>3. /\ reader.lb = item.lb /\ reader.ub = item.ub
        /\ \A a \in AccessesTo(reader, mem) : a.form = "exact" /\ a.dim = 0 /\ a.off = 0
    BY <1>1, <1>2 DEF StaysOnDevice
  <1>4. Shard(reader, m) = Shard(item, m)
    BY <1>3, SameShards, Zenon
  <1>5. PICK i \in Shard(item, n) : d.cell \in StoresOf(item, i)
    <2>1. \E i \in Shard(prog.items[k], n) : d.cell \in StoresOf(prog.items[k], i)
      BY TaskTouches, Zenon
    <2>2. QED
      BY <1>1, <2>1
  <1>6. \A x \in Nodes : Shard(item, x) \subseteq item.lb .. item.ub - 1
    BY <1>1, ShardsTile
  <1>7. d.cell[2] = i
    <2>1. i \in Int
      BY <1>1, <1>6
    <2>2. QED
      BY <1>1, <1>5, <2>1, StoreCells
  <1>8. PICK z \in Shard(item, m) : d.cell \in TakesIn(reader, z)
    BY <1>2, <1>4 DEF TaskReads
  <1>9. z \in Int
    BY <1>1, <1>6
  <1>10. d.cell[2] = z
    <2>1. CASE d.cell \in LoadsOf(reader, z)
      <3>1. PICK a \in AccessSet(reader) : d.cell \in Touched(a, z)
        BY <2>1 DEF LoadsOf
      <3>2. a.mem = mem /\ d.cell[2] \in RowsOf(a, z)
        BY <1>2, <3>1, TouchedCells
      <3>3. RowsOf(a, z) = {z + 0}
        BY <1>3, <3>1, <3>2 DEF AccessesTo, RowsOf
      <3>4. QED
        BY <1>9, <3>2, <3>3
    <2>2. CASE d.cell \notin LoadsOf(reader, z)
      BY <1>8, <2>2 DEF TakesIn
    <2>3. QED
      BY <2>1, <2>2
  <1>11. \A x, y \in Nodes : \A w : w \in Shard(item, x) /\ w \in Shard(item, y) => x = y
    BY <1>1, ShardsTile
  <1>12. QED
    BY <1>5, <1>7, <1>8, <1>10, <1>11

(* Host code runs on every rank.                                           *)
LEMMA HostEverywhere ==
  ASSUME NumRanks = NumNodes, NEW prog, NEW code, TextOf(prog, code), NEW at,
         NEW p, NEW v, HostAt(prog, at, p, v), NEW r \in Ranks
  PROVE  Concerns(code[p], r)
  <1>1. code[p] = SerialBody(prog, Trace(prog)[v], v)
    BY DEF HostAt, TextOf
  <1>2. code[p].op = "compute" /\ code[p].nodes = Nodes
    BY <1>1, HostEffect
  <1>3. Nodes = Ranks
    BY DEF Nodes, Ranks
  <1>4. PICK n \in Ranks : NodeToRank[n] = r
    BY EveryRankHasANode
  <1>5. QED
    BY <1>2, <1>3, <1>4 DEF Concerns, RunsTask

(* What a task wrote last is there for whoever reads it.                   *)
LEMMA ReaderIsServed ==
  ASSUME NumRanks = NumNodes, NEW prog, WellFormed(prog), Accepted(prog), Covered(prog),
         NEW at, InBlocks(prog, at), NEW code, TextOf(prog, code),
         NEW q \in 1 .. Len(BodyText(prog)), NEW r \in Ranks, Concerns(code[q], r),
         NEW d, ReadsRight(prog, at, q, d),
         NEW p, NEW t, NEW v, NEW l, TaskAt(prog, at, p, t, v, l), d.cell \in Written(code[p]),
         code[p].version < code[q].version, ~ needBroadcast(prog, t.item)
  PROVE  Concerns(code[p], r)
  <1>1. IsTask(prog, BodyText(prog)[p], t, v) /\ PartOf(prog, BodyText(prog)[p], v)
    BY TaskIsPart, Zenon
  <1>2. code[p] = BodyText(prog)[p] /\ code[q] = BodyText(prog)[q]
    BY DEF TaskAt, TextOf
  <1>3. PICK k \in Parallel(prog), n \in Nodes : k = t.item /\ n = t.target
    BY <1>1 DEF IsTask
  <1>4. d.cell \in Written(TaskBody(prog, Task(prog, k, n), v))
    BY <1>1, <1>2, <1>3 DEF IsTask
  <1>5. PICK mem : mem = d.cell[1]
    OBVIOUS
  <1>6. d.cell \in WrittenBy(prog.items[k])
    BY <1>4, LoopWrites, Zenon
  <1>7. \A j \in Items(prog) : \A s \in 1 .. Len(Trace(prog)) :
          Trace(prog)[s] = j /\ v < s /\ d.cell \in Takes(prog.items[j]) => StaysOnDevice(prog, k, j, mem)
    <2>1. SUFFICES ASSUME NEW j \in Items(prog), NEW s \in 1 .. Len(Trace(prog)),
                          Trace(prog)[s] = j, v < s, d.cell \in Takes(prog.items[j])
                   PROVE  StaysOnDevice(prog, k, j, mem)
      OBVIOUS
    <2>2. v \in 1 .. Len(Trace(prog)) /\ Trace(prog)[v] = k
      BY <1>3 DEF TaskAt
    <2>3. DOMAIN Trace(prog) = 1 .. Len(Trace(prog))
      <3>1. Trace(prog) \in Seq(Items(prog))
        BY TraceFollows
      <3>2. QED
        BY <3>1
    <2>4. RunsBefore(prog, k, j)
      BY <2>1, <2>2, <2>3 DEF RunsBefore
    <2>5. ReadersServed(prog)
      BY DEF Covered
    <2>6. needBroadcast(prog, k) \/ StaysOnDevice(prog, k, j, mem)
      BY <1>5, <1>6, <2>1, <2>4, <2>5 DEF ReadersServed
    <2>7. QED
      BY <1>3, <2>6
  <1>8. CASE \E s : /\ HostAt(prog, at, q, s) /\ HostReads(prog, Trace(prog)[s], d)
                    /\ Trace(prog)[s] \in Items(prog) \ Parallel(prog)
    <2>1. PICK s : /\ HostAt(prog, at, q, s) /\ HostReads(prog, Trace(prog)[s], d)
                   /\ Trace(prog)[s] \in Items(prog) \ Parallel(prog)
      BY <1>8
    <2>2. PICK j \in Items(prog) : j = Trace(prog)[s] /\ j \notin Parallel(prog)
      BY <2>1
    <2>3. PartOf(prog, BodyText(prog)[q], s)
      BY <2>1, HostIsPart, Zenon
    <2>4. s \in 1 .. Len(Trace(prog)) /\ v < s
      BY <1>1, <1>2, <2>3 DEF PartOf
    <2>5. prog.items[j].kind = "serial"
      BY <2>2 DEF WellFormed, WellFormedItem, Parallel
    <2>6. d.cell \in Takes(prog.items[j])
      BY <2>1, <2>2, <2>5 DEF HostReads, Takes
    <2>7. StaysOnDevice(prog, k, j, mem)
      BY <1>7, <2>2, <2>4, <2>6
    <2>8. QED
      BY <2>5, <2>7 DEF StaysOnDevice
  <1>9. CASE \E u, s, m : TaskAt(prog, at, q, u, s, m) /\ TaskReads(prog, u.item, u.target, d)
    <2>1. PICK u, s, m : TaskAt(prog, at, q, u, s, m) /\ TaskReads(prog, u.item, u.target, d)
      BY <1>9
    <2>2. IsTask(prog, BodyText(prog)[q], u, s) /\ PartOf(prog, BodyText(prog)[q], s)
      BY <2>1, TaskIsPart, Zenon
    <2>3. PICK j \in Parallel(prog), i \in Nodes : j = u.item /\ i = u.target
      BY <2>2 DEF IsTask
    <2>4. s \in 1 .. Len(Trace(prog)) /\ v < s /\ Trace(prog)[s] = j
      BY <1>1, <1>2, <2>1, <2>2, <2>3 DEF PartOf, TaskAt
    <2>5. TaskReads(prog, j, i, d)
      BY <2>1, <2>3
    <2>6. prog.items[j].kind # "serial" /\ j \in Items(prog)
      BY DEF Parallel
    <2>7. d.cell \in Takes(prog.items[j])
      <3>1. PICK loop : loop = prog.items[j] /\ loop.lb \in Nat /\ loop.ub \in Nat /\ loop.lb <= loop.ub
        BY LoopFields
      <3>2. PICK z \in Shard(loop, i) : d.cell \in TakesIn(loop, z)
        BY <2>5, <3>1 DEF TaskReads
      <3>3. z \in loop.lb .. loop.ub - 1
        BY <3>1, ShardsTile
      <3>4. QED
        BY <2>6, <3>1, <3>2, <3>3 DEF Takes
    <2>8. StaysOnDevice(prog, k, j, mem)
      BY <1>7, <2>4, <2>6, <2>7
    <2>9. n = i
      BY <1>4, <1>5, <2>5, <2>8, ReadersAtHome, SMTT(30)
    <2>10. code[p].nodes = code[q].nodes /\ code[p].op = "compute" /\ code[q].op = "compute"
      BY <1>1, <1>2, <1>3, <2>2, <2>3, <2>9 DEF IsTask, PartOf
    <2>11. QED
      BY <2>10 DEF Concerns, RunsTask
  <1>10. QED
    BY <1>8, <1>9 DEF ReadsRight

(* Each instruction of the text finds the cells it takes.                  *)
LEMMA ComputeHas ==
  ASSUME NumRanks = NumNodes, AllCells = Cells, NEW prog, WellFormed(prog), Accepted(prog), Covered(prog),
         NEW at, InBlocks(prog, at), NEW code, TextOf(prog, code),
         NEW q \in DOMAIN code, code[q].op = "compute", NEW r \in Ranks, Concerns(code[q], r),
         NEW d, TakenBy(code[q], d)
  PROVE  Has(code, r, d.cell, q)
  <1>1. q \in 1 .. Len(BodyText(prog)) /\ code[q] = BodyText(prog)[q]
    BY ComputesInBody, Zenon
  <1>2. ReadsRight(prog, at, q, d)
    <2>1. BodyText(prog)[q].op = "compute" /\ TakenBy(BodyText(prog)[q], d)
      BY <1>1
    <2>2. QED
      BY <1>1, <2>1, ReadsAreRight, Zenon
  <1>3. SUFFICES ASSUME NEW p \in 1 .. q - 1, IsLast(code, d.cell, q, p)
                 PROVE  Reaching(code, p, r, d.cell, q)
    BY DEF Has, Reaching
  <1>4. p \in DOMAIN code /\ p < q /\ p # q
    BY DEF TextOf
  <1>5. code[p].op = "compute" /\ d.cell \in Written(code[p])
    BY <1>3 DEF IsLast, Writer
  <1>6. p \in 1 .. Len(BodyText(prog)) /\ code[p] = BodyText(prog)[p]
    BY <1>4, <1>5, ComputesInBody, Zenon
  <1>7. Clash(code[p], code[q])
    <2>1. d.cell \in ReadBy(code[q])
      BY DEF ReadBy, TakenBy
    <2>2. QED
      BY <1>5, <2>1 DEF Clash
  <1>8. code[p].version < code[q].version
    BY <1>4, <1>5, <1>7, ClashIsOrdered, Zenon
  <1>9. ~ Together(at, p, q)
    <2>1. BodyText(prog)[p].op = "compute" /\ BodyText(prog)[q].op = "compute"
          /\ Clash(BodyText(prog)[p], BodyText(prog)[q])
      BY <1>1, <1>5, <1>6, <1>7
    <2>2. QED
      BY <1>1, <1>4, <1>6, <2>1, BlockAgrees, Zenon
  <1>10. CASE \E v : HostAt(prog, at, p, v)
    <2>1. PICK v : HostAt(prog, at, p, v)
      BY <1>10
    <2>2. Concerns(code[p], r)
      BY <2>1, HostEverywhere, Zenon
    <2>3. QED
      BY <2>2 DEF Reaching
  <1>11. CASE \E t, v, l : TaskAt(prog, at, p, t, v, l)
    <2>1. PICK t, v, l : TaskAt(prog, at, p, t, v, l)
      BY <1>11
    <2>2. CASE needBroadcast(prog, t.item)
      BY <1>4, <1>5, <1>9, <2>1, <2>2, Reaches
    <2>3. CASE ~ needBroadcast(prog, t.item)
      <3>1. Concerns(code[p], r)
        BY <1>1, <1>2, <1>5, <1>8, <2>1, <2>3, ReaderIsServed
      <3>2. QED
        BY <3>1 DEF Reaching
    <2>4. QED
      BY <2>2, <2>3
  <1>12. QED
    <2>1. BodyText(prog)[p].op = "compute"
      BY <1>5, <1>6
    <2>2. QED
      BY <1>6, <1>10, <1>11, <2>1, ComputeIs, Zenon

LEMMA ReturnHas ==
  ASSUME NumRanks = NumNodes, AllCells = Cells, NEW prog, WellFormed(prog), Accepted(prog), Covered(prog),
         NEW at, InBlocks(prog, at), NEW code, TextOf(prog, code),
         NEW q \in DOMAIN code, code[q].op = "return", NEW c
  PROVE  Has(code, rootRank, c, q)
  <1>1. q = Len(BodyText(prog)) + 2 /\ Len(BodyText(prog)) \in Nat
    BY DividedAtReturn, Zenon DEF TextOf
  <1>2. q \notin 1 .. Len(BodyText(prog)) /\ rootRank \in Ranks
    BY <1>1, RootIsARank
  <1>3. SUFFICES ASSUME NEW p \in 1 .. q - 1, IsLast(code, c, q, p)
                 PROVE  Reaching(code, p, rootRank, c, q)
    BY DEF Has, Reaching
  <1>4. p \in DOMAIN code /\ p < q
    BY DEF TextOf
  <1>5. code[p].op = "compute" /\ c \in Written(code[p])
    BY <1>3 DEF IsLast, Writer
  <1>6. p \in 1 .. Len(BodyText(prog)) /\ code[p] = BodyText(prog)[p]
    BY <1>4, <1>5, ComputesInBody, Zenon
  <1>7. CASE \E v : HostAt(prog, at, p, v)
    <2>1. PICK v : HostAt(prog, at, p, v)
      BY <1>7
    <2>2. Concerns(code[p], rootRank)
      BY <1>2, <2>1, HostEverywhere, Zenon
    <2>3. QED
      BY <2>2 DEF Reaching
  <1>8. CASE \E t, v, l : TaskAt(prog, at, p, t, v, l)
    <2>1. PICK t, v, l : TaskAt(prog, at, p, t, v, l)
      BY <1>8
    <2>2. QED
      BY <1>2, <1>4, <1>5, <2>1, Reaches
  <1>9. QED
    <2>1. BodyText(prog)[p].op = "compute"
      BY <1>5, <1>6
    <2>2. QED
      BY <1>6, <1>7, <1>8, <2>1, ComputeIs, Zenon

LEMMA TransferInBody ==
  ASSUME NEW prog, NEW code, TextOf(prog, code), NEW q \in DOMAIN code,
         code[q].op \in {"gather", "broadcast"}
  PROVE  q \in 1 .. Len(BodyText(prog)) /\ code[q] = BodyText(prog)[q]
  <1>1. q \in 1 .. Len(BodyText(prog)) + 2 /\ Len(BodyText(prog)) \in Nat
    BY DEF TextOf
  <1>2. code[Len(BodyText(prog)) + 1].op = "barrier" /\ code[Len(BodyText(prog)) + 2].op = "return"
    BY DEF TextOf, Barrier, Return
  <1>3. q # Len(BodyText(prog)) + 1 /\ q # Len(BodyText(prog)) + 2
    BY <1>2
  <1>4. q \in 1 .. Len(BodyText(prog))
    BY <1>1, <1>3
  <1>5. QED
    BY <1>4 DEF TextOf

(* Only cells are written.                                                 *)
LEMMA WrittenCells ==
  ASSUME NEW prog, WellFormed(prog), Accepted(prog), NEW at, InBlocks(prog, at),
         NEW code, TextOf(prog, code), NEW p \in DOMAIN code, NEW c, Writer(code, p, c)
  PROVE  c \in Cells
  <1>1. code[p].op = "compute" /\ c \in Written(code[p])
    BY DEF Writer
  <1>2. PartOf(prog, code[p], code[p].version)
    BY <1>1, ComputesInBody, Zenon
  <1>3. PICK v : v \in 1 .. Len(Trace(prog)) /\ c \in WrittenBy(prog.items[Trace(prog)[v]])
    BY <1>1, <1>2 DEF PartOf
  <1>4. PICK k \in Items(prog) : k = Trace(prog)[v]
    BY <1>3, TraceFollows
  <1>5. CASE k \in Parallel(prog)
    <2>1. PICK i \in prog.items[k].lb .. prog.items[k].ub - 1 : c \in StoresOf(prog.items[k], i)
      BY <1>3, <1>4, <1>5, LoopFields DEF WrittenBy
    <2>2. QED
      BY <1>5, <2>1, LoopFields, StoreCells
  <1>6. CASE k \notin Parallel(prog)
    BY <1>3, <1>4, <1>6 DEF WellFormed, WellFormedItem, Parallel, WrittenBy
  <1>7. QED
    BY <1>5, <1>6

(* The last to write what a transfer takes is not after the task whose     *)
(* rows it takes; if the task wrote it, it is that task.                   *)
LEMMA LastInBlock ==
  ASSUME NEW prog, WellFormed(prog), Accepted(prog), NEW at, InBlocks(prog, at),
         NEW code, TextOf(prog, code), NEW q \in 1 .. Len(BodyText(prog)),
         NEW b, NEW t, NEW v, NEW l, TaskAt(prog, at, b, t, v, l), Together(at, q, b), b < q, NEW c,
         Travels(BodyText(prog)[b], c), NEW p, IsLast(code, c, q, p)
  PROVE  p = b \/ (p < b /\ c \notin Written(BodyText(prog)[b]))
  <1>1. p \in 1 .. q - 1 /\ code[p].op = "compute" /\ c \in Written(code[p])
    BY DEF IsLast, Writer
  <1>2. q \in Nat /\ Len(BodyText(prog)) \in Nat /\ p \in 1 .. Len(BodyText(prog))
    BY <1>1 DEF TextOf
  <1>3. PartOf(prog, BodyText(prog)[b], v)
    BY TaskIsPart, Zenon
  <1>4. b \in 1 .. Len(BodyText(prog))
    BY DEF TaskAt
  <1>5. code[b] = BodyText(prog)[b] /\ code[p] = BodyText(prog)[p]
    BY <1>2, <1>4 DEF TextOf
  <1>6. ~ (p < b /\ c \in Written(BodyText(prog)[b]))
    <2>1. SUFFICES ASSUME p < b, c \in Written(BodyText(prog)[b]) PROVE FALSE
      OBVIOUS
    <2>2. b \in p + 1 .. q - 1
      BY <1>1, <1>2, <1>4, <2>1
    <2>3. Writer(code, b, c)
      BY <1>3, <1>5, <2>1 DEF PartOf, Writer
    <2>4. QED
      BY <2>2, <2>3 DEF IsLast
  <1>7. ~ b < p
    <2>1. SUFFICES ASSUME b < p PROVE FALSE
      OBVIOUS
    <2>2. p \in b .. q
      BY <1>1, <1>2, <1>4, <2>1
    <2>3. Together(at, b, p)
      <3>1. Together(at, b, q)
        BY DEF Together
      <3>2. \A k \in b .. q : k \in 1 .. Len(BodyText(prog)) => Together(at, b, k)
        BY <1>4, <3>1, InTheBlock, Zenon
      <3>3. QED
        BY <1>2, <2>2, <3>2
    <2>4. Clash(BodyText(prog)[b], BodyText(prog)[p])
      <3>1. c \in Written(BodyText(prog)[b]) \cup ReadBy(BodyText(prog)[b])
        BY DEF Travels, ReadBy
      <3>2. QED
        BY <1>1, <1>5, <3>1 DEF Clash
    <2>5. BodyText(prog)[b].op = "compute" /\ BodyText(prog)[p].op = "compute"
      BY <1>1, <1>3, <1>5 DEF PartOf
    <2>6. b # p
      BY <1>2, <1>4, <2>1
    <2>7. QED
      BY <1>2, <1>4, <2>3, <2>4, <2>5, <2>6, BlockAgrees, Zenon
  <1>8. QED
    BY <1>2, <1>4, <1>6, <1>7

(* The rank that ran the task has the whole of its rows then, what it      *)
(* wrote of them and what it kept.                                         *)
LEMMA RowsTravel ==
  ASSUME NumRanks = NumNodes, AllCells = Cells,
         NEW prog, WellFormed(prog), Accepted(prog), Covered(prog), NEW at, InBlocks(prog, at),
         NEW code, TextOf(prog, code), NEW q \in 1 .. Len(BodyText(prog)),
         NEW b, NEW t, NEW v, NEW l, TaskAt(prog, at, b, t, v, l), Together(at, q, b), b < q, NEW c,
         Travels(BodyText(prog)[b], c), NEW r \in Ranks, Concerns(code[b], r)
  PROVE  Has(code, r, c, q)
  <1>1. SUFFICES ASSUME NEW p \in 1 .. q - 1, IsLast(code, c, q, p)
                 PROVE  Reaching(code, p, r, c, q)
    BY DEF Has, Reaching
  <1>2. p = b \/ (p < b /\ c \notin Written(BodyText(prog)[b]))
    BY <1>1, LastInBlock
  <1>3. b \in 1 .. Len(BodyText(prog)) /\ b \in DOMAIN code /\ Len(BodyText(prog)) \in Nat
        /\ code[b] = BodyText(prog)[b]
    BY DEF TaskAt, TextOf
  <1>4. CASE p = b
    BY <1>4 DEF Reaching
  <1>5. CASE p < b /\ c \notin Written(BodyText(prog)[b])
    <2>1. PICK d \in code[b].keeps : c = d.cell
      BY <1>3, <1>5 DEF Travels
    <2>2. TakenBy(code[b], d)
      BY <2>1 DEF TakenBy
    <2>3. code[b].op = "compute"
      <3>1. PartOf(prog, BodyText(prog)[b], v)
        BY TaskIsPart, Zenon
      <3>2. QED
        BY <1>3, <3>1 DEF PartOf
    <2>4. Has(code, r, d.cell, b)
      BY <1>3, <2>2, <2>3, ComputeHas, Zenon
    <2>5. p \in 1 .. b - 1 /\ b - 1 \in Int /\ q - 1 \in Int /\ b - 1 < q - 1 /\ p + 1 \in Int
      BY <1>3, <1>5
    <2>6. IsLast(code, c, b, p)
      BY <1>1, <2>5 DEF IsLast
    <2>7. Reaching(code, p, r, c, b)
      BY <2>1, <2>4, <2>5, <2>6 DEF Has, Reaching
    <2>8. p + 1 .. b - 1 \subseteq p + 1 .. q - 1
      BY <2>5
    <2>9. QED
      BY <2>7, <2>8 DEF Reaching
  <1>6. QED
    BY <1>2, <1>4, <1>5

LEMMA GatherHas ==
  ASSUME NumRanks = NumNodes, AllCells = Cells,
         NEW prog, WellFormed(prog), Accepted(prog), Covered(prog), NEW at, InBlocks(prog, at),
         NEW code, TextOf(prog, code), NEW q \in DOMAIN code, code[q].op = "gather",
         NEW c \in SlabCells(code[q].slab), c \in Cells
  PROVE  Has(code, NodeToRank[code[q].owner], c, q)
  <1>1. q \in 1 .. Len(BodyText(prog)) /\ code[q] = BodyText(prog)[q]
    BY TransferInBody, Zenon
  <1>2. PICK b, t, v, l : /\ TaskAt(prog, at, b, t, v, l) /\ Together(at, q, b) /\ b < q
                          /\ t.target = BodyText(prog)[q].owner /\ Travels(BodyText(prog)[b], c)
    <2>1. BodyText(prog)[q].op = "gather" /\ c \in SlabCells(BodyText(prog)[q].slab)
      BY <1>1
    <2>2. QED
      BY <1>1, <2>1, GatherSource, Zenon
  <1>3. PartOf(prog, BodyText(prog)[b], v) /\ IsTask(prog, BodyText(prog)[b], t, v)
    BY <1>2, TaskIsPart, Zenon
  <1>4. code[b] = BodyText(prog)[b]
    BY <1>2 DEF TaskAt, TextOf
  <1>5. Nodes = Ranks /\ t.target \in Ranks
    BY <1>3 DEF Nodes, Ranks, IsTask
  <1>6. PICK r \in Ranks : r = NodeToRank[code[q].owner] /\ r = NodeToRank[t.target]
    BY <1>1, <1>2, <1>5, NodeToRankAssumption
  <1>7. Concerns(code[b], r)
    BY <1>3, <1>4, <1>6 DEF Concerns, RunsTask, PartOf, IsTask
  <1>8. Has(code, r, c, q)
    BY <1>1, <1>2, <1>7, RowsTravel
  <1>9. QED
    BY <1>6, <1>8

LEMMA BroadcastHas ==
  ASSUME NumRanks = NumNodes, AllCells = Cells,
         NEW prog, WellFormed(prog), Accepted(prog), Covered(prog), NEW at, InBlocks(prog, at),
         NEW code, TextOf(prog, code), NEW q \in DOMAIN code, code[q].op = "broadcast",
         NEW c \in SlabCells(code[q].slab), c \in Cells
  PROVE  Has(code, rootRank, c, q)
  <1>1. q \in 1 .. Len(BodyText(prog)) /\ code[q] = BodyText(prog)[q]
    BY TransferInBody, Zenon
  <1>2. PICK b, t, v, l :
           /\ TaskAt(prog, at, b, t, v, l) /\ Together(at, q, b) /\ b < q
           /\ Travels(BodyText(prog)[b], c)
           /\ t.target # 0 => \E g \in 1 .. Len(BodyText(prog)) :
                /\ b < g /\ g < q
                /\ BodyText(prog)[g].op = "gather" /\ c \in SlabCells(BodyText(prog)[g].slab)
    <2>1. BodyText(prog)[q].op = "broadcast" /\ c \in SlabCells(BodyText(prog)[q].slab)
      BY <1>1
    <2>2. QED
      BY <1>1, <2>1, BroadcastSource, Zenon
  <1>3. PartOf(prog, BodyText(prog)[b], v) /\ IsTask(prog, BodyText(prog)[b], t, v)
    BY <1>2, TaskIsPart, Zenon
  <1>4. code[b] = BodyText(prog)[b] /\ b \in 1 .. Len(BodyText(prog)) /\ Len(BodyText(prog)) \in Nat
    BY <1>2 DEF TaskAt, TextOf
  <1>5. CASE t.target = 0
    <2>1. code[b].op = "compute" /\ code[b].nodes = {0}
      BY <1>3, <1>4, <1>5 DEF PartOf, IsTask
    <2>2. Concerns(code[b], rootRank) /\ rootRank \in Ranks
      BY <2>1, RootIsARank DEF Concerns, RunsTask, rootRank
    <2>3. QED
      BY <1>1, <1>2, <2>2, RowsTravel
  <1>6. CASE t.target # 0
    <2>1. PICK g \in 1 .. Len(BodyText(prog)) :
            /\ b < g /\ g < q
            /\ BodyText(prog)[g].op = "gather" /\ c \in SlabCells(BodyText(prog)[g].slab)
      BY <1>2, <1>6
    <2>2. code[g] = BodyText(prog)[g]
      BY DEF TextOf
    <2>3. Brings(code[g], rootRank, c)
      BY <2>1, <2>2 DEF Brings
    <2>4. SUFFICES ASSUME NEW p \in 1 .. q - 1, IsLast(code, c, q, p)
                   PROVE  Reaching(code, p, rootRank, c, q)
      BY DEF Has, Reaching
    <2>5. p = b \/ p < b
      BY <1>1, <1>2, <2>4, LastInBlock
    <2>6. g \in p + 1 .. q - 1
      BY <1>1, <1>4, <2>1, <2>5
    <2>7. QED
      BY <2>3, <2>6 DEF Reaching
  <1>7. QED
    BY <1>5, <1>6

(* A slab may reach beyond the cells, where nothing is written.            *)
LEMMA NothingBeyond ==
  ASSUME NEW prog, WellFormed(prog), Accepted(prog), NEW at, InBlocks(prog, at),
         NEW code, TextOf(prog, code), NEW q \in DOMAIN code, NEW c, c \notin Cells, NEW r
  PROVE  Has(code, r, c, q)
  <1>1. SUFFICES ASSUME NEW p \in 1 .. q - 1, IsLast(code, c, q, p) PROVE FALSE
    BY DEF Has
  <1>2. p \in DOMAIN code /\ Writer(code, p, c)
    BY <1>1 DEF TextOf, IsLast
  <1>3. QED
    BY <1>2, WrittenCells

-----------------------------------------------------------------------------
(* The text of a covered program supplies its readers: whichever rank runs *)
(* an instruction has the cells it takes, each of the version the          *)
(* sequential program would find.                                          *)
THEOREM CoveredTextsAreSupplied ==
  ASSUME NumRanks = NumNodes, AllCells = Cells,
         NEW prog, WellFormed(prog), Accepted(prog), Covered(prog)
  PROVE  AllSupplied(EmittedProgram(prog))
  <1>1. PICK code : code = EmittedProgram(prog) /\ TextOf(prog, code)
    BY TextParts
  <1>2. PICK at : InBlocks(prog, at)
    BY TextInBlocks
  <1>3. ASSUME NEW q \in DOMAIN code, code[q].op = "compute", NEW r \in Ranks, Concerns(code[q], r),
               NEW e \in code[q].effect, NEW d \in e.needs
        PROVE  Serves(code, r, q, d)
    <2>1. /\ q \in 1 .. Len(BodyText(prog)) /\ code[q] = BodyText(prog)[q]
          /\ PartOf(prog, code[q], code[q].version)
      BY <1>1, <1>2, <1>3, ComputesInBody, Zenon
    <2>2. d.cell \in Cells /\ d.version = VersionBefore(prog, code[q].version, d.cell)
      <3>1. BodyText(prog)[q].op = "compute" /\ TakenBy(BodyText(prog)[q], d)
        BY <1>3, <2>1 DEF TakenBy
      <3>2. /\ ReadsRight(prog, at, q, d) /\ d.cell \in Cells
            /\ d.version = VersionBefore(prog, BodyText(prog)[q].version, d.cell)
        BY <1>2, <2>1, <3>1, ReadsAreRight, Zenon
      <3>3. QED
        BY <2>1, <3>2
    <2>3. Has(code, r, d.cell, q)
      <3>1. TakenBy(code[q], d)
        BY <1>3 DEF TakenBy
      <3>2. QED
        BY <1>1, <1>2, <1>3, <3>1, ComputeHas, Zenon
    <2>4. d.cell \in ReadBy(code[q])
      BY DEF ReadBy
    <2>5. Divided(code, q, code[q].version, d.cell)
      BY <1>1, <1>2, <1>3, <2>4, DividedAtCompute
    <2>6. code[q].version \in 1 .. Len(Trace(prog)) + 1
      BY <1>1, <2>1 DEF PartOf, TextOf
    <2>7. Now(code, q, d.cell, VersionBefore(prog, code[q].version, d.cell))
      BY <1>1, <1>2, <2>5, <2>6, NowIs, Zenon
    <2>8. QED
      BY <2>2, <2>3, <2>7 DEF Serves
  <1>4. ASSUME NEW q \in DOMAIN code, code[q].op = "return", NEW d \in code[q].result
        PROVE  Serves(code, rootRank, q, d)
    <2>1. Divided(code, q, Len(Trace(prog)) + 1, d.cell) /\ q = Len(BodyText(prog)) + 2
      BY <1>1, <1>2, <1>4, DividedAtReturn, Zenon
    <2>2. code[q].result = SequentialResult(prog)
      BY <1>1, <2>1 DEF TextOf, Return
    <2>3. PICK c \in Cells : d = [cell |-> c, version |-> VersionBefore(prog, Len(Trace(prog)) + 1, c)]
      BY <2>2 DEF SequentialResult
    <2>4. d.cell = c /\ d.version = VersionBefore(prog, Len(Trace(prog)) + 1, d.cell)
      BY <2>3
    <2>5. Has(code, rootRank, d.cell, q)
      BY <1>1, <1>2, <1>4, ReturnHas, Zenon
    <2>6. Len(Trace(prog)) + 1 \in 1 .. Len(Trace(prog)) + 1
      BY <1>1 DEF TextOf
    <2>7. Now(code, q, d.cell, VersionBefore(prog, Len(Trace(prog)) + 1, d.cell))
      BY <1>1, <1>2, <2>1, <2>6, NowIs, Zenon
    <2>8. QED
      BY <2>4, <2>5, <2>7 DEF Serves
  <1>5. ASSUME NEW q \in DOMAIN code PROVE Supplied(code, q)
    <2>1. code[q].op = "compute" =>
            \A c \in Written(code[q]) : \A v : Now(code, q, c, v) => v < code[q].version
      BY <1>1, <1>2, WritesGoForward, Zenon
    <2>2. code[q].op = "gather" =>
            \A c \in SlabCells(code[q].slab) : Has(code, NodeToRank[code[q].owner], c, q)
      BY <1>1, <1>2, GatherHas, NothingBeyond, Zenon
    <2>3. code[q].op = "broadcast" =>
            \A c \in SlabCells(code[q].slab) : Has(code, rootRank, c, q)
      BY <1>1, <1>2, BroadcastHas, NothingBeyond, Zenon
    <2>4. QED
      BY <1>3, <1>4, <2>1, <2>2, <2>3 DEF Supplied
  <1>6. QED
    BY <1>1, <1>5 DEF AllSupplied

(* The programs compiled, and what the code and its passes rely on: a rank *)
(* for each device, kernels that the passes accept, and readers that the   *)
(* broadcasts reach.                                                       *)
CompiledFrom(Sources) ==
  /\ NumRanks = NumNodes /\ AllCells = Cells
  /\ \A prog \in Sources : WellFormed(prog) /\ Accepted(prog) /\ Covered(prog)
  /\ Programs = {EmittedProgram(prog) : prog \in Sources}

LEMMA CompiledTextsAreRight ==
  ASSUME NEW Sources, CompiledFrom(Sources)
  PROVE  ReadsFreshInLockstep /\ ResultInLockstep /\ RootGainsInLockstep
  <1>1. ASSUME NEW code \in Programs PROVE AllSupplied(code)
    <2>1. PICK prog \in Sources : code = EmittedProgram(prog)
      BY DEF CompiledFrom
    <2>2. QED
      BY <2>1, CoveredTextsAreSupplied DEF CompiledFrom
  <1>2. QED
    BY <1>1, SuppliedTextsAreRight

(* Every task and every clone of host code reads on its rank what the      *)
(* sequential program reads there, however the ranks interleave.           *)
THEOREM CompiledReadsAreFresh ==
  ASSUME NEW Sources, CompiledFrom(Sources)
  PROVE  Spec => []ReadsAreFresh
  BY CompiledTextsAreRight, ReadsStayFresh

(* The rank of node 0 ends with the sequential result.                     *)
THEOREM CompiledCodeLeavesResult ==
  ASSUME NEW Sources, CompiledFrom(Sources)
  PROVE  Spec => []RootHoldsResult
  BY CompiledTextsAreRight, ResultReachesRoot

(* No step puts an older version of a cell in place of a later one there.  *)
THEOREM CompiledCodeGoesForward ==
  ASSUME NEW Sources, CompiledFrom(Sources)
  PROVE  Spec => RootMovesForward
  BY CompiledTextsAreRight, RootOnlyGains

(* The same of the text taken one instruction at a time.                   *)
LEMMA LockstepStates ==
  ASSUME NEW Sources, CompiledFrom(Sources)
  PROVE  LockstepMemory => TasksReadFresh /\ ResultAtRoot /\ RootGainsOnly
  <1>1. SUFFICES ASSUME LockstepMemory PROVE TasksReadFresh /\ ResultAtRoot /\ RootGainsOnly
    OBVIOUS
  <1>2. ReadsFreshInLockstep /\ ResultInLockstep /\ RootGainsInLockstep
    BY CompiledTextsAreRight
  <1>3. text \in Programs /\ position \in DOMAIN text /\ memory = MemoryBefore(text)[position]
    BY <1>1 DEF LockstepMemory
  <1>4. WellFormedText(text)
    BY <1>3, ProgramsAssumption
  <1>5. TasksReadFresh
    BY <1>2, <1>3 DEF ReadsFreshInLockstep, TasksReadFresh
  <1>6. ResultAtRoot
    BY <1>2, <1>3 DEF ResultInLockstep, ResultAtRoot
  <1>7. RootGainsOnly
    <2>1. SUFFICES ASSUME position < Len(text), NEW c \in AllCells
                   PROVE  Executed(text[position], memory)[rootRank][c] >= memory[rootRank][c]
      BY DEF RootGainsOnly
    <2>2. position + 1 \in DOMAIN text
      BY <1>3, <1>4, <2>1 DEF WellFormedText
    <2>3. MemoryBefore(text)[position + 1] = Executed(text[position], memory)
      BY <1>3, <1>4, <2>2, MemorySteps
    <2>4. QED
      BY <1>2, <1>3, <2>2, <2>3 DEF RootGainsInLockstep
  <1>8. QED
    BY <1>5, <1>6, <1>7

(* Taken in lockstep, a text of compiled code comes to each task and clone *)
(* of host code with the rows the sequential program would read there.     *)
THEOREM CompiledTasksReadFresh ==
  ASSUME NEW Sources, CompiledFrom(Sources)
  PROVE  LockstepSpec => []TasksReadFresh
  <1>1. LockstepMemory => TasksReadFresh
    BY LockstepStates
  <1>2. QED
    BY <1>1, LockstepComputesMemory, PTL

(* Taken in lockstep to its end, it leaves the sequential result at the    *)
(* root.                                                                   *)
THEOREM CompiledResultIsAtRoot ==
  ASSUME NEW Sources, CompiledFrom(Sources)
  PROVE  LockstepSpec => []ResultAtRoot
  <1>1. LockstepMemory => ResultAtRoot
    BY LockstepStates
  <1>2. QED
    BY <1>1, LockstepComputesMemory, PTL

(* And none of its instructions replaces a cell of the root by an older    *)
(* version of it: gathers and broadcasts bring nothing stale.              *)
THEOREM CompiledRootGainsOnly ==
  ASSUME NEW Sources, CompiledFrom(Sources)
  PROVE  LockstepSpec => []RootGainsOnly
  <1>1. LockstepMemory => RootGainsOnly
    BY LockstepStates
  <1>2. QED
    BY <1>1, LockstepComputesMemory, PTL

=============================================================================

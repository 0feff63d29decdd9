-------------------------- MODULE ViewAnalysisProofs --------------------------
(***************************************************************************)
(* The conflict test is right for memrefs of every rank and extent and for *)
(* chains of views of every length.                                        *)
(***************************************************************************)
EXTENDS ViewAnalysis, WellFoundedInduction, TLAPS

(* The cells a known range stands for.                                     *)
Slab(a) ==
  {c \in [DOMAIN a.offsets -> Int] :
     \A d \in DOMAIN a.offsets : a.offsets[d] <= c[d] /\ c[d] < a.offsets[d] + a.sizes[d]}

Accesses == [offsets : Seq(Int), sizes : Seq(Int), isSubview : BOOLEAN, rangeKnown : BOOLEAN]

(* A known range names the cells of the value; as long as no dimension is  *)
(* dropped, it also says which index is which cell.                        *)
Located(v) ==
  LET a == v.access
  IN  /\ Len(v.shape) <= Len(a.offsets)
      /\ Len(a.sizes) = Len(a.offsets)
      /\ Len(a.offsets) = Len(Shape[v.base])
      /\ Cells(v) = Slab(a)
      /\ Len(v.shape) = Len(a.offsets) =>
           /\ \A d \in DOMAIN v.shape : v.shape[d] = a.sizes[d]
           /\ \A p \in Box(v.shape) : \A d \in DOMAIN v.shape :
                v.cell[p][d] = a.offsets[d] + p[d]

Faithful(v) ==
  /\ v.base \in Memrefs
  /\ v.shape \in Shapes
  /\ v.cell \in [Box(v.shape) -> Box(Shape[v.base])]
  /\ v.access \in Accesses
  /\ ~v.access.isSubview => /\ v.shape = Shape[v.base] /\ v.access.offsets = <<>>
                            /\ \A p \in Box(v.shape) : v.cell[p] = p
  /\ v.access.isSubview /\ v.access.rangeKnown => Located(v)

Inv == Faithful(left) /\ Faithful(right)

-----------------------------------------------------------------------------
(* A nonempty set of naturals has a least element.                         *)
LEMMA Least ==
  ASSUME NEW S \in SUBSET Nat, S # {}
  PROVE  \E t \in S : \A u \in S : t <= u
  <1>1. PICK t \in S : \A u \in S : ~ (<<u, t>> \in OpToRel(<, Nat))
    BY NatLessThanWellFounded, WFMin
  <1>2. OpToRel(<, Nat) = {p \in Nat \X Nat : p[1] < p[2]}
    BY DEF OpToRel
  <1>3. ASSUME NEW u \in S PROVE t <= u
    <2>1. ~ (<<u, t>> \in {p \in Nat \X Nat : p[1] < p[2]})
      BY <1>1, <1>2, Zenon
    <2>2. QED
      BY <2>1
  <1>4. QED
    BY <1>3

(* Keeping all dimensions in order leaves them where they are.             *)
LEMMA AllKept ==
  ASSUME NEW n \in Nat, NEW kept \in [1 .. n -> 1 .. n],
         \A j, k \in 1 .. n : j < k => kept[j] < kept[k]
  PROVE  \A k \in 1 .. n : kept[k] = k
  <1>1. \A k \in 1 .. n : ~ (kept[k] < k)
    <2> DEFINE S == {k \in 1 .. n : kept[k] < k}
    <2>1. SUFFICES ASSUME S # {} PROVE FALSE
      OBVIOUS
    <2>2. PICK k \in S : \A u \in S : k <= u
      <3>1. S \in SUBSET Nat
        OBVIOUS
      <3> HIDE DEF S
      <3>2. QED
        BY <2>1, <3>1, Least
    <2>3. k \in 1 .. n /\ kept[k] \in 1 .. n /\ kept[k] < k
      BY <2>2
    <2>4. kept[k] \notin S
      BY <2>2, <2>3
    <2>5. ~ (kept[kept[k]] < kept[k])
      BY <2>3, <2>4
    <2>6. kept[kept[k]] < kept[k]
      BY <2>3
    <2>7. QED
      BY <2>5, <2>6
  <1>2. \A k \in 1 .. n : ~ (kept[k] > k)
    <2> DEFINE S == {i \in 0 .. n - 1 : kept[n - i] > n - i}
    <2>1. SUFFICES ASSUME S # {} PROVE FALSE
      <3>1. SUFFICES ASSUME NEW k \in 1 .. n, kept[k] > k PROVE S # {}
        BY <2>1
      <3>2. n - k \in 0 .. n - 1 /\ n - (n - k) = k
        BY <3>1
      <3>3. QED
        BY <3>1, <3>2
    <2>2. PICK i \in S : \A u \in S : i <= u
      <3>1. S \in SUBSET Nat
        OBVIOUS
      <3> HIDE DEF S
      <3>2. QED
        BY <2>1, <3>1, Least
    <2>3. /\ n - i \in 1 .. n /\ kept[n - i] \in 1 .. n /\ kept[n - i] > n - i
          /\ n - kept[n - i] \in 0 .. n - 1 /\ n - kept[n - i] < i
          /\ n - (n - kept[n - i]) = kept[n - i]
      BY <2>2
    <2>4. n - kept[n - i] \notin S
      BY <2>2, <2>3
    <2>5. ~ (kept[kept[n - i]] > kept[n - i])
      BY <2>3, <2>4
    <2>6. kept[kept[n - i]] \in 1 .. n
      BY <2>3
    <2>7. kept[n - i] < kept[kept[n - i]]
      BY <2>3
    <2>8. QED
      BY <2>3, <2>5, <2>6, <2>7
  <1>3. QED
    BY <1>1, <1>2

-----------------------------------------------------------------------------
LEMMA ExtentBound ==
  ASSUME NEW shape \in Shapes, NEW d \in DOMAIN shape
  PROVE  shape[d] \in 0 .. MaxExtent
  <1> DEFINE S == 0 .. MaxExtent
  <1>1. shape \in Seq(S)
    BY DEF Shapes
  <1> HIDE DEF S
  <1>2. shape[d] \in S
    BY <1>1
  <1>3. QED
    BY <1>2 DEF S

LEMMA FunctionIsSequence ==
  ASSUME NEW S, NEW n \in Nat, NEW f \in [1 .. n -> S]
  PROVE  f \in Seq(S) /\ Len(f) = n /\ DOMAIN f = 1 .. n
  OBVIOUS

LEMMA BoxFacts ==
  ASSUME NEW shape, NEW p \in Box(shape)
  PROVE  /\ p \in [DOMAIN shape -> Nat]
         /\ \A d \in DOMAIN shape : p[d] \in Nat /\ p[d] \in 0 .. MaxExtent /\ p[d] < shape[d]
  BY ViewsAssumption DEF Box

LEMMA MemrefFaithful ==
  ASSUME NEW m \in Memrefs
  PROVE  Faithful(Memref(m))
  <1>1. Shape[m] \in Shapes
    BY ViewsAssumption
  <1>2. <<>> \in Seq(Int)
    OBVIOUS
  <1>3. QED
    BY <1>1, <1>2 DEF Memref, Faithful, Accesses

LEMMA OtherViewFaithful ==
  ASSUME NEW v, Faithful(v), NEW w \in OtherViews(v)
  PROVE  Faithful(w)
  <1> DEFINE unknown == [offsets |-> <<>>, sizes |-> <<>>, isSubview |-> TRUE,
                        rangeKnown |-> FALSE]
  <1>1. PICK shape \in OtherShapes :
          w \in {[base |-> v.base, shape |-> shape, cell |-> cell, access |-> unknown] :
                   cell \in [Box(shape) -> Box(Shape[v.base])]}
    BY DEF OtherViews
  <1>2. PICK cell \in [Box(shape) -> Box(Shape[v.base])] :
          w = [base |-> v.base, shape |-> shape, cell |-> cell, access |-> unknown]
    BY <1>1
  <1>3. shape \in Shapes /\ unknown \in Accesses
    <2>1. <<>> \in Seq(Int)
      OBVIOUS
    <2>2. QED
      BY <2>1, ViewsAssumption DEF Accesses
  <1>4. QED
    BY <1>2, <1>3 DEF Faithful

(* What the dimensions of a subview are.                                   *)
LEMMA KeptFacts ==
  ASSUME NEW n \in Nat, NEW view \in [1 .. n -> Slices], NEW kept \in KeptDimensions(view)
  PROVE  /\ Len(view) = n /\ view \in Seq(Slices)
         /\ \E m \in 0 .. n : kept \in [1 .. m -> 1 .. n]
         /\ \A j, k \in DOMAIN kept : j < k => kept[j] < kept[k]
         /\ \A j, k \in DOMAIN kept : kept[j] = kept[k] => j = k
         /\ \A d \in 1 .. n : view[d].size # 1 => \E k \in DOMAIN kept : kept[k] = d
         /\ \A d \in 1 .. n : /\ view[d].offset \in Int /\ view[d].size \in 0 .. MaxExtent
                              /\ view[d].stride \in Int /\ view[d].static \in BOOLEAN
  <1>1. view \in Seq(Slices) /\ Len(view) = n /\ DOMAIN view = 1 .. n
    OBVIOUS
  <1>2. PICK m \in 0 .. n : kept \in [1 .. m -> 1 .. n]
    BY <1>1 DEF KeptDimensions
  <1>3. \A j, k \in DOMAIN kept : j < k => kept[j] < kept[k]
    BY DEF KeptDimensions
  <1>4. \A j, k \in 1 .. m : kept[j] = kept[k] => j = k
    BY <1>2, <1>3
  <1>5. \A d \in 1 .. n : view[d].size # 1 => \E k \in DOMAIN kept : kept[k] = d
    BY <1>1 DEF KeptDimensions
  <1>6. \A d \in 1 .. n : view[d] \in Slices
    OBVIOUS
  <1>7. QED
    BY <1>1, <1>2, <1>3, <1>4, <1>5, <1>6, ViewsAssumption

LEMMA Between ==
  ASSUME NEW c \in Int, NEW start \in Int, NEW offset \in Int, NEW size \in Nat,
         NEW max \in Nat, size <= max,
         start + offset <= c, c < start + offset + size
  PROVE  c - (start + offset) \in 0 .. max /\ c - (start + offset) < size
  OBVIOUS

(* Index p of v is cell origin + p, and the unit-stride view stays in v.   *)
Anchored(v, n, view, kept, origin) ==
  /\ n \in Nat /\ view \in [1 .. n -> Slices] /\ kept \in KeptDimensions(view)
  /\ origin \in [1 .. n -> Int]
  /\ v.shape \in Shapes /\ DOMAIN v.shape = 1 .. n
  /\ v.cell \in [Box(v.shape) -> Box(Shape[v.base])]
  /\ DOMAIN Shape[v.base] = 1 .. n
  /\ \A p \in Box(v.shape) : \A d \in 1 .. n : v.cell[p][d] = origin[d] + p[d]
  /\ \A d \in 1 .. n : view[d].stride = 1
  /\ InBounds(v, view, kept)

(* w is the box of the sizes of the view at origin + offset.               *)
Shifted(w, n, view, kept, origin) ==
  /\ Cells(w) = {c \in [1 .. n -> Int] : \A d \in 1 .. n :
                   /\ origin[d] + view[d].offset <= c[d]
                   /\ c[d] < origin[d] + view[d].offset + view[d].size}
  /\ Len(kept) = n =>
       /\ \A d \in 1 .. n : w.shape[d] = view[d].size
       /\ \A p \in Box(w.shape) : \A d \in 1 .. n :
            w.cell[p][d] = origin[d] + view[d].offset + p[d]

LEMMA UnitStrideSubview ==
  ASSUME NEW v, NEW n, NEW view, NEW kept, NEW origin, NEW stray,
         Anchored(v, n, view, kept, origin)
  PROVE  Shifted(Subview(v, view, kept, stray), n, view, kept, origin)
  <1> DEFINE w == Subview(v, view, kept, stray)
  <1>0. /\ n \in Nat /\ view \in [1 .. n -> Slices] /\ kept \in KeptDimensions(view)
        /\ origin \in [1 .. n -> Int]
        /\ v.shape \in Shapes /\ DOMAIN v.shape = 1 .. n
        /\ v.cell \in [Box(v.shape) -> Box(Shape[v.base])]
        /\ DOMAIN Shape[v.base] = 1 .. n
        /\ \A p \in Box(v.shape) : \A d \in 1 .. n : v.cell[p][d] = origin[d] + p[d]
        /\ \A d \in 1 .. n : view[d].stride = 1
        /\ InBounds(v, view, kept)
    BY DEF Anchored
  <1> USE <1>0
  <1> DEFINE shape == [k \in DOMAIN kept |-> view[kept[k]].size]
             at(p) == SourceIndex(view, kept, p)
             slab == {c \in [1 .. n -> Int] : \A d \in 1 .. n :
                        /\ origin[d] + view[d].offset <= c[d]
                        /\ c[d] < origin[d] + view[d].offset + view[d].size}
  <1>1. PICK m \in 0 .. n : kept \in [1 .. m -> 1 .. n]
    BY KeptFacts
  <1>2. w.shape = shape /\ DOMAIN shape = 1 .. m
    BY <1>1 DEF Subview
  <1>3. \A k \in 1 .. m : shape[k] = view[kept[k]].size /\ kept[k] \in 1 .. n
    BY <1>1
  <1>4. \A p \in Box(shape) : at(p) \in Box(v.shape) /\ w.cell[p] = v.cell[at(p)]
    BY DEF InBounds, Subview
  <1>5. \A d \in 1 .. n : /\ view[d].offset \in Int /\ view[d].size \in 0 .. MaxExtent
                          /\ view[d].size \in Nat /\ view[d].stride = 1 /\ origin[d] \in Int
    BY KeptFacts, ViewsAssumption
  <1>6. \A p : \A k \in 1 .. m :
          at(p)[kept[k]] = view[kept[k]].offset + view[kept[k]].stride * p[k]
    <2> SUFFICES ASSUME NEW p, NEW k \in 1 .. m
                 PROVE  at(p)[kept[k]] = view[kept[k]].offset + view[kept[k]].stride * p[k]
      OBVIOUS
    <2>1. kept[k] \in DOMAIN view /\ k \in DOMAIN kept
      BY <1>1
    <2>2. Place(kept, kept[k]) = k
      BY <2>1, KeptFacts DEF Place
    <2>3. QED
      BY <2>1, <2>2 DEF SourceIndex
  <1>7. \A p : \A d \in 1 .. n :
          (\A k \in 1 .. m : kept[k] # d) => at(p)[d] = view[d].offset /\ view[d].size = 1
    <2> SUFFICES ASSUME NEW p, NEW d \in 1 .. n, \A k \in 1 .. m : kept[k] # d
                 PROVE  at(p)[d] = view[d].offset /\ view[d].size = 1
      OBVIOUS
    <2>1. d \in DOMAIN view
      OBVIOUS
    <2>2. ~ \E k \in DOMAIN kept : kept[k] = d
      BY <1>1
    <2>3. view[d].size # 1 => \E k \in DOMAIN kept : kept[k] = d
      BY KeptFacts
    <2>4. at(p)[d] = view[d].offset
      BY <2>1, <2>2 DEF SourceIndex
    <2>5. QED
      BY <2>2, <2>3, <2>4
  <1> HIDE DEF w, shape, at, slab
  <1>8. \A p \in Box(shape) : \A k \in 1 .. m :
          /\ p[k] \in Nat /\ p[k] < view[kept[k]].size
          /\ at(p)[kept[k]] = view[kept[k]].offset + p[k]
    <2> TAKE p \in Box(shape)
    <2> TAKE k \in 1 .. m
    <2>1. p[k] \in Nat /\ p[k] < shape[k]
      BY <1>2, BoxFacts
    <2>2. kept[k] \in 1 .. n /\ shape[k] = view[kept[k]].size
      BY <1>3
    <2>3. at(p)[kept[k]] = view[kept[k]].offset + view[kept[k]].stride * p[k]
      BY <1>6
    <2>4. view[kept[k]].stride * p[k] = p[k]
      BY <1>5, <2>1, <2>2
    <2>5. QED
      BY <2>1, <2>2, <2>3, <2>4
  <1>9. \A p \in Box(shape) :
          /\ w.cell[p] \in [1 .. n -> Int]
          /\ \A d \in 1 .. n : w.cell[p][d] = origin[d] + at(p)[d]
    <2> TAKE p \in Box(shape)
    <2>1. at(p) \in Box(v.shape) /\ w.cell[p] = v.cell[at(p)]
      BY <1>4
    <2>2. w.cell[p] \in Box(Shape[v.base])
      BY <2>1
    <2>3. w.cell[p] \in [1 .. n -> Nat]
      BY <2>2, BoxFacts
    <2>4. QED
      BY <2>1, <2>3
  <1>10. \A p \in Box(shape) : w.cell[p] \in slab
    <2> SUFFICES ASSUME NEW p \in Box(shape), NEW d \in 1 .. n
                 PROVE  /\ origin[d] + view[d].offset <= w.cell[p][d]
                        /\ w.cell[p][d] < origin[d] + view[d].offset + view[d].size
      BY <1>9 DEF slab
    <2>1. w.cell[p][d] = origin[d] + at(p)[d]
      BY <1>9
    <2>2. CASE \E k \in 1 .. m : kept[k] = d
      <3>1. PICK k \in 1 .. m : kept[k] = d
        BY <2>2
      <3>2. p[k] \in Nat /\ p[k] < view[d].size /\ at(p)[d] = view[d].offset + p[k]
        BY <1>8, <3>1
      <3>3. QED
        BY <1>5, <2>1, <3>2
    <2>3. CASE \A k \in 1 .. m : kept[k] # d
      BY <1>5, <1>7, <2>1, <2>3
    <2>4. QED
      BY <2>2, <2>3
  <1>11. ASSUME NEW c \in slab PROVE \E p \in Box(shape) : w.cell[p] = c
    <2> DEFINE p == [k \in 1 .. m |-> c[kept[k]] - (origin[kept[k]] + view[kept[k]].offset)]
    <2>1. /\ c \in [1 .. n -> Int]
          /\ \A d \in 1 .. n : /\ origin[d] + view[d].offset <= c[d]
                               /\ c[d] < origin[d] + view[d].offset + view[d].size
      BY DEF slab
    <2>2. p \in Box(shape)
      <3>1. ASSUME NEW k \in 1 .. m
            PROVE  p[k] \in 0 .. MaxExtent /\ p[k] < shape[k]
        <4>1. kept[k] \in 1 .. n /\ shape[k] = view[kept[k]].size
          BY <1>3
        <4>2. p[k] = c[kept[k]] - (origin[kept[k]] + view[kept[k]].offset)
          OBVIOUS
        <4>3. c[kept[k]] \in Int
          BY <2>1, <4>1
        <4>4. /\ origin[kept[k]] \in Int /\ view[kept[k]].offset \in Int
              /\ view[kept[k]].size \in Nat /\ view[kept[k]].size <= MaxExtent
              /\ MaxExtent \in Nat
          BY <1>5, <4>1, ViewsAssumption
        <4>5. /\ origin[kept[k]] + view[kept[k]].offset <= c[kept[k]]
              /\ c[kept[k]] < origin[kept[k]] + view[kept[k]].offset + view[kept[k]].size
          BY <2>1, <4>1
        <4>6. /\ c[kept[k]] - (origin[kept[k]] + view[kept[k]].offset) \in 0 .. MaxExtent
              /\ c[kept[k]] - (origin[kept[k]] + view[kept[k]].offset) < view[kept[k]].size
          BY <4>3, <4>4, <4>5, Between
        <4> HIDE DEF p
        <4>7. QED
          BY <4>1, <4>2, <4>6
      <3>2. p \in [1 .. m -> 0 .. MaxExtent]
        BY <3>1
      <3> HIDE DEF p
      <3>3. QED
        BY <1>2, <3>1, <3>2 DEF Box
    <2>3. \A k \in 1 .. m : p[k] = c[kept[k]] - (origin[kept[k]] + view[kept[k]].offset)
      OBVIOUS
    <2> HIDE DEF p
    <2>4. \A d \in 1 .. n : w.cell[p][d] = c[d]
      <3> SUFFICES ASSUME NEW d \in 1 .. n PROVE w.cell[p][d] = c[d]
        OBVIOUS
      <3>1. w.cell[p][d] = origin[d] + at(p)[d] /\ c[d] \in Int
        BY <1>9, <2>1, <2>2
      <3>2. CASE \E k \in 1 .. m : kept[k] = d
        <4>1. PICK k \in 1 .. m : kept[k] = d
          BY <3>2
        <4>2. at(p)[d] = view[d].offset + p[k]
          BY <1>8, <2>2, <4>1
        <4>3. p[k] = c[d] - (origin[d] + view[d].offset)
          BY <2>3, <4>1
        <4>4. view[d].offset \in Int /\ origin[d] \in Int
          BY <1>5
        <4>5. QED
          BY ONLY <3>1, <4>2, <4>3, <4>4
      <3>3. CASE \A k \in 1 .. m : kept[k] # d
        <4>1. at(p)[d] = view[d].offset /\ view[d].size = 1
          BY <1>7, <3>3
        <4>2. /\ origin[d] + view[d].offset <= c[d]
              /\ c[d] < origin[d] + view[d].offset + 1
          BY <2>1, <4>1
        <4>3. view[d].offset \in Int /\ origin[d] \in Int
          BY <1>5
        <4>4. QED
          BY ONLY <3>1, <4>1, <4>2, <4>3
      <3>4. QED
        BY <3>2, <3>3
    <2>5. w.cell[p] = c
      BY <1>9, <2>1, <2>2, <2>4
    <2>6. QED
      BY <2>2, <2>5
  <1>12. Cells(w) = slab
    <2>1. Cells(w) = {w.cell[p] : p \in Box(shape)}
      BY <1>2 DEF Cells
    <2>2. QED
      BY <1>10, <1>11, <2>1
  <1>13. ASSUME Len(kept) = n
         PROVE  /\ \A d \in 1 .. n : w.shape[d] = view[d].size
                /\ \A p \in Box(w.shape) : \A d \in 1 .. n :
                     w.cell[p][d] = origin[d] + view[d].offset + p[d]
    <2>1. m = n
      BY <1>1, <1>13
    <2>2. \A j, k \in DOMAIN kept : j < k => kept[j] < kept[k]
      BY KeptFacts
    <2>3. kept \in [1 .. n -> 1 .. n]
      BY <1>1, <2>1
    <2>4. \A k \in 1 .. n : kept[k] = k
      BY <2>2, <2>3, AllKept
    <2>5. \A d \in 1 .. n : w.shape[d] = view[d].size
      BY <1>2, <1>3, <2>1, <2>4
    <2>6. ASSUME NEW p \in Box(w.shape), NEW d \in 1 .. n
          PROVE  w.cell[p][d] = origin[d] + view[d].offset + p[d]
      <3>1. p \in Box(shape)
        BY <1>2, <2>6
      <3>2. w.cell[p][d] = origin[d] + at(p)[d]
        BY <1>9, <3>1
      <3>3. d \in 1 .. m /\ kept[d] = d
        BY <2>1, <2>4
      <3>4. at(p)[kept[d]] = view[kept[d]].offset + p[d] /\ p[d] \in Nat
        BY <1>8, <3>1, <3>3
      <3>5. QED
        BY <1>5, <3>2, <3>3, <3>4
    <2>7. QED
      BY <2>5, <2>6
  <1>14. QED
    BY <1>12, <1>13 DEF slab, w, Shifted

(* The parts of Faithful that do not depend on what the analysis knows.    *)
LEMMA SubviewTypes ==
  ASSUME NEW v, Faithful(v), NEW view \in [DOMAIN v.shape -> Slices],
         NEW kept \in KeptDimensions(view), NEW stray \in Box(Shape[v.base])
  PROVE  LET w == Subview(v, view, kept, stray)
         IN  /\ w.base = v.base /\ w.shape \in Shapes
             /\ Len(w.shape) = Len(kept) /\ Len(kept) <= Len(v.shape)
             /\ w.cell \in [Box(w.shape) -> Box(Shape[v.base])]
             /\ w.access = SubviewAccess(v.access, view)
  <1> DEFINE w == Subview(v, view, kept, stray)
             shape == [k \in DOMAIN kept |-> view[kept[k]].size]
  <1>1. Len(v.shape) \in Nat /\ DOMAIN v.shape = 1 .. Len(v.shape)
    BY DEF Faithful, Shapes
  <1>2. view \in [1 .. Len(v.shape) -> Slices]
    BY <1>1
  <1>3. PICK m \in 0 .. Len(v.shape) : kept \in [1 .. m -> 1 .. Len(v.shape)]
    BY <1>1, <1>2, KeptFacts
  <1>4. \A k \in 1 .. m : view[kept[k]].size \in 0 .. MaxExtent
    BY <1>1, <1>2, <1>3, KeptFacts
  <1>5. shape \in Shapes /\ Len(shape) = m /\ Len(kept) = m
    BY <1>3, <1>4 DEF Shapes
  <1>6. \A q \in Box(v.shape) : v.cell[q] \in Box(Shape[v.base])
    BY DEF Faithful
  <1>7. w.cell = [p \in Box(shape) |-> IF SourceIndex(view, kept, p) \in Box(v.shape)
                                         THEN v.cell[SourceIndex(view, kept, p)] ELSE stray]
    BY DEF Subview
  <1>8. w.cell \in [Box(shape) -> Box(Shape[v.base])]
    <2> HIDE DEF w, shape
    <2>1. QED
      BY <1>6, <1>7
  <1>9. w.base = v.base /\ w.shape = shape /\ w.access = SubviewAccess(v.access, view)
    BY DEF Subview
  <1>10. QED
    BY <1>3, <1>5, <1>8, <1>9

(* A view that fits into the sizes of its source stays within it.          *)
LEMMA FittingInBounds ==
  ASSUME NEW v, v.shape \in Shapes, NEW n \in Nat, DOMAIN v.shape = 1 .. n,
         NEW view \in [1 .. n -> Slices], NEW kept \in KeptDimensions(view),
         \A d \in 1 .. n : /\ view[d].stride = 1 /\ 0 <= view[d].offset
                           /\ view[d].size <= v.shape[d] - view[d].offset
  PROVE  InBounds(v, view, kept)
  <1> DEFINE shape == [k \in DOMAIN kept |-> view[kept[k]].size]
  <1>1. PICK m \in 0 .. n : kept \in [1 .. m -> 1 .. n]
    BY KeptFacts
  <1>2. SUFFICES ASSUME NEW p \in Box(shape)
                 PROVE  SourceIndex(view, kept, p) \in Box(v.shape)
    BY DEF InBounds
  <1> DEFINE q == SourceIndex(view, kept, p)
  <1>3. ASSUME NEW d \in 1 .. n PROVE q[d] \in 0 .. MaxExtent /\ q[d] < v.shape[d]
    <2>1. /\ view[d].offset \in Nat /\ view[d].size \in Nat
          /\ v.shape[d] \in Nat /\ v.shape[d] <= MaxExtent /\ MaxExtent \in Nat
      <3>1. v.shape[d] \in 0 .. MaxExtent
        BY ExtentBound
      <3>2. view[d].offset \in Int /\ view[d].size \in 0 .. MaxExtent
        BY KeptFacts
      <3>3. QED
        BY <3>1, <3>2, ViewsAssumption
    <2>2. CASE \E k \in DOMAIN kept : kept[k] = d
      <3>1. PICK k \in DOMAIN kept : kept[k] = d
        BY <2>2
      <3>2. Place(kept, d) = k
        BY <3>1, KeptFacts DEF Place
      <3>3. q[d] = view[d].offset + view[d].stride * p[k]
        BY <2>2, <3>2 DEF SourceIndex
      <3>4. p[k] \in Nat /\ p[k] < shape[k]
        BY <1>1, <3>1, BoxFacts
      <3>5. shape[k] = view[d].size
        BY <3>1
      <3>6. view[d].stride * p[k] = p[k]
        BY <3>4
      <3> HIDE DEF q, shape
      <3>7. QED
        BY <2>1, <3>3, <3>4, <3>5, <3>6
    <2>3. CASE ~ \E k \in DOMAIN kept : kept[k] = d
      <3>1. view[d].size = 1
        BY <2>3, KeptFacts
      <3>2. q[d] = view[d].offset
        BY <2>3 DEF SourceIndex
      <3> HIDE DEF q
      <3>3. QED
        BY <2>1, <3>1, <3>2
    <2>4. QED
      BY <2>2, <2>3
  <1>4. DOMAIN q = 1 .. n /\ q = [d \in 1 .. n |-> q[d]]
    BY DEF SourceIndex
  <1> HIDE DEF q
  <1>5. q \in [1 .. n -> 0 .. MaxExtent]
    BY <1>3, <1>4
  <1>6. QED
    BY <1>3, <1>5 DEF Box, q

LEMMA SubviewFaithful ==
  ASSUME NEW v, Faithful(v), NEW view \in [DOMAIN v.shape -> Slices],
         NEW kept \in KeptDimensions(view), NEW stray \in Box(Shape[v.base]),
         v.access.isSubview \/ InBounds(v, view, kept)
  PROVE  Faithful(Subview(v, view, kept, stray))
  <1> DEFINE w == Subview(v, view, kept, stray)
             n == Len(v.shape)
  <1>1. n \in Nat /\ DOMAIN v.shape = 1 .. n /\ v.base \in Memrefs /\ v.shape \in Shapes
    BY DEF Faithful, Shapes
  <1>2. view \in [1 .. n -> Slices] /\ Len(view) = n /\ DOMAIN view = 1 .. n
    BY <1>1
  <1>3. /\ w.base = v.base /\ w.shape \in Shapes
        /\ Len(w.shape) = Len(kept) /\ Len(kept) <= n
        /\ w.cell \in [Box(w.shape) -> Box(Shape[v.base])]
        /\ w.access = SubviewAccess(v.access, view)
    BY SubviewTypes
  <1>4. \A d \in 1 .. n : view[d].offset \in Int /\ view[d].size \in Int
    BY <1>1, <1>2, KeptFacts, ViewsAssumption
  <1>5. CASE ~SubviewKnown(v.access, view)
    <2>1. w.access = [offsets |-> <<>>, sizes |-> <<>>, isSubview |-> TRUE, rangeKnown |-> FALSE]
      BY <1>3, <1>5 DEF SubviewAccess
    <2>2. w.access \in Accesses
      <3>1. <<>> \in Seq(Int)
        OBVIOUS
      <3>2. QED
        BY <2>1, <3>1 DEF Accesses
    <2> HIDE DEF w
    <2>3. QED
      BY <1>1, <1>3, <2>1, <2>2 DEF Faithful, w
  <1>6. CASE SubviewKnown(v.access, view)
    <2>1. /\ v.access.rangeKnown
          /\ v.access.offsets # <<>> => Len(v.access.offsets) = n
          /\ \A d \in 1 .. n : /\ view[d].stride = 1
                                /\ InsideSource(v.access, view, d)
      BY <1>2, <1>6 DEF SubviewKnown
    <2>2. PICK origin \in [1 .. n -> Int] :
            /\ Len(Shape[v.base]) = n
            /\ DOMAIN Shape[v.base] = 1 .. n
            /\ \A d \in 1 .. n : CombinedOffset(v.access, view, d) = origin[d] + view[d].offset
            /\ \A p \in Box(v.shape) : \A d \in 1 .. n : v.cell[p][d] = origin[d] + p[d]
            /\ InBounds(v, view, kept)
      <3>1. CASE ~v.access.isSubview
        <4> DEFINE zero == [d \in 1 .. n |-> 0]
        <4>1. zero \in [1 .. n -> Int]
          OBVIOUS
        <4>2. /\ v.shape = Shape[v.base] /\ v.access.offsets = <<>>
              /\ \A p \in Box(v.shape) : v.cell[p] = p
          BY <3>1 DEF Faithful
        <4>3. \A d \in 1 .. n : CombinedOffset(v.access, view, d) = zero[d] + view[d].offset
          BY <1>4, <4>2 DEF CombinedOffset
        <4>4. \A p \in Box(v.shape) : \A d \in 1 .. n : v.cell[p][d] = zero[d] + p[d]
          BY <1>1, <4>2, BoxFacts
        <4> HIDE DEF zero
        <4>5. QED
          BY <1>1, <3>1, <4>1, <4>2, <4>3, <4>4
      <3>2. CASE v.access.isSubview
        <4> DEFINE o == v.access.offsets
                   z == v.access.sizes
        <4>1. Located(v) /\ o \in Seq(Int) /\ z \in Seq(Int)
          BY <2>1, <3>2 DEF Faithful, Accesses
        <4>2. Len(o) = n
          <5>1. o = <<>> => Len(o) = 0
            OBVIOUS
          <5>2. n <= Len(o)
            BY <4>1 DEF Located
          <5>3. QED
            BY <1>1, <2>1, <5>1, <5>2
        <4>3. o \in [1 .. n -> Int] /\ z \in [1 .. n -> Int] /\ Len(Shape[v.base]) = n
          BY <4>1, <4>2 DEF Located
        <4>4. DOMAIN Shape[v.base] = 1 .. n
          BY <1>1, <4>3, ViewsAssumption DEF Shapes
        <4>5. \A d \in 1 .. n : CombinedOffset(v.access, view, d) = o[d] + view[d].offset
          <5>1. \A d \in 1 .. n : o # <<>>
            BY <4>3
          <5>2. QED
            BY <5>1 DEF CombinedOffset
        <4>6. /\ \A d \in 1 .. n : v.shape[d] = z[d]
              /\ \A p \in Box(v.shape) : \A d \in 1 .. n : v.cell[p][d] = o[d] + p[d]
          BY <1>1, <4>1, <4>2 DEF Located
        <4>7. \A d \in 1 .. n : 0 <= view[d].offset /\ view[d].size <= v.shape[d] - view[d].offset
          <5> TAKE d \in 1 .. n
          <5>1. o # <<>> /\ o[d] \in Int /\ z[d] \in Int
            BY <4>3
          <5>2. InsideSource(v.access, view, d)
            BY <2>1
          <5>3. LET start == CombinedOffset(v.access, view, d) - o[d]
                IN  0 <= start /\ view[d].size <= z[d] - start
            BY <5>1, <5>2 DEF InsideSource
          <5>4. CombinedOffset(v.access, view, d) - o[d] = view[d].offset
            BY <1>4, <4>5, <5>1
          <5>5. QED
            BY <4>6, <5>3, <5>4
        <4>8. InBounds(v, view, kept)
          BY <1>1, <1>2, <2>1, <4>7, FittingInBounds
        <4>9. QED
          BY <4>3, <4>4, <4>5, <4>6, <4>8
      <3>3. QED
        BY <3>1, <3>2
    <2> DEFINE a == w.access
    <2>3. a = [offsets    |-> [d \in 1 .. n |-> CombinedOffset(v.access, view, d)],
               sizes      |-> [d \in 1 .. n |-> view[d].size],
               isSubview  |-> TRUE,
               rangeKnown |-> TRUE]
      BY <1>2, <1>3, <1>6 DEF SubviewAccess
    <2> HIDE DEF w, n, a
    <2>4. /\ a.offsets \in [1 .. n -> Int] /\ a.sizes \in [1 .. n -> Int]
          /\ \A d \in 1 .. n : a.offsets[d] = origin[d] + view[d].offset /\ a.sizes[d] = view[d].size
      BY <1>4, <2>2, <2>3
    <2>5. a \in Accesses /\ Len(a.offsets) = n /\ Len(a.sizes) = n /\ DOMAIN a.offsets = 1 .. n
      <3>1. a.offsets \in Seq(Int) /\ a.sizes \in Seq(Int) /\ Len(a.offsets) = n /\ Len(a.sizes) = n
        BY <1>1, <2>4, FunctionIsSequence
      <3>2. QED
        BY <2>3, <2>4, <3>1 DEF Accesses
    <2>6. Shifted(w, n, view, kept, origin)
      <3>1. v.cell \in [Box(v.shape) -> Box(Shape[v.base])]
        BY DEF Faithful
      <3>2. Anchored(v, n, view, kept, origin)
        BY <1>1, <1>2, <2>1, <2>2, <3>1 DEF Anchored
      <3>3. QED
        BY <3>2, UnitStrideSubview DEF w
    <2>7. Cells(w) = Slab(a)
      BY <2>4, <2>5, <2>6 DEF Slab, Shifted
    <2>8. Len(w.shape) = n => /\ DOMAIN w.shape = 1 .. n
                              /\ \A d \in 1 .. n : w.shape[d] = a.sizes[d]
                              /\ \A p \in Box(w.shape) : \A d \in 1 .. n :
                                   w.cell[p][d] = a.offsets[d] + p[d]
      BY <1>3, <2>4, <2>6 DEF Shapes, Shifted
    <2>9. Located(w)
      BY <1>3, <2>2, <2>5, <2>7, <2>8 DEF Located, a
    <2>10. QED
      BY <1>1, <1>3, <2>3, <2>5, <2>9 DEF Faithful, a, w
  <1>7. QED
    BY <1>5, <1>6

-----------------------------------------------------------------------------
LEMMA ViewFaithful ==
  ASSUME NEW v, Faithful(v), NEW w \in Subviews(v) \cup OtherViews(v)
  PROVE  Faithful(w)
  <1>1. CASE w \in Subviews(v)
    <2>1. PICK view \in [DOMAIN v.shape -> Slices] :
            w \in {Subview(v, view, kept, stray) :
                     kept \in {k \in KeptDimensions(view) :
                                v.access.isSubview \/ InBounds(v, view, k)},
                     stray \in Box(Shape[v.base])}
      BY <1>1 DEF Subviews
    <2>2. PICK kept \in KeptDimensions(view), stray \in Box(Shape[v.base]) :
            /\ v.access.isSubview \/ InBounds(v, view, kept)
            /\ w = Subview(v, view, kept, stray)
      BY <2>1
    <2>3. QED
      BY <2>2, SubviewFaithful
  <1>2. CASE w \in OtherViews(v)
    BY <1>2, OtherViewFaithful
  <1>3. QED
    BY <1>1, <1>2

LEMMA Invariance == Spec => []Inv
  <1>1. Init => Inv
    BY MemrefFaithful DEF Init, Inv
  <1>2. Inv /\ [Next]_vars => Inv'
    <2> SUFFICES ASSUME Inv, [Next]_vars PROVE Inv'
      OBVIOUS
    <2>1. CASE ViewLeft
      BY <2>1, ViewFaithful DEF ViewLeft, Inv
    <2>2. CASE ViewRight
      BY <2>2, ViewFaithful DEF ViewRight, Inv
    <2>3. CASE UNCHANGED vars
      BY <2>3 DEF vars, Inv
    <2>4. QED
      BY <2>1, <2>2, <2>3 DEF Next
  <1>3. QED
    BY <1>1, <1>2, PTL DEF Spec

(* Two operands that name a common cell conflict, for memrefs of every     *)
(* rank and extent and views of every depth: no dependence between tasks   *)
(* is missed (depGraph.h:90-213).                                          *)
THEOREM NoConflictMissed == Spec => []NoMissedConflict
  <1>1. Inv => NoMissedConflict
    <2> SUFFICES ASSUME Inv, Overlap(left, right),
                        left.access.isSubview, left.access.rangeKnown,
                        right.access.isSubview, right.access.rangeKnown
                 PROVE  rangesOverlap(left.access, right.access)
      BY DEF NoMissedConflict, memoryAccessesConflict, Overlap
    <2> DEFINE a == left.access
               b == right.access
    <2>1. PICK c \in Slab(a) : c \in Slab(b)
      BY DEF Inv, Faithful, Located, Overlap
    <2>2. a \in Accesses /\ b \in Accesses /\ Len(a.sizes) = Len(a.offsets)
          /\ Len(b.sizes) = Len(b.offsets)
      BY DEF Inv, Faithful, Located
    <2> HIDE DEF a, b
    <2>3. ASSUME DOMAIN a.offsets = DOMAIN b.offsets, NEW d \in DOMAIN a.offsets
          PROVE  /\ a.sizes[d] > 0 /\ b.sizes[d] > 0
                 /\ a.offsets[d] < b.offsets[d] + b.sizes[d]
                 /\ b.offsets[d] < a.offsets[d] + a.sizes[d]
      <3>1. /\ a.offsets[d] \in Int /\ b.offsets[d] \in Int
            /\ a.sizes[d] \in Int /\ b.sizes[d] \in Int
        BY <2>2, <2>3 DEF Accesses
      <3>2. /\ c[d] \in Int
            /\ a.offsets[d] <= c[d] /\ c[d] < a.offsets[d] + a.sizes[d]
            /\ b.offsets[d] <= c[d] /\ c[d] < b.offsets[d] + b.sizes[d]
        BY <2>1, <2>3 DEF Slab
      <3>3. QED
        BY <3>1, <3>2
    <2>4. QED
      BY <2>3 DEF rangesOverlap, a, b
  <1>2. QED
    BY Invariance, <1>1, PTL

(* Views with known ranges conflict only if they name a common cell: the   *)
(* tasks of disjoint slices are free to run side by side                   *)
(* (depGraph.h:55-78, 106-142).                                            *)
THEOREM NoConflictInvented == Spec => []NoFalseConflict
  <1>1. Inv => NoFalseConflict
    <2> DEFINE a == left.access
               b == right.access
    <2> SUFFICES ASSUME Inv, a.isSubview, a.rangeKnown, b.isSubview, b.rangeKnown,
                        memoryAccessesConflict(left, right)
                 PROVE  Overlap(left, right)
      BY DEF NoFalseConflict
    <2>1. /\ Located(left) /\ Located(right)
          /\ a \in Accesses /\ b \in Accesses
      BY DEF Inv, Faithful
    <2>2. left.base = right.base /\ rangesOverlap(a, b)
      BY DEF memoryAccessesConflict
    <2>3. /\ Cells(left) = Slab(a) /\ Cells(right) = Slab(b)
          /\ Len(a.offsets) = Len(b.offsets)
          /\ Len(a.sizes) = Len(a.offsets) /\ Len(b.sizes) = Len(b.offsets)
      BY <2>1, <2>2 DEF Located
    <2> HIDE DEF a, b
    <2> DEFINE c == [d \in DOMAIN a.offsets |->
                      IF a.offsets[d] < b.offsets[d] THEN b.offsets[d] ELSE a.offsets[d]]
    <2>4. DOMAIN a.offsets = DOMAIN b.offsets
      BY <2>1, <2>3 DEF Accesses
    <2>5. ASSUME NEW d \in DOMAIN a.offsets
          PROVE  /\ c[d] \in Int
                 /\ a.offsets[d] <= c[d] /\ c[d] < a.offsets[d] + a.sizes[d]
                 /\ b.offsets[d] <= c[d] /\ c[d] < b.offsets[d] + b.sizes[d]
      <3>1. /\ a.offsets[d] \in Int /\ b.offsets[d] \in Int
            /\ a.sizes[d] \in Int /\ b.sizes[d] \in Int
        BY <2>1, <2>3, <2>4 DEF Accesses
      <3>2. /\ a.sizes[d] > 0 /\ b.sizes[d] > 0
            /\ a.offsets[d] < b.offsets[d] + b.sizes[d]
            /\ b.offsets[d] < a.offsets[d] + a.sizes[d]
        BY <2>2, <2>4 DEF rangesOverlap
      <3>3. QED
        BY <3>1, <3>2
    <2>6. c \in Slab(a) /\ c \in Slab(b)
      BY <2>4, <2>5 DEF Slab
    <2>7. QED
      BY <2>2, <2>3, <2>6 DEF Overlap
  <1>2. QED
    BY Invariance, <1>1, PTL
=============================================================================

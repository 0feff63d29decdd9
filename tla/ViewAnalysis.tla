----------------------------- MODULE ViewAnalysis -----------------------------
(***************************************************************************)
(* getMemRefAccess and memoryAccessesConflict (depGraph.h): what the       *)
(* dependency graph knows of the operands of two tasks, against the cells  *)
(* they really name.  An operand is a memref, or a view of one: a subview, *)
(* of any sign of offset, with static or dynamic metadata and rank         *)
(* reduction, or any other operation that is view-like.                    *)
(***************************************************************************)
EXTENDS Integers, Sequences

CONSTANTS
  Memrefs,    \* base memrefs
  Shape,      \* their extents
  MaxExtent,  \* bound on the extents of memrefs and views
  Slices,     \* [offset, size, stride, static]: one dimension of a subview
  OtherShapes,\* shapes a view that is no subview may have
  MaxInt      \* bound on a combined offset

VARIABLES
  left,   \* operand of a task
  right   \* operand of another task

vars == <<left, right>>

Shapes == Seq(0 .. MaxExtent)

ASSUME ViewsAssumption ==
  /\ MaxExtent \in Nat /\ MaxInt \in Nat /\ MaxExtent <= MaxInt
  /\ Shape \in [Memrefs -> Shapes]
  /\ OtherShapes \subseteq Shapes
  /\ Slices \subseteq [offset : Int, size : 0 .. MaxExtent, stride : Int, static : BOOLEAN]

(* The index tuples of a shape.                                            *)
Box(shape) == {p \in [DOMAIN shape -> 0 .. MaxExtent] : \A d \in DOMAIN shape : p[d] < shape[d]}

-----------------------------------------------------------------------------
(* A value: its base, its shape, the cell of the base behind each of its   *)
(* indices, and what getMemRefAccess returns for it.                       *)

Memref(m) ==
  [base   |-> m,
   shape  |-> Shape[m],
   cell   |-> [p \in Box(Shape[m]) |-> p],
   access |-> [offsets |-> <<>>, sizes |-> <<>>, isSubview |-> FALSE, rangeKnown |-> TRUE]]

CombinedOffset(source, view, d) ==
  (IF source.offsets = <<>> THEN 0 ELSE source.offsets[d]) + view[d].offset

(* Mutant of InsideSource: a view of a view is trusted to stay in it.       *)
InsideSourceTrusted(source, view, d) == TRUE

InsideSource(source, view, d) ==
  source.offsets # <<>> =>
    LET start == CombinedOffset(source, view, d) - source.offsets[d]
    IN  0 <= start /\ start <= source.sizes[d] /\ view[d].size <= source.sizes[d] - start

SubviewKnown(source, view) ==
  /\ source.rangeKnown
  /\ source.offsets # <<>> => Len(source.offsets) = Len(view)
  /\ \A d \in DOMAIN view :
       /\ view[d].static /\ view[d].stride = 1
       /\ CombinedOffset(source, view, d) \in -MaxInt - 1 .. MaxInt
       /\ InsideSource(source, view, d)

(* Once the range is not known, the offsets are never looked at again.     *)
SubviewAccess(source, view) ==
  IF SubviewKnown(source, view)
    THEN [offsets    |-> [d \in DOMAIN view |-> CombinedOffset(source, view, d)],
          sizes      |-> [d \in DOMAIN view |-> view[d].size],
          isSubview  |-> TRUE,
          rangeKnown |-> TRUE]
    ELSE [offsets |-> <<>>, sizes |-> <<>>, isSubview |-> TRUE, rangeKnown |-> FALSE]

(* Index p of the view as an index of its source; a dimension that is      *)
(* dropped has size 1.                                                     *)
Place(kept, d) == CHOOSE k \in DOMAIN kept : kept[k] = d

SourceIndex(view, kept, p) ==
  [d \in DOMAIN view |->
     IF \E k \in DOMAIN kept : kept[k] = d
       THEN view[d].offset + view[d].stride * p[Place(kept, d)]
       ELSE view[d].offset]

(* `kept` lists the dimensions that stay, in order.                        *)
KeptDimensions(view) ==
  {kept \in UNION {[1 .. n -> DOMAIN view] : n \in 0 .. Len(view)} :
     /\ \A j, k \in DOMAIN kept : j < k => kept[j] < kept[k]
     /\ \A d \in DOMAIN view : view[d].size # 1 => \E k \in DOMAIN kept : kept[k] = d}

(* The subview operation.  A subview of a memref stays within it, or the   *)
(* program is undefined; a view of a view that leaves its source names     *)
(* some other cell of the base, here `stray`.                              *)
Subview(value, view, kept, stray) ==
  LET shape == [k \in DOMAIN kept |-> view[kept[k]].size]
  IN  [base   |-> value.base,
       shape  |-> shape,
       cell   |-> [p \in Box(shape) |->
                     IF SourceIndex(view, kept, p) \in Box(value.shape)
                       THEN value.cell[SourceIndex(view, kept, p)]
                       ELSE stray],
       access |-> SubviewAccess(value.access, view)]

InBounds(value, view, kept) ==
  \A p \in Box([k \in DOMAIN kept |-> view[kept[k]].size]) :
    SourceIndex(view, kept, p) \in Box(value.shape)

Subviews(value) ==
  UNION {{Subview(value, view, kept, stray) :
            kept \in {k \in KeptDimensions(view) : value.access.isSubview \/ InBounds(value, view, k)},
            stray \in Box(Shape[value.base])} :
         view \in [DOMAIN value.shape -> Slices]}

(* Casts, reshapes and reinterpretations may name any cells of the base.   *)
OtherViews(value) ==
  UNION {{[base   |-> value.base,
           shape  |-> shape,
           cell   |-> cell,
           access |-> [offsets |-> <<>>, sizes |-> <<>>, isSubview |-> TRUE, rangeKnown |-> FALSE]] :
            cell \in [Box(shape) -> Box(Shape[value.base])]} :
         shape \in OtherShapes}

-----------------------------------------------------------------------------
(* Mutant of rangesOverlap: neighbouring ranges count as overlapping.       *)
rangesOverlapClosed(a, b) ==
  DOMAIN a.offsets = DOMAIN b.offsets =>
    \A d \in DOMAIN a.offsets :
      /\ a.sizes[d] > 0 /\ b.sizes[d] > 0
      /\ a.offsets[d] <= b.offsets[d] + b.sizes[d]
      /\ b.offsets[d] <= a.offsets[d] + a.sizes[d]

rangesOverlap(a, b) ==
  DOMAIN a.offsets = DOMAIN b.offsets =>
    \A d \in DOMAIN a.offsets :
      /\ a.sizes[d] > 0 /\ b.sizes[d] > 0
      /\ a.offsets[d] < b.offsets[d] + b.sizes[d]
      /\ b.offsets[d] < a.offsets[d] + a.sizes[d]

memoryAccessesConflict(v, w) ==
  /\ v.base = w.base
  /\ \/ ~v.access.isSubview \/ ~w.access.isSubview
     \/ ~v.access.rangeKnown \/ ~w.access.rangeKnown
     \/ rangesOverlap(v.access, w.access)

-----------------------------------------------------------------------------
Init == \E m, n \in Memrefs : left = Memref(m) /\ right = Memref(n)

(* The program takes a view of the operand and passes that instead.        *)
ViewLeft ==
  /\ left' \in Subviews(left) \cup OtherViews(left)
  /\ UNCHANGED right

ViewRight ==
  /\ right' \in Subviews(right) \cup OtherViews(right)
  /\ UNCHANGED left

Next == ViewLeft \/ ViewRight

Spec == Init /\ [][Next]_vars

-----------------------------------------------------------------------------
Cells(v) == {v.cell[p] : p \in Box(v.shape)}

Overlap(v, w) == v.base = w.base /\ Cells(v) \cap Cells(w) # {}

(* Two operands that name a common cell conflict, however they were        *)
(* derived: no dependence between tasks is missed (depGraph.h:90-213).     *)
NoMissedConflict == Overlap(left, right) => memoryAccessesConflict(left, right)

(* The ranges are exact where they are known: views that share no cell do  *)
(* not order their tasks (depGraph.h:55-78, 106-142).                      *)
NoFalseConflict ==
  /\ left.access.isSubview /\ left.access.rangeKnown
  /\ right.access.isSubview /\ right.access.rangeKnown
  /\ memoryAccessesConflict(left, right)
  => Overlap(left, right)
=============================================================================

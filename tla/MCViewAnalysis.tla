---------------------------- MODULE MCViewAnalysis ----------------------------
(***************************************************************************)
(* Views of views of a matrix and a vector.                                *)
(***************************************************************************)
EXTENDS ViewAnalysis

CONSTANT MaxViews  \* operations between an operand and its memref

VARIABLES leftViews, rightViews

SmallShape == [m \in {"matrix", "vector"} |-> IF m = "matrix" THEN <<2, 2>> ELSE <<3>>]

SmallOtherShapes == {<<2>>}

Slice(offset, size, stride, static) ==
  [offset |-> offset, size |-> size, stride |-> stride, static |-> static]

SmallSlices == {Slice(0, 1, 1, TRUE), Slice(1, 1, 1, TRUE), Slice(0, 2, 1, TRUE),
                Slice(1, 1, 1, FALSE), Slice(0, 2, 2, TRUE), Slice(-1, 1, 1, TRUE),
                Slice(0, 0, 1, TRUE)}

MCInit == Init /\ leftViews = 0 /\ rightViews = 0

(* The operands do not interact, so the left one may come first.           *)
MCViewLeft ==
  /\ leftViews < MaxViews /\ rightViews = 0
  /\ ViewLeft
  /\ leftViews' = leftViews + 1
  /\ UNCHANGED rightViews

MCViewRight ==
  /\ rightViews < MaxViews
  /\ ViewRight
  /\ rightViews' = rightViews + 1
  /\ UNCHANGED leftViews

MCSpec == MCInit /\ [][MCViewLeft \/ MCViewRight]_<<vars, leftViews, rightViews>>
=============================================================================

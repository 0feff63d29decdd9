SPECIFICATION MCSpec
CONSTANTS
  Memrefs = {"matrix", "vector"}
  Shape <- SmallShape
  MaxExtent = 3
  Slices <- SmallSlices
  OtherShapes <- SmallOtherShapes
  MaxInt = 7
  MaxViews = 2
INVARIANTS
  NoMissedConflict
  NoFalseConflict
CHECK_DEADLOCK FALSE

SPECIFICATION MCSpec
CONSTANTS
  Memrefs = {"x", "A"}
  RankOf <- SmallRankOf
  Constants = {1}
  Unknowns <- SmallUnknowns
  Start = 1
  Chunk = 2
  maxDepth = 2
  MaxInt = 3
  MaxOps = 4
  MaxAccesses = 3
INVARIANTS
  OffsetsExact
  InsideSlab
  TaskDoesItsIterations
CHECK_DEADLOCK FALSE

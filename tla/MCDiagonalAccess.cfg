SPECIFICATION ClaimSpec
CONSTANTS
  Memrefs = {"x", "A"}
  RankOf <- SmallRankOf
  Constants = {1}
  Unknowns <- NoUnknowns
  Start = 1
  Chunk = 2
  maxDepth = 5
  MaxInt = 31
  MaxAdds = 2
INVARIANT
  SameCells
CHECK_DEADLOCK FALSE

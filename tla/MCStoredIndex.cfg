SPECIFICATION ClaimSpec
CONSTANTS
  Memrefs = {"x"}
  RankOf <- VectorsOnly
  Constants = {1}
  Unknowns <- NoUnknowns
  Start = 1
  Chunk = 2
  maxDepth = 5
  MaxInt = 31
  MaxAdds = 1
INVARIANT
  SameData
CHECK_DEADLOCK FALSE

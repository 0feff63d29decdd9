SPECIFICATION Spec
CONSTANTS
  Mems <- KernelMems
  RankOf <- KernelRankOf
  Extent <- KernelRows
  Columns <- KernelColumns
  Dynamic = {}
  NumNodes = 3
  Weight <- FastFirst
  NumRanks = 3
  NodeToRank <- Shifted
  AllCells <- Cells
  Programs <- CompiledCode
INVARIANTS
  TypeOK
  InStep
  ReadsAreFresh
  RootHoldsResult
PROPERTIES
  RootMovesForward

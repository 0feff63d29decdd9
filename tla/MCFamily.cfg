SPECIFICATION LockstepSpec
CONSTANTS
  Mems <- SmallMems
  RankOf <- KernelRankOf
  Extent <- ThreeRows
  Columns <- KernelColumns
  Dynamic = {"D"}
  NumNodes = 3
  Weight <- SameCost
  NumRanks = 3
  NodeToRank <- Shifted
  AllCells <- Cells
  Programs <- CompiledCode
INVARIANTS
  InSourceOrder
  TasksReadFresh
  ResultAtRoot
  RootGainsOnly

SPECIFICATION Spec
CONSTANTS
  Mems <- KernelMems
  RankOf <- KernelRankOf
  Extent <- FourRows
  Columns <- KernelColumns
  Dynamic = {}
  NumNodes = 3
  Weight <- SameCost
  NumRanks = 3
  NodeToRank <- Identity
  AllCells <- Cells
  Programs <- MissedTexts
INVARIANT
  ConsumersSeeProducers

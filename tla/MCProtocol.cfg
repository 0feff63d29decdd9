SPECIFICATION Spec
CONSTANTS
  NumRanks = 4
  NodeToRank <- RootInside
  AllCells <- Rows
  Programs <- Texts
INVARIANTS
  ReceivesMatchSends
  NothingInFlight
  NeverStuck
PROPERTIES
  StepsRunOut
  EveryRankReturns
CHECK_DEADLOCK FALSE

SPECIFICATION CutAndTransferSpec
CONSTANTS
  num_devices = 3
  Weightings <- SmallWeightings
  Slack = 1
  Bounds <- SmallBounds
  MaxInt = 7
  Sizes = {0, 1, 2, 3}
  Steps = {1, 2, 3}
  MaxRank = 4
  Int64Max = 9
  MaxCount = 3
INVARIANTS
  TypeOK
  ShardsTile
  ExactSharesAccepted
  MatchesClosedForm
  SentCells
  AcceptedSlabsAreSent

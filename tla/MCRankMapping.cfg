SPECIFICATION Spec
CONSTANTS
  NumNodes = 3
  MaxWorld = 4
  Hardware <- HardwareKinds
INVARIANTS
  TypeOK
  RanksAgree
  TablesPairUp
PROPERTIES
  ImplementsAssignment
  EveryRankReturns

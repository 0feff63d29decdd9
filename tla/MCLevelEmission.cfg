SPECIFICATION Spec
CONSTANTS
  MaxLength = 5
  Bodies <- AllBodies
INVARIANTS
  TypeOK
  NeverFails
  LevelsMatchClosedForm
PROPERTIES
  ReleasedWhenReady
  ImplementsProgramOrder

SPECIFICATION Spec
CONSTANTS
  Kinds <- MCKinds
  PathsPerList = 2
  MaxAttempts = 2
INVARIANTS
  TypeOK
  InterfacesBacked
  RuntimePointersLive
  CleanMenu
  ChildServed
  OwnParametersOnly
PROPERTIES
  RefusalRestarts
  AttemptSettles

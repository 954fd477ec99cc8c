SPECIFICATION Spec
CONSTANTS
  MaxCandidates = 2
  MaxFaults = 2
CHECK_DEADLOCK FALSE
INVARIANTS
  TypeOK
  AddedOnceInOrder
  NoneSkipped
  WaitsOnlyForDescription
PROPERTIES
  BothReady
  ImplementsNegotiation

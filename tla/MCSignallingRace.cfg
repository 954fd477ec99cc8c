SPECIFICATION Spec
CONSTANTS
  Clients = {a, b, c}
  Quitters = {a}
  Losable = {a}
  Hangable = {}
  Capacity = 2
  SERIAL_NUM_MAX = 3
  NoId = NoId
  Nobody = Nobody
CHECK_DEADLOCK FALSE
SYMMETRY ClientSymmetry
INVARIANTS
  TypeOK
  OneRequestAtATime
  RoleBeforeDescription
  PeersHaveOppositeRoles
  AssertionsNeedADeparture

SPECIFICATION Spec
CONSTANTS
  Clients = {a, b}
  Quitters = {a}
  Losable = {a}
  Hangable = {a}
  Capacity = 1
  SERIAL_NUM_MAX = 3
  NoId = NoId
  Nobody = Nobody
CHECK_DEADLOCK FALSE
PROPERTIES
  WritesReturn
  RequestAnswered
  RoleBecomesReady

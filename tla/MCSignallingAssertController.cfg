SPECIFICATION Spec
CONSTANTS
  Clients = {a, b, c}
  Quitters = {}
  Losable = {}
  Hangable = {}
  Capacity = 3
  SERIAL_NUM_MAX = 3
  NoId = NoId
  Nobody = Nobody
CHECK_DEADLOCK FALSE
SYMMETRY ClientSymmetry
INVARIANTS
  ReplyFindsNoControl

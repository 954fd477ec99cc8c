SPECIFICATION Spec
CONSTANTS
  SERIAL_NUM_MAX = 3
  Tails = {t1, t2, t3}
  NoId = NoId
  Payloads = {p1}
SYMMETRY TailSymmetry
CHECK_DEADLOCK FALSE
INVARIANTS
  PairsMatched
  ClosedIsForgotten
  NoWriteAfterClose
PROPERTIES
  PairsLastUntilClose
  PositiveReplyMeansPaired
  SilentSessions
  ImplementsPromise

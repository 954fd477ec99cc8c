SPECIFICATION Spec
CONSTANTS
  SERIAL_NUM_MAX = 2
  Tails = {t1, t2, t3, t4}
  NoId = NoId
  Payloads = {p1}
SYMMETRY TailSymmetry
CHECK_DEADLOCK FALSE
INVARIANTS
  TypeOK
  ListeningWhileRoom
  NoSerialLeak
  StopNeedsExhaustion
  OneAcceptChain
  SerialsUnique
  ClosedAtMostTwice

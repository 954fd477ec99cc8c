SPECIFICATION Spec
CONSTANTS
  Base = 4
  READ_BUFFER_SIZE = 6
  BodySizes = {2, 3, 5, 6}
  MaxSent = 3
CHECK_DEADLOCK FALSE
INVARIANTS
  ResolvedIsPrefix
  NothingHeldBack

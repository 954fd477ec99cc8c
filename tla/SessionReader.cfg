SPECIFICATION Spec
CONSTANTS
  Base = 4
  READ_BUFFER_SIZE = 6
  BodySizes = {2, 3, 6, 7, 16, 17, 18}
  MaxSent = 3
CHECK_DEADLOCK FALSE
INVARIANT WholeUntilTooLong
PROPERTY AllDelivered

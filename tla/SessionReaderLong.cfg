SPECIFICATION Spec
CONSTANTS
  Base = 4
  READ_BUFFER_SIZE = 6
  BodySizes = {2, 7}
  MaxSent = 3
CHECK_DEADLOCK FALSE
INVARIANT DeliveredIsPrefix

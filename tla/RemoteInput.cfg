SPECIFICATION Spec
CONSTANTS
  Buttons = {"LeftButton", "BackButton"}
  Keys = {k1}
  Positions = {here, there}
  NoPosition = NoPosition
  MaxEvents = 4
  MaxRefused = 1
CHECK_DEADLOCK FALSE
INVARIANTS
  TypeOK
  MirrorsWindow
  ReplayedInPlace
PROPERTY ReleasesArrive

SPECIFICATION Spec
CONSTANTS
  MaxSize = 2
  MaxChanges = 2
  MaxQueue = 2
INVARIANTS
  TypeOK
PROPERTIES
  TextureAdapts
  PictureArrives
  NeverBackwards

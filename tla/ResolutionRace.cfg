SPECIFICATION Spec
CONSTANTS
  Precision = 64
  MAX_FRAMES = 2
  MaxRefs = 0
  Sizes <- MCSizes
  Screen <- MCScreen
  Unscalable <- MCNone
  MaxPictures = 2
  MaxInfoChanges = 2
INVARIANTS
  ModesetAccepted
CHECK_DEADLOCK FALSE

SPECIFICATION FairSpec
CONSTANTS
  Precision = 64
  MAX_FRAMES = 3
  MaxRefs = 1
  Sizes <- MCSizes
  Screen <- MCScreen
  Unscalable <- MCUnscalable
  MaxPictures = 4
  MaxInfoChanges = 2
INVARIANTS
  TypeOK
  ShownInFull
  OverwriteDistance
  
PROPERTIES
  DecoderServed
CHECK_DEADLOCK FALSE

SPECIFICATION FairSpec
CONSTANTS
  MaxFrames = 3
  MaxInfoChanges = 2
  FbOf <- MCFbOf
INVARIANTS
  TypeOK
  NewestKept
PROPERTIES
  SlotRefinement
  PictureTaken
  WaiterLeaves
CHECK_DEADLOCK FALSE

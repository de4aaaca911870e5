SPECIFICATION FairSpec
CONSTANTS
  MaxFrames = 3
  MaxInfoChanges = 1
  FbOf <- MCFbOf
PROPERTIES
  ShutdownCompletes
CHECK_DEADLOCK FALSE

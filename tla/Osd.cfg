SPECIFICATION FairSpec
CONSTANTS
  MaxPaints = 4
INVARIANTS
  TypeOK
  ScreenWhole
PROPERTIES
  ScreenForward
  OsdEnds
CHECK_DEADLOCK FALSE

SPECIFICATION Spec
CONSTANTS
  LatencySize = 5
  PicturesPerPeriod = 4
  MaxPictures = 9
  RingSize = 3
  FrameSizes = {1, 3}
  MaxFrames = 6
  Fixes <- MCFixes
  ArmChannel = {1700, 1701}
  MaxMessages = 7
INVARIANTS
  TypeOK
  PicturesCountedOnce
  BytesCountedOnce
  RateIsNumber
  DistanceFromHome
CHECK_DEADLOCK FALSE

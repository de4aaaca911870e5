SPECIFICATION FairSpec
CONSTANTS
  Options <- MCDefaults
  HevcPackets <- MCHevcPackets
  AvcPackets <- MCAvcPackets
  MaxPackets = 2
  MaxInfoChanges = 1
PROPERTIES
  SignalEndsRecording
CHECK_DEADLOCK FALSE

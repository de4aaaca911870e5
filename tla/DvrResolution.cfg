SPECIFICATION Spec
CONSTANTS
  Options <- MCDefaults
  HevcPackets <- MCHevcPackets
  AvcPackets <- MCAvcPackets
  MaxPackets = 2
  MaxInfoChanges = 2
INVARIANTS
  RecordingComplete
CHECK_DEADLOCK FALSE

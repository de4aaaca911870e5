SPECIFICATION FairSpec
CONSTANTS
  Options <- MCOptions
  HevcPackets <- MCHevcPackets
  AvcPackets <- MCAvcPackets
  MaxPackets = 3
  MaxInfoChanges = 1
INVARIANTS
  TypeOK
  DrainedBeforeClose
  StartsAtKey
  NoGap
  RecordingComplete
PROPERTIES
  MuxMisuse
  PacketEndsRecording
CHECK_DEADLOCK FALSE

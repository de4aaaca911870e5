SPECIFICATION FairSpec
CONSTANTS
  MaxPackets = 4
  Capacity = 2
INVARIANTS
  TypeOK
  FedInOrder
  NothingLostSilently
  PipelineOutlivesPull
PROPERTIES
  SignalStopsFeed
CHECK_DEADLOCK FALSE

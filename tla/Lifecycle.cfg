SPECIFICATION FairSpec
CONSTANT MaxArgs = 4
INVARIANTS
  TypeOK
  JoinsCreated
  ThreadsEndFirst
PROPERTY
  SignalEndsProcess
CHECK_DEADLOCK FALSE

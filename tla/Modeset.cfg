SPECIFICATION Spec
CONSTANTS
  Crtcs = 2
  Modes <- MCModes
  AnyMode = AnyMode
  ConnectorKinds <- MCConnectors
  PlaneKinds <- MCPlanes
  NConnectors = 2
  NPlanes = 2
INVARIANTS
  TypeOK
  UndoValid
  NothingElseLost
  OutputFits
  SearchComplete
CHECK_DEADLOCK FALSE

SPECIFICATION Spec
CONSTANTS
  Recipes <- ThreeResources
  NbrExternals = 1
  MaxInstances = 2
  MaxRequests = 2
  MaxUpdates = 1
INVARIANTS StreamsRight HandlesRight SnapshotsWait
CHECK_DEADLOCK FALSE

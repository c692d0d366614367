SPECIFICATION Spec
CONSTANTS
  Channels = {0}
  NumIds = 2
  StaticIds = {}
  Parity = FALSE
  Depth = 2
  NoId = NoId
  Shapes <- OnceShapes
  MaxTasks = 2
  EnforceQueueDepth = TRUE
  ReclaimBds = FALSE
  DoubleReleases = TRUE
  Loads = {}
  LoadedIds = {}
  Needs <- NeedsNothing
INVARIANTS
  OwnersKeepIds
CHECK_DEADLOCK FALSE

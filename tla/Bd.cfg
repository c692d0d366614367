SPECIFICATION FairSpec
CONSTANTS
  Channels = {0, 1}
  NumIds = 4
  StaticIds = {0}
  Parity = TRUE
  Depth = 2
  NoId = NoId
  Shapes <- TileShapes
  MaxTasks = 3
  EnforceQueueDepth = TRUE
  ReclaimBds = TRUE
  DoubleReleases = FALSE
  Loads = {"named", "opaque"}
  LoadedIds = {3}
  Needs <- TileNeeds
INVARIANTS
  BdInv
  NoPushDropped
  ProvenIsFinished
  BdsIntact
  OwnersKeepIds
  GivesUpOnlyWhenStuck
PROPERTIES
  OperationsReturn
CHECK_DEADLOCK FALSE

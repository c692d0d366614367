SPECIFICATION FairPathSpec
CONSTANTS
  Size = 2
  IterCount = 2
  StreamSize = 1
  Written = 2
  Window = 2
  Depth <- NearDepth
  Repeat = 1
  Filled = 2
  Segments = {0}
  Endpoints <- NearEnds
  Role <- NearRole
  Kind <- NearKind
  Selected <- NearSelected
  MaxAcquire <- NearAcquire
  Objects <- NearObjects
  CoresExtend = TRUE
  Sender = "sender"
  Receiver = "receiver"
  FarDepth <- LinkDepth
  FarRepeat = 2
  FarSegments = {0, 1}
  FarEndpoints <- LinkEnds
  FarRole <- LinkRole
  FarSelected <- LinkSelected
  FarObjects <- LinkObjects
INVARIANTS
  PoolInv
  NoConflict
  InOrder
  FarSound
  EndsCarryTheSame
PROPERTIES
  PathDrained
  ImplementsPath

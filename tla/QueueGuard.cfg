SPECIFICATION GuardSpec
CONSTANTS
  Depth = 2
  Sequences <- AroundRegion
  MaxTrips = 3
INVARIANTS
  NoPushLost
  ExitCovers
CHECK_DEADLOCK FALSE

SPECIFICATION Spec
CONSTANTS
  Depth = 2
  MaxLength = 4
  MaxLoops = 2
  MaxTrips = 4
INVARIANTS
  RejectedUnderflows
  AcceptedStaysWhole

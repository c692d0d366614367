SPECIFICATION Spec
CONSTANTS
  BdBegin = 0
  BdEnd = 4
  StaticIds = {1}
  kMaxBDsPerTile = 4
  MaxUses = 2
  MaxConfigures = 2
  MaxTrips = 2
  None = None
INVARIANTS
  StartsOwnIds
  PoolIsExact
CHECK_DEADLOCK FALSE

SPECIFICATION FairSpec
CONSTANTS
  Calls = {c1, c2}
  None = None
  Contents = {k1, k2}
  Dirs = {1}
  MaxEdits = 1
INVARIANTS
  StoreInv
  LockHasAKeeper
  FetchedIsCurrent
  FetchedIsWhole
PROPERTIES
  CallsReturn
  LockComesFree
CHECK_DEADLOCK FALSE

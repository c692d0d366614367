SPECIFICATION Spec
CONSTANTS
  Builds = {b1, b2, b3}
  Elfs = {e1, e2}
  None = None
SYMMETRY Symmetry
INVARIANTS
  HitFindsItsElfs
  StoredIsWhole
  ContentionStillStores
  EntryInv
PROPERTIES
  WholeEntriesStay
CHECK_DEADLOCK FALSE

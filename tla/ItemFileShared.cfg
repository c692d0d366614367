SPECIFICATION Spec
CONSTANTS
  Readers = {r1, r2}
  OpenMayFail = TRUE
  None = None
INVARIANT
  ReadsWhole

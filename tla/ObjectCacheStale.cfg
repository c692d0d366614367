SPECIFICATION Spec
CONSTANTS
  Calls = {c1, c2}
  None = None
  Contents = {k1, k2}
  Dirs = {1}
  MaxEdits = 2
INVARIANT
  FailsOpenOnlyAsDocumented
CHECK_DEADLOCK FALSE

\* Two calls at once on one path.
SPECIFICATION Spec
CONSTANTS
  Writers <- TwoWriters
  Size = 2
  Overlap = TRUE
  FlushMayFail = FALSE
INVARIANTS
  PathWhole
CHECK_DEADLOCK FALSE

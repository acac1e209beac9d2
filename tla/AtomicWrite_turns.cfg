\* Calls one after the other; writes, flushes, renames and processes may fail.
SPECIFICATION Spec
CONSTANTS
  Writers <- ThreeWriters
  Size = 2
  Overlap = FALSE
  FlushMayFail = TRUE
INVARIANTS
  TypeOK
PROPERTIES
  RefinesRegister
CHECK_DEADLOCK FALSE

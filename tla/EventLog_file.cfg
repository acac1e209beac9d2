\* Two runs, with and without a store: long lines, crashes, a full disk.
SPECIFICATION Spec
CONSTANTS
  r1 = r1
  r2 = r2
  Runs <- TwoRuns
  MaxEvents = 2
  LongEvents = TRUE
  DiskMayFill = TRUE
SYMMETRY RunSymmetry
INVARIANTS
  TypeOK
  ReadBack
  DamageHasCause
  IncompleteIsRight
  MirrorLagsByOne
CHECK_DEADLOCK FALSE

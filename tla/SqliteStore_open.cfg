\* Two processes, a row of each level, two seconds.
SPECIFICATION Spec
CONSTANTS
  p1 = p1
  p2 = p2
  Processes <- Two
  Leaves <- OneLeaf
  MaxRows <- OneEach
  MaxSeconds = 1
SYMMETRY ProcessSymmetry
INVARIANTS
  TypeOK
  WholeUnlessOpenThrew
PROPERTIES
  TimesInOrder
CHECK_DEADLOCK FALSE

\* Two processes of any kind on one store.
SPECIFICATION Spec
CONSTANTS
  p1 = p1
  p2 = p2
  Processes <- Two
  CommandLines <- AllKinds
  MaxSessions = 3
  MaxSeconds = 1
  MaxPrompts = 1
SYMMETRY ProcessSymmetry
INVARIANTS
  TypeOK
  PromptSession
  HistoryUntilResume
CHECK_DEADLOCK FALSE

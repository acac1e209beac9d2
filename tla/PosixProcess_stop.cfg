\* Deadline, cancellation and failing calls against a command with a helper
\* that writes more than a pipe holds.
SPECIFICATION FairSpec
CONSTANTS
  Helpers <- OneHelper
  PipeSize = 1
  MaxOutput = 2
INVARIANTS
  TypeOK
  OutputComplete
  NothingLeftBehind
  GroupStopped
PROPERTIES
  StopEnds
  CommandEndEndsCall
CHECK_DEADLOCK FALSE

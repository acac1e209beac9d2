\* One run, small limits, a log whose appends may throw.
SPECIFICATION FairSpec
CONSTANTS
  Requests <- SmallRequests
  MaxCalls = 2
  MaxUsage = 1
  EventLogAttached = TRUE
  LogMayThrow = TRUE
INVARIANTS
  TypeOK
  PhaseMatchesState
  BudgetKept
  OutcomeOnRecord
  AnswerSurvives
PROPERTIES
  CancelStopsWork
  DenialEndsRun
  RefinesTrace
  Termination

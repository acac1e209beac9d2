\* Every registry of up to three of six models, and every request.
SPECIFICATION RouterSpec
CONSTANTS
  Registries <- SmallRegistries
  RoutingRequests <- SmallRequests
  Qualities = {8, 12}
  MaxRetries = 2
INVARIANTS
  ChoiceIsBest
PROPERTIES
  EscalationClimbs
CHECK_DEADLOCK FALSE

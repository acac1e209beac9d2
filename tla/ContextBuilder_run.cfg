\* Runs of up to four prompts under a small and a larger budget.
SPECIFICATION ContextSpec
CONSTANTS
  Paths = {"f", "g"}
  Requests <- SmallRequests
  Workspaces <- SmallWorkspaces
  Missing = Missing
  Observations = {0, 9, 400}
  InfoLength <- MC_InfoLength
  SnippetLimit = 8
  MarkerLength = 16
  MaxBuilds = 4
  MaxMessages = 3
INVARIANTS
  Accounted
  PromptFreezes
CHECK_DEADLOCK FALSE

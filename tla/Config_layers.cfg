\* Every pair of files, environments of at most two entries, any flags.
SPECIFICATION ConfigSpec
CONSTANTS
  Settings <- Looked
  Environments <- SmallEnvironments
  Arguments <- AnyFlags
INVARIANTS
  ConfigTypeOK
  OverridesWin
  ProjectFileReplacesUserFile
CHECK_DEADLOCK FALSE

SPECIFICATION FairSpec
CONSTANTS
  MaxRevision = 1
  MaxCrashes = 0
  Faults <- NoFaults
  StrictUnit = FALSE
PROPERTIES AgentComesBack
CHECK_DEADLOCK FALSE

SPECIFICATION FairSpec
CONSTANTS
  MaxRevision = 2
  MaxCrashes = 0
  Faults <- IOFaults
  StrictUnit = TRUE
INVARIANTS UnitMatchesActive  ActiveStateMatches
PROPERTIES RollbackRestores  AppliedIsReported AgentComesBack
CHECK_DEADLOCK TRUE

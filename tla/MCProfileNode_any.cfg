SPECIFICATION Spec
CONSTANTS
  MaxRevision = 2
  MaxCrashes = 1
  Faults <- AnyFault
  StrictUnit = TRUE
PROPERTIES ActiveAdvances
CHECK_DEADLOCK FALSE

SPECIFICATION Spec
CONSTANTS
  Node = node
  Profile = profile
  Requests = {q1}
  None = none
  MaxTasks = 2
  MaxRevision = 2
  MaxCrashes = 1
  Faults <- CrashFaults
  Losses <- AnyLoss
INVARIANT AppliedShownIsActive
PROPERTIES HubSpec NodeSpec
CHECK_DEADLOCK FALSE

SPECIFICATION FairSpec
CONSTANTS
  Node = node
  Profile = profile
  Requests = {q1}
  None = none
  MaxTasks = 2
  MaxRevision = 2
  MaxCrashes = 0
  Faults <- NoFault
  Losses <- NoLoss
PROPERTIES RolloutSettles

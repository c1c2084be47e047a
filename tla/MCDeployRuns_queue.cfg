\* Two targets and two runs, two pushes, two requests at a time, a restart.
SPECIFICATION Spec
CONSTANTS
  Dirs = {a, b}
  Nested <- NoNesting
  Requests = {q1, q2}
  Deliveries = {d1, d2}
  NoDelivery = none
  MaxTargets = 2
  MaxRuns = 2
  MaxCommit = 3
  MaxCrashes = 1
  MaxEvents = 5
SYMMETRY Symmetry
INVARIANTS ExecutesWhatItRecords DeliveryQueuesOnce StagingIsIsolated  
\* The service may be left alone for good.
CHECK_DEADLOCK FALSE

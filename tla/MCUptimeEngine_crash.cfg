SPECIFICATION FairSpec
CONSTANTS
  Monitors = {m1}
  Configs <- ThreeConfigs
  MaxRetries = 2
  Incidents = {1, 2}
  Workers = {w1, w2}
  Handlers = {h1}
  Faults = {"get", "resolve", "create", "update", "list", "state", "save"}
  MaxFaults = 3
  MaxRequests = 1
  MaxFlips = 2
INVARIANTS
  MigrationAccepts
  IncidentMatchesState
  IndexNeverHit
  AlertsFollowDown
  LiveIsRegistered
  

  
  
CHECK_DEADLOCK FALSE

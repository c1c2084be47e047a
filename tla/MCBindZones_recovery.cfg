\* Two zones, three failed calls or crashes at any step.
SPECIFICATION FairSpec
CONSTANTS
  Zones = {z1, z2}
  Faults = {"fail", "crash"}
  MaxFaults = 3
  MaxVersion = 4
INVARIANTS    AckedSurvives RollbackIsLocal
PROPERTIES Unblocks

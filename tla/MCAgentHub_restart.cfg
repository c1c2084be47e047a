\* A second apply of a revision whose receipt awaits its heartbeat.
SPECIFICATION Spec
CONSTANTS
  Nodes = {n1}
  Profiles = {p1, p2}
  Domains = {}
  PlainKinds = {}
  CoalescedKinds = {}
  CapabilitySets <- AllOrNothing
  Requests = {q1, q2}
  None = None
  ListLimit = 2
  MaxTasks = 3
  MaxRevision = 2
PROPERTIES
  NoSecondRestart

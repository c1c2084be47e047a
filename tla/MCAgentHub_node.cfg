\* Two requests at a time for one node: its profile, coalesced and plain tasks.
SPECIFICATION Spec
CONSTANTS
  Nodes = {n1}
  Profiles = {p1, p2}
  Domains = {d1}
  PlainKinds = {"metrics.read"}
  CoalescedKinds = {"deploy.domain.ensure"}
  CapabilitySets <- AllOrNothing
  Requests = {q1, q2}
  None = None
  ListLimit = 2
  MaxTasks = 3
  MaxRevision = 2
SYMMETRY Symmetry
INVARIANTS
  ProfileSingleFlight
  ApplyCarriesSavedProfile
  InFlightApplyIsShown
  CoalescedWithinWindow
PROPERTIES
  TaskLifecycle

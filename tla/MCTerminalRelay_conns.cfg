\* One tab, a reconnection of the agent and an input or output, or two of these.
CONSTANTS
  Sessions = {s1}
  MaxConns = 2
  MaxTraffic = 2
  DownCap = 1
  UpCap = 1
  EventCap = 1
  PtyCap = 1
SPECIFICATION FairSpec
INVARIANTS LiveIsListed NotStranded RunIsUnblocked
PROPERTIES DisconnectEndsTab 
\* The relay may come to rest: every tab has ended and the agent is not dialing.
CHECK_DEADLOCK FALSE

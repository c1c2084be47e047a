--------------------------- MODULE MCProfileNode ----------------------------
(* ProfileNode for TLC: the sets of faults of the runs.                     *)
EXTENDS ProfileNode

NoFaults == {}
IOFaults == {"write", "schedule", "start", "checks"}
AnyFault == AllFaults
=============================================================================

-------------------------- MODULE MCProfileRollout --------------------------
(***************************************************************************)
(* ProfileRollout for TLC: what may be lost and what may fail.             *)
(***************************************************************************)
EXTENDS ProfileRollout

AnyLoss == {"heartbeat lost", "heartbeat late", "poll lost", "report lost"}
NoLoss == {}
NoFault == {}
CrashFaults == {"start", "agent crash", "host crash"}
=============================================================================

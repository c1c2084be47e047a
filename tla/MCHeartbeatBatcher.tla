------------------------- MODULE MCHeartbeatBatcher -------------------------
(* Instances of HeartbeatBatcher for TLC.                                   *)
EXTENDS HeartbeatBatcher

=============================================================================

--------------------------- MODULE MCUptimeEngine ---------------------------
(* Instances of UptimeEngine for TLC.                                       *)
EXTENDS UptimeEngine

\* A monitor that goes DOWN at the second failure, one that is paused, one in
\* maintenance.
ThreeConfigs ==
  {[active |-> TRUE, maintenance |-> FALSE, retries |-> 2],
   [active |-> FALSE, maintenance |-> FALSE, retries |-> 2],
   [active |-> TRUE, maintenance |-> TRUE, retries |-> 2]}

=============================================================================

---------------------------- MODULE MCDeployRuns ----------------------------
(***************************************************************************)
(* Small instances of DeployRuns for TLC.                                  *)
(***************************************************************************)
EXTENDS DeployRuns, TLC

NoNesting == {}
Symmetry == Permutations(Requests) \union Permutations(Deliveries)
=============================================================================

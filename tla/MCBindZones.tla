---------------------------- MODULE MCBindZones -----------------------------
(* BindZones for TLC.                                                      *)
EXTENDS BindZones, TLC

Symmetry == Permutations(Zones)
=============================================================================

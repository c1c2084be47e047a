-------------------------- MODULE MCTerminalRelay ---------------------------
(* TerminalRelay for TLC.                                                   *)
EXTENDS TerminalRelay, TLC

Symmetry == Permutations(Sessions)
=============================================================================

----------------------------- MODULE MCAgentHub -----------------------------
(***************************************************************************)
(* Small instances of AgentHub for TLC.                                    *)
(***************************************************************************)
EXTENDS AgentHub, TLC

\* An agent that advertises everything, and one that lost its capabilities.
AllOrNothing == {{}, Kinds}

\* No definition tells requests or profiles apart.
Symmetry == Permutations(Requests) \union Permutations(Profiles)
=============================================================================

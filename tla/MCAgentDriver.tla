---------------------------- MODULE MCAgentDriver ----------------------------
(* Small instances of AgentDriver for TLC. *)
EXTENDS AgentDriver, TLC

Symmetry == Permutations(Messages)
=============================================================================

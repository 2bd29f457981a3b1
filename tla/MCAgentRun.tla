----------------------------- MODULE MCAgentRun -----------------------------
(* Instances of AgentRun for TLC. *)
EXTENDS AgentRun, TLC

CONSTANTS c1, c2, c3

MCCommands == {c1, c2, c3}
Symmetry == Permutations(MCCommands)
=============================================================================

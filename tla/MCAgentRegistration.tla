------------------------- MODULE MCAgentRegistration -------------------------
(* Small instances of AgentRegistration for TLC.                           *)
EXTENDS AgentRegistration, TLC

InterchangeableAgents == Permutations(Agents) \cup Permutations(Endpoints)
=============================================================================

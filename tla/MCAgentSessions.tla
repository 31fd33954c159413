--------------------------- MODULE MCAgentSessions ---------------------------
(* Instances of AgentSessions for TLC. *)
EXTENDS AgentSessions, TLC

\* Agents and sessions are interchangeable.
Symmetry == Permutations(Agent) \cup Permutations(Session)
=============================================================================

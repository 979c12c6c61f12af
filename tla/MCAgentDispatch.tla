--------------------------- MODULE MCAgentDispatch ---------------------------
(* Instances of AgentDispatch for TLC. *)
EXTENDS AgentDispatch
=============================================================================

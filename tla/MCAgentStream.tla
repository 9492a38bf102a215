---------------------------- MODULE MCAgentStream ----------------------------
(* A small instance of AgentStream for TLC.                                  *)
EXTENDS AgentStream

ToolStatuses == {"ok", "form", "failed", "contacts", "confirm"}
=============================================================================

----------------------------- MODULE MCMcpGate -----------------------------
(* Instances of module McpGate for TLC. *)
EXTENDS McpGate

CONSTANTS c1, c2
=============================================================================

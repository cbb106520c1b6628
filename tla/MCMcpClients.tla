---------------------------- MODULE MCMcpClients ----------------------------
(***************************************************************************)
(* An instance of McpClients with two tool calls for TLC.                  *)
(***************************************************************************)
EXTENDS McpClients

CONSTANTS c1, c2

TwoCalls == {c1, c2}
=============================================================================

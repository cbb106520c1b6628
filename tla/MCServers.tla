----------------------------- MODULE MCServers -----------------------------
(***************************************************************************)
(* Small instances, for TLC, of two parts that share no state: the clients *)
(* of an MCP server with one tool call, and two jobs of a user whose list  *)
(* holds one.  One of them moves in a behaviour, the other stays where it  *)
(* starts, where no fair action of it is enabled.                          *)
(***************************************************************************)
EXTENDS McpClients, AgentJobs

CONSTANTS c1, j1, j2, t1, t2

OneCall  == {c1}
TwoJobs  == {j1, j2}
TwoTasks == {t1, t2}
NoText   == {}

VARIABLE focus  \* the part that moves

ServersInit ==
    /\ focus \in {"mcp", "jobs"}
    /\ McpInit /\ Init
    \* What rests starts in one state only.
    /\ focus = "mcp" \/ cache.tools = "cold"
    /\ focus = "jobs" \/ \A t \in Tasks : task[t].job = j1

ServersNext ==
    /\ UNCHANGED focus
    /\ \/ focus = "mcp" /\ McpNext /\ UNCHANGED vars
       \/ focus = "jobs" /\ Next /\ UNCHANGED mcpVars

ServersSpec ==
    /\ ServersInit
    /\ [][ServersNext]_<<mcpVars, vars, focus>>
    /\ McpFairness
=============================================================================

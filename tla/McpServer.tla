------------------------------ MODULE McpServer ------------------------------
(***************************************************************************)
(* The MCP server: who serves the agents, and the session of one of them.  *)
(* What a session says does not depend on who serves it, and whoever       *)
(* serves the agent does so by the same code; so the two share no state.   *)
(***************************************************************************)
EXTENDS McpEndpoint, McpSession

mcpVars == <<endpointVars, sessionVars>>

McpInit == EndpointInit /\ SessionInit

McpNext ==
  \/ EndpointNext /\ UNCHANGED sessionVars
  \/ SessionNext /\ UNCHANGED endpointVars

McpSpec == McpInit /\ [][McpNext]_mcpVars

(* Agents are served by who has the workspace, and what they list is exact.*)
AgentsAreServed == EndpointIsSound /\ SessionIsSound

===============================================================================

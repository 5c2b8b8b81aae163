------------------------------ MODULE Readers ------------------------------
(***************************************************************************)
(* Reports in the chats and the MCP server over one table, which the bot   *)
(* writes between any two of their queries.                                *)
(***************************************************************************)
EXTENDS Reports, McpServer

vars == <<tableVars, chatVars, mcpVars>>

ASSUME ReadersAssumption == Readers = Users \cup Clients /\ Users \cap Clients = {}

Init == TableInit /\ ReportsInit /\ McpInit

Next ==
  \/ \E r \in Rows : Write(r) /\ UNCHANGED <<chatVars, mcpVars>>
  \/ ReportsNext /\ UNCHANGED mcpVars
  \/ McpNext /\ UNCHANGED chatVars

Spec == Init /\ [][Next]_vars

\* The three parts have the values they are meant to have.
TypeOK == TableTypeOK /\ ReportsTypeOK /\ McpTypeOK
=============================================================================

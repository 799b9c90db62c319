------------------------------- MODULE MCCalls -------------------------------
(***************************************************************************)
(* Instances of Calls for TLC: two HTTP requests under one correlation id, *)
(* an MCP call, and messages over one WebSocket.                           *)
(***************************************************************************)
EXTENDS Calls, TLC

CONSTANTS h1, h2, m, w, socket, shared, its

MCKind == [c \in Call |-> CASE c \in {h1, h2} -> "http" [] c = m -> "mcp" [] OTHER -> "message"]
MCOn   == [c \in Call |-> socket]
MCCor  == [c \in Call |-> CASE c \in {h1, h2, m} -> shared [] OTHER -> its]

\* The two requests are alike.
Symmetry == Permutations({h1, h2})
=============================================================================

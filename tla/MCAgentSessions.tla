-------------------------- MODULE MCAgentSessions --------------------------
(* TLC instance of AgentSessions. *)
EXTENDS AgentSessions

CONSTANTS c1, r1, r2, v1, v2

MCSessions == {c1}
MCRuns == {r1, r2}
MCCanvases == {v1, v2}

AllFaults == {"write", "restart"}

=============================================================================

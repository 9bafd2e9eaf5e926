--------------------------- MODULE MCAgentRuntime ---------------------------
(***************************************************************************)
(* Small instances of AgentRuntime.                                        *)
(***************************************************************************)
EXTENDS AgentRuntime, TLC

CONSTANTS d1, w1, w2, h1, a1, c1, c2

MCTeam  == (d1 :> <<w1, w2>>)
MCAlone == (d1 :> <<w1>>)

=============================================================================

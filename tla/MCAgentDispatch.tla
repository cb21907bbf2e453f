--------------------------- MODULE MCAgentDispatch ---------------------------
(* Instances of AgentDispatch for TLC.                                      *)
EXTENDS AgentDispatch, TLC

CONSTANTS a, b, c, d, e

Ranks == (a :> 1) @@ (b :> 1) @@ (c :> 1) @@ (d :> 5) @@ (e :> 5)
=============================================================================

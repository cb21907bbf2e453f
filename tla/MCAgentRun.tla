------------------------------ MODULE MCAgentRun ------------------------------
(* Instances of AgentRun for TLC: calls c1 and c2 share a key.                 *)
EXTENDS AgentRun, TLC

CONSTANTS c1, c2, k1

OneKey == (c1 :> k1) @@ (c2 :> k1)
Alone == c1 :> k1
=============================================================================

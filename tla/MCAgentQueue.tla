---------------------------- MODULE MCAgentQueue ----------------------------
(* Instances of AgentQueue for TLC: five jobs of three priorities, the      *)
(* priorities of SCHEDULE, USER_QUERY and RISK_MONITOR jobs.                *)
EXTENDS AgentQueue

CONSTANTS a, b, c, d, e

Ranks == (a :> 1) @@ (b :> 1) @@ (c :> 5) @@ (d :> 5) @@ (e :> 7)
=============================================================================

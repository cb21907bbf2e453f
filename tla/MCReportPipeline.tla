-------------------------- MODULE MCReportPipeline --------------------------
(* Instances of ReportPipeline for TLC: the invocations are model values.   *)
EXTENDS ReportPipeline, TLC

CONSTANTS w1, w2, s1, s2, r1, r2

OneJob == {1}
TwoJobs == {1, 2}

Symmetry == Permutations(Workers) \cup Permutations(Requests)
=============================================================================

--------------------------- MODULE MCAnalysisJobs ---------------------------
(* Model values for AnalysisJobs: two versions of the deterministic        *)
(* implementation, and the second with the hosted judge switched on.       *)
EXTENDS AnalysisJobs, TLC

CONSTANTS t1, t2

Upgrade == {"v1", "v2"}
JudgeSwitched == {"v2", "v2_hosted"}
DeterministicOnly == {"v2"}

MCDegraded == [d \in Definitions |-> IF d = "v2_hosted" THEN "v2" ELSE d]

=============================================================================

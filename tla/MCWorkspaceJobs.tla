--------------------------- MODULE MCWorkspaceJobs ---------------------------
(* The two queues of durable jobs the writer serves for workers, in         *)
(* behaviours of two kinds that share no state: the analyses of two traces, *)
(* and the generation of eval cases from two groups under two keys.  A      *)
(* group has two findings, so that its canonical member changes, and the    *)
(* other one, so that a batch has two items.                                *)
EXTENDS MCAnalysisJobs, EvalBatches

CONSTANTS g1, g2, k1, k2, e1

VARIABLE part

MCFindings == 1..3
MCGroupOf == (1 :> g1) @@ (2 :> g1) @@ (3 :> g2)

WorkspaceInit ==
  /\ Init /\ EvalInit
  /\ part \in {"analyses", "generation"}
  /\ part = "analyses" => activeEvidence = [f \in Findings |-> Gone]
  /\ part = "generation" => definition = CHOOSE d \in Definitions : TRUE

WorkspaceNext ==
  \/ part = "analyses" /\ Next /\ UNCHANGED <<part, evalVars>>
  \/ part = "generation" /\ EvalNext /\ UNCHANGED <<part, vars>>

WorkspaceSpec ==
  /\ WorkspaceInit /\ [][WorkspaceNext]_<<part, vars, evalVars>>
  /\ WF_vars(part = "analyses" /\ EnqueueStale)
  /\ WF_vars(part = "analyses" /\ Poll)
  /\ WF_vars(Try) /\ WF_vars(Analyze) /\ WF_vars(Finish)
  /\ EvalFairness

=============================================================================

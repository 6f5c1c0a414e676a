----------------------------- MODULE MCGovernance -----------------------------
(* What an assessment run may do, in behaviours of four kinds.  Three are   *)
(* of the governance of a repository that changes back and forth between    *)
(* two contents, with their own definitions each: two drafts of the agent   *)
(* context and two revisions; one draft, two of the taxonomy and two        *)
(* revisions; or two drafts of both and nothing to run on yet, so that      *)
(* definitions of two specifications fork and are lost while checks are     *)
(* published.  The fourth is of the budget of two jobs with one item each,  *)
(* worked on by two workers over two days.                                  *)
EXTENDS Governance, DailyBudget, TLC

CONSTANTS
  first, second, j1, j2, k1, w1, w2,
  Jobs, Items, Job, Key, Cost, Overrun, Thresholds, Workers, MaxFaults

VARIABLES
  part, policy, job, item, rows, cache, record, threshold, decisions, worker, day, faults

budgetVars == <<policy, job, item, attempt, rows, reserved, charged, cache, record, threshold,
                decisions, worker, day, faults>>

Context == INSTANCE Governance WITH MaxProposals <- 0
Taxonomy == INSTANCE Governance WITH MaxDrafts <- 1
Budget == INSTANCE Assessments WITH active <- threshold

MCContents == {first, second}
MCNodesOf == [c \in MCContents |-> {c}]
MCJob == (1 :> j1) @@ (2 :> j2)
MCKey == (1 :> k1) @@ (2 :> k1)
MCCost == (1 :> 1) @@ (2 :> 1)
MCPolicies == {[enabled |-> TRUE, daily |-> 2, perAttempt |-> 1, tries |-> 2]}
MCWorkers == {w1, w2}
MCSymmetry == Permutations(MCWorkers)

RunInit == part \in {"context", "taxonomy", "definitions", "budget"} /\ Init /\ Budget!Init

(* The contents are alike: the first one that is recorded is `first`.       *)
ContentsInOrder == snapshots # <<>> => snapshots[1] = first

RunNext ==
  \/ part = "context" /\ Context!Next /\ ContentsInOrder' /\ UNCHANGED <<part, budgetVars>>
  \/ part = "taxonomy" /\ Taxonomy!Next /\ ContentsInOrder' /\ UNCHANGED <<part, budgetVars>>
  \/ part = "definitions" /\ Next /\ finalized' = {} /\ ContentsInOrder'
     /\ UNCHANGED <<part, budgetVars>>
  \/ part = "budget" /\ Budget!Next /\ UNCHANGED <<part, vars>>

RunSpec == RunInit /\ [][RunNext]_<<part, vars, budgetVars>>

=============================================================================

--------------------------- MODULE MCAssessments ---------------------------
(* Assessments in behaviours of two kinds.  In the first, one worker is     *)
(* dead and it is the last day; the second job has an item whose exact      *)
(* result the first may already have computed.  In the other, two workers   *)
(* compete for that item, over two days.                                    *)
EXTENDS Assessments, TLC

CONSTANTS j1, j2, w1, w2, k1, k2, t1

VARIABLE part

MCJob == [i \in Items |-> IF i = 3 THEN j2 ELSE j1]
MCKey == [i \in Items |-> IF i = 2 THEN k2 ELSE k1]
MCCost == [i \in Items |-> IF i = 2 THEN 0 ELSE 1]
MCPolicies == {[enabled |-> TRUE, daily |-> 2, perAttempt |-> 1, tries |-> 2]}

AssessInit ==
  \/ /\ part = "items" /\ StoreInit
     /\ worker = (w1 :> [at |-> "loop"]) @@ (w2 :> [at |-> "dead"])
     /\ day = LastDay /\ faults = 0
  \/ part = "workers" /\ Init

AssessNext ==
  \/ part = "items" /\ Next /\ UNCHANGED part
  \/ part = "workers" /\ Next /\ UNCHANGED part /\ job'[j1] = job[j1]

AssessSpec == AssessInit /\ [][AssessNext]_<<part, vars>> /\ Fairness

=============================================================================

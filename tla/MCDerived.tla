------------------------------ MODULE MCDerived ------------------------------
(* What background workers derive from finalized revisions, in behaviours   *)
(* that share no state: the trees of one trace of two spans, and the        *)
(* cohorts of a project of two traces, of which a rebuild reads both or, in *)
(* part "bounded", one.  What is stored of a tree is checked by itself, for *)
(* every topology of up to four spans.                                      *)
EXTENDS Topology, CohortQueue, TLC

CONSTANTS t1, t2, p1

VARIABLE part

ReadsOne == INSTANCE CohortQueue WITH Minimum <- 1, MaximumCases <- 1

MCSpans == 1..2
MCBatches == {1 :> NoParent, 2 :> 1, (1 :> 2) @@ (2 :> 1)}
MCProjectOf == (t1 :> p1) @@ (t2 :> p1)

(* The stored tree of every topology is complete.                           *)
ASSUME LayoutIsComplete ==
  \A S \in SUBSET (1..4) : \A f \in Topologies(S) : TreeIsComplete(f, Columns(f))

DerivedInit ==
  /\ Init /\ CohortInit
  /\ part \in {"trees", "cohorts", "bounded"}

DerivedNext ==
  \/ part = "trees" /\ Next /\ UNCHANGED <<part, cohortVars>>
  \/ part = "cohorts" /\ CohortNext /\ UNCHANGED <<part, vars>>
  \/ part = "bounded" /\ ReadsOne!CohortNext /\ UNCHANGED <<part, vars>>

DerivedSpec ==
  /\ DerivedInit /\ [][DerivedNext]_<<part, vars, cohortVars>>
  /\ WF_vars(UpdateIndexes) /\ WF_vars(part = "trees" /\ Work)
  /\ WF_cohortVars(Analyzed) /\ WF_cohortVars(part = "cohorts" /\ CohortWorker)
  /\ WF_cohortVars(part = "bounded" /\ ReadsOne!CohortWorker)

=============================================================================

----------------------------- MODULE CohortQueue -----------------------------
(***************************************************************************)
(* Feature-similarity cohorts.  Each committed analysis asks the cohort    *)
(* worker, over a bounded queue, to assign the new findings of its trace   *)
(* to the active model of the project.  A full queue never blocks: it      *)
(* turns the request into a rebuild of every project.  Rebuilds wait until *)
(* no analysis is pending, and a model is named after the texts of the     *)
(* findings it was fitted to.                                              *)
(*                                                                         *)
(* A finding is known by its trace and the analysis that found it; its     *)
(* text is what the safe projection leaves of it, so that findings of      *)
(* different analyses may have the same text.                              *)
(***************************************************************************)
EXTENDS Integers, FiniteSets, Sequences, SequencesExt

CONSTANTS
  Traces, Projects, ProjectOf,
  Unassigned,    \* UNASSIGNED_PROJECT_ID
  Texts,
  Capacity,      \* analysis.cohort_job_queue
  Minimum,       \* analysis.minimum_findings
  MaximumCases,  \* analysis.cohort_maximum_cases
  NewCases,      \* analysis.cohort_rebuild_new_cases
  NewPercent,    \* analysis.cohort_rebuild_new_percent
  History,       \* analysis.cohort_model_history
  MaxChanges,    \* bound on analyses and requested rebuilds
  MaxFailures,   \* bound on failed calls and restarts
  Nothing, All

ASSUME CohortAssumption ==
  /\ {Capacity, Minimum, MaximumCases, NewCases, NewPercent, History} \subseteq Nat \ {0}
  /\ Minimum <= MaximumCases
  /\ {MaxChanges, MaxFailures} \subseteq Nat
  /\ ProjectOf \in [Traces -> Projects \cup {Unassigned}] /\ Unassigned \notin Projects
  /\ IsFiniteSet(Traces) /\ All \notin Projects /\ Nothing \notin Traces \cup [Texts -> Nat]

VARIABLES
  finding,     \* active_failure_findings: what is active of each trace
  analysis,    \* where the analysis of each trace is
  committed,   \* the trace whose analysis the analysis thread just committed
  queue,       \* the channel of the worker
  rebuildAll,  \* CohortControlHandle.rebuild_all
  worker, dirty,
  models,      \* semantic_cluster_models of each project, oldest first
  active,      \* the one with active = 1
  excused,     \* no state of the program: traces FindingsAreAssigned excepts
  changes, failures

cohortInput == <<finding, analysis, committed>>
cohortStore == <<models, active>>
cohortVars ==
  <<cohortInput, cohortStore, queue, rebuildAll, worker, dirty, excused, changes, failures>>

Waiting == [at |-> "waiting"]
Top == [at |-> "top"]

FindingsOf(p) == {finding[t] : t \in {t \in Traces : ProjectOf[t] = p}} \ {Nothing}
ActiveFindingProjects == {p \in Projects : FindingsOf(p) # {}}

(* The texts, each as often as it occurs: what the model id is a hash of.  *)
Identity(F) == [x \in Texts |-> Cardinality({f \in F : f.text = x})]

Model(p) == CHOOSE m \in Range(models[p]) : m.id = active[p]

CohortInit ==
  /\ finding = [t \in Traces |-> Nothing] /\ analysis = [t \in Traces |-> "settled"]
  /\ committed = Nothing
  /\ queue = <<>> /\ rebuildAll = FALSE /\ worker = Top /\ dirty = {}
  /\ models = [p \in Projects |-> <<>>] /\ active = [p \in Projects |-> Nothing]
  /\ excused = {} /\ changes = 0 /\ failures = 0

-----------------------------------------------------------------------------
(* The traces and their analyses.                                          *)

(* A trace goes on: its lifecycle is no longer finalized.                  *)
TraceGoesOn(t) ==
  /\ changes < MaxChanges /\ analysis[t] \in {"settled", "stranded"}
  /\ analysis' = [analysis EXCEPT ![t] = "open"]
  /\ changes' = changes + 1
  /\ UNCHANGED <<finding, committed, cohortStore, queue, rebuildAll, worker, dirty, excused,
                 failures>>

(* Finalized, with an analysis pending or running.                         *)
TraceFinalized(t) ==
  /\ analysis[t] = "open"
  /\ analysis' = [analysis EXCEPT ![t] = "pending"]
  /\ UNCHANGED <<finding, committed, cohortStore, queue, rebuildAll, worker, dirty, excused,
                 changes, failures>>

(* The findings of the trace are replaced, if there are any.               *)
AnalysisCommitted(t) ==
  /\ committed = Nothing /\ analysis[t] = "pending"
  /\ \E x \in Texts \cup {Nothing} :
       finding' = [finding EXCEPT ![t] =
         IF x = Nothing THEN Nothing ELSE [trace |-> t, analysis |-> changes, text |-> x]]
  /\ analysis' = [analysis EXCEPT ![t] = "settled"]
  /\ committed' = t /\ excused' = excused \ {t}
  /\ UNCHANGED <<cohortStore, queue, rebuildAll, worker, dirty, changes, failures>>

(* Without a result the active findings stay as they are and the worker is *)
(* not told.  The trace is failed, which settles it, or it is stranded: a  *)
(* first analysis that was cut short is analyzing for good, one with       *)
(* hosted findings is refused and repeated.  Both count as pending.        *)
AnalysisFailed(t) ==
  /\ analysis[t] = "pending"
  /\ analysis' = [analysis EXCEPT ![t] = "settled"]
  /\ UNCHANGED <<finding, committed, cohortStore, queue, rebuildAll, worker, dirty, excused,
                 changes, failures>>

AnalysisStrands(t) ==
  /\ analysis[t] = "pending"
  /\ analysis' = [analysis EXCEPT ![t] = "stranded"]
  /\ UNCHANGED <<finding, committed, cohortStore, queue, rebuildAll, worker, dirty, excused,
                 changes, failures>>

DropWhenFull(job) ==
  /\ queue' = IF Len(queue) < Capacity THEN Append(queue, job) ELSE queue
  /\ UNCHANGED rebuildAll

(* CohortControlHandle::submit.                                            *)
Submit(job) ==
  IF Len(queue) < Capacity
  THEN queue' = Append(queue, job) /\ UNCHANGED rebuildAll
  ELSE rebuildAll' = TRUE /\ UNCHANGED queue

AssignTrace ==
  /\ committed # Nothing
  /\ Submit([kind |-> "assignment", of |-> committed])
  /\ committed' = Nothing
  /\ UNCHANGED <<finding, analysis, cohortStore, worker, dirty, excused, changes, failures>>

RequestRebuild(p) ==
  /\ changes < MaxChanges
  /\ Submit([kind |-> "rebuild", of |-> p])
  /\ changes' = changes + 1
  /\ UNCHANGED <<cohortInput, cohortStore, worker, dirty, excused, failures>>

-----------------------------------------------------------------------------
(* The worker's loop.                                                      *)

(* The projects with findings become dirty; when they cannot be listed the *)
(* request is gone.                                                        *)
DirtyAll ==
  \/ dirty' = dirty \cup ActiveFindingProjects /\ UNCHANGED <<excused, failures>>
  \/ /\ failures < MaxFailures
     /\ failures' = failures + 1 /\ excused' = Traces
     /\ UNCHANGED dirty

TakeRebuildAllWithJob ==
  /\ worker = Top
  /\ IF rebuildAll /\ queue # <<>> THEN rebuildAll' = FALSE /\ DirtyAll
     ELSE UNCHANGED <<rebuildAll, dirty, excused, failures>>
  /\ worker' = Waiting
  /\ UNCHANGED <<cohortInput, cohortStore, queue, changes>>

TakeRebuildAll ==
  /\ worker = Top
  /\ IF rebuildAll THEN rebuildAll' = FALSE /\ DirtyAll
     ELSE UNCHANGED <<rebuildAll, dirty, excused, failures>>
  /\ worker' = Waiting
  /\ UNCHANGED <<cohortInput, cohortStore, queue, changes>>

ReceiveRebuild ==
  /\ worker = Waiting /\ queue # <<>> /\ Head(queue).kind = "rebuild"
  /\ IF Head(queue).of = All THEN DirtyAll
     ELSE dirty' = dirty \cup {Head(queue).of} /\ UNCHANGED <<excused, failures>>
  /\ queue' = Tail(queue) /\ worker' = Top
  /\ UNCHANGED <<cohortInput, cohortStore, rebuildAll, changes>>

ReceiveAssignment ==
  /\ worker = Waiting /\ queue # <<>> /\ Head(queue).kind = "assignment"
  /\ worker' = [at |-> "assigning", trace |-> Head(queue).of]
  /\ queue' = Tail(queue)
  /\ UNCHANGED <<cohortInput, cohortStore, rebuildAll, dirty, excused, changes, failures>>

(* The wait ran out: nothing is due, or analyses are pending somewhere.    *)
AnalysesPending == \E t \in Traces : analysis[t] \in {"pending", "stranded"}
TimeoutIdle ==
  /\ worker = Waiting /\ queue = <<>>
  /\ dirty = {} \/ AnalysesPending
  /\ worker' = Top
  /\ UNCHANGED <<cohortInput, cohortStore, queue, rebuildAll, dirty, excused, changes, failures>>

-----------------------------------------------------------------------------
(* assign_trace_to_active_cohort.                                          *)

(* A trace without findings, or a project without a model: the project is  *)
(* rebuilt.                                                                *)
ReadFindings ==
  /\ worker.at = "assigning"
  /\ LET p == ProjectOf[worker.trace]
         f == finding[worker.trace]
     IN IF p = Unassigned \/ f = Nothing \/ active[p] = Nothing
        THEN /\ dirty' = IF p = Unassigned THEN dirty ELSE dirty \cup {p}
             /\ worker' = Top
        ELSE /\ worker' = [at |-> "appending", project |-> p, finding |-> f]
             /\ UNCHANGED dirty
  /\ UNCHANGED <<cohortInput, cohortStore, queue, rebuildAll, excused, changes, failures>>

RebuildThreshold(baseline) ==
  LET percent == (baseline * NewPercent + 99) \div 100
  IN IF percent = 0 THEN 1 ELSE IF percent < NewCases THEN percent ELSE NewCases

(* append_active_feature_similarity_assignments, then the decision whether *)
(* the model has grown or drifted enough; drift is a share of novel cases. *)
AppendAssignments ==
  /\ worker.at = "appending"
  /\ LET p == worker.project
         m == Model(p)
         new == worker.finding \notin m.assigned
         grown == IF new THEN m.grown + 1 ELSE m.grown
         at == CHOOSE k \in DOMAIN models[p] : models[p][k].id = active[p]
     IN /\ models' = [models EXCEPT ![p][at] =
              [m EXCEPT !.assigned = @ \cup {worker.finding}, !.grown = grown]]
        /\ \/ dirty' = dirty \cup {p} /\ \/ grown >= RebuildThreshold(m.baseline)
                                         \/ grown >= Minimum
           \/ grown < RebuildThreshold(m.baseline) /\ UNCHANGED dirty
  /\ worker' = Top
  /\ UNCHANGED <<cohortInput, active, queue, rebuildAll, excused, changes, failures>>

AssignmentFails ==
  /\ failures < MaxFailures /\ worker.at \in {"assigning", "appending"}
  /\ rebuildAll' = TRUE
  /\ worker' = Top /\ failures' = failures + 1
  /\ UNCHANGED <<cohortInput, cohortStore, queue, dirty, excused, changes>>

-----------------------------------------------------------------------------
(* The rebuild of every dirty project.                                     *)

StartRebuild ==
  /\ worker = Waiting /\ queue = <<>> /\ dirty # {} /\ ~AnalysesPending
  /\ worker' = [at |-> "rebuilding", rest |-> dirty]
  /\ dirty' = {}
  /\ UNCHANGED <<cohortInput, cohortStore, queue, rebuildAll, excused, changes, failures>>

Settled(p) == \A t \in Traces : ProjectOf[t] = p => analysis[t] = "settled"

(* project_cohort_input_settled; an error counts as unsettled.             *)
CheckSettled ==
  /\ worker.at = "rebuilding" /\ worker.rest # {}
  /\ \E p \in worker.rest :
       \/ /\ Settled(p)
          /\ worker' = [at |-> "settled", project |-> p, rest |-> worker.rest \ {p}]
          /\ UNCHANGED <<dirty, failures>>
       \/ /\ IF Settled(p) THEN failures < MaxFailures /\ failures' = failures + 1
             ELSE UNCHANGED failures
          /\ worker' = [worker EXCEPT !.rest = @ \ {p}]
          /\ dirty' = dirty \cup {p}
  /\ UNCHANGED <<cohortInput, cohortStore, queue, rebuildAll, excused, changes>>

(* The findings of a project that a rebuild reads: no more than            *)
(* MaximumCases, those with the least identities, which are hashes.        *)
Bounded(F) == kSubset(Min({Cardinality(F), MaximumCases}), F)

(* Too few findings are no error: the project is done.                     *)
LoadProject ==
  /\ worker.at = "settled"
  /\ \E G \in Bounded(FindingsOf(worker.project)) :
       LET left == IF Cardinality(G) < Minimum THEN FindingsOf(worker.project)
                   ELSE FindingsOf(worker.project) \ G
       IN /\ worker' = IF Cardinality(G) < Minimum
                       THEN [at |-> "rebuilding", rest |-> worker.rest]
                       ELSE [at |-> "fitting", project |-> worker.project,
                             rest |-> worker.rest, findings |-> G]
          /\ excused' = {t \in Traces :
               finding[t] \in left \/ (t \in excused /\ finding[t] \notin G)}
  /\ UNCHANGED <<cohortInput, cohortStore, queue, rebuildAll, dirty, changes, failures>>

(* commit_feature_similarity_model_scoped: a model of the same texts is    *)
(* made the active one again as it is; another replaces the active one,    *)
(* and the oldest beyond the history are deleted.                          *)
CommitModel ==
  /\ worker.at = "fitting"
  /\ LET p == worker.project
         id == Identity(worker.findings)
         fitted == [id |-> id, assigned |-> worker.findings,
                    baseline |-> Cardinality(worker.findings), grown |-> 0]
         same == {m \in Range(models[p]) : m.id = id}
         kept(s) == IF Len(s) > History THEN SubSeq(s, Len(s) - History + 1, Len(s)) ELSE s
     IN /\ active' = [active EXCEPT ![p] = id]
        /\ models' = IF same # {} THEN models
                     ELSE [models EXCEPT ![p] = kept(Append(@, fitted))]
        /\ excused' = excused \cup
             {t \in Traces : \E m \in same : finding[t] \in worker.findings \ m.assigned}
  /\ worker' = [at |-> "rebuilding", rest |-> worker.rest]
  /\ UNCHANGED <<cohortInput, queue, rebuildAll, dirty, changes, failures>>

RebuildFails ==
  /\ failures < MaxFailures /\ worker.at \in {"settled", "fitting"}
  /\ worker' = [at |-> "rebuilding", rest |-> worker.rest]
  /\ dirty' = dirty \cup {worker.project}
  /\ failures' = failures + 1
  /\ UNCHANGED <<cohortInput, cohortStore, queue, rebuildAll, excused, changes>>

RebuildEnds ==
  /\ worker.at = "rebuilding" /\ worker.rest = {}
  /\ worker' = Top
  /\ UNCHANGED <<cohortInput, cohortStore, queue, rebuildAll, dirty, excused, changes, failures>>

(* The process starts again: the analysis thread first asks for a rebuild  *)
(* of everything.                                                          *)
CohortRestart ==
  /\ failures < MaxFailures
  /\ queue' = <<[kind |-> "rebuild", of |-> All]>>
  /\ committed' = Nothing /\ rebuildAll' = FALSE /\ worker' = Top /\ dirty' = {}
  /\ failures' = failures + 1
  /\ UNCHANGED <<finding, analysis, cohortStore, excused, changes>>

-----------------------------------------------------------------------------
Analyzed ==
  \/ AssignTrace
  \/ \E t \in Traces : \/ TraceFinalized(t) \/ AnalysisCommitted(t)
                        \/ AnalysisFailed(t) \/ AnalysisStrands(t)
CohortWorker ==
  \/ TakeRebuildAll \/ ReceiveRebuild \/ ReceiveAssignment \/ TimeoutIdle
  \/ ReadFindings \/ AppendAssignments
  \/ StartRebuild \/ CheckSettled \/ LoadProject \/ CommitModel \/ RebuildEnds

CohortNext ==
  \/ \E t \in Traces : TraceGoesOn(t)
  \/ \E p \in Projects \cup {All} : RequestRebuild(p)
  \/ Analyzed \/ CohortWorker
  \/ AssignmentFails \/ RebuildFails \/ CohortRestart

(* Both threads are loops that end only at shutdown.                       *)
CohortSpec ==
  /\ CohortInit /\ [][CohortNext]_cohortVars
  /\ WF_cohortVars(Analyzed) /\ WF_cohortVars(CohortWorker)

-----------------------------------------------------------------------------
(* Properties.                                                             *)

Assigned(t) ==
  LET p == ProjectOf[t] IN active[p] # Nothing /\ finding[t] \in Model(p).assigned

Requested(p) ==
  \/ rebuildAll \/ p \in dirty
  \/ \E k \in DOMAIN queue : queue[k].kind = "rebuild" /\ queue[k].of \in {p, All}
  \/ "rest" \in DOMAIN worker /\ p \in worker.rest
  \/ worker.at = "settled" /\ worker.project = p

Underway(t) ==
  \/ committed = t
  \/ \E k \in DOMAIN queue : queue[k] = [kind |-> "assignment", of |-> t]
  \/ worker.at = "assigning" /\ worker.trace = t
  \/ worker.at = "appending" /\ worker.finding = finding[t]
  \/ worker.at = "fitting" /\ finding[t] \in worker.findings

(* Every active finding is in the active model of its project or on its    *)
(* way there: no full queue, failed call, restart or analysis during a     *)
(* rebuild makes the worker forget it.  Excepted is a finding that the     *)
(* last rebuild left out, because there were too few in the project, more  *)
(* than MaximumCases, or a model of the same texts that was activated      *)
(* again with its old assignments; or whose rebuild was lost because the   *)
(* projects could not be listed.  The active model is one of the few kept  *)
(* ones, and no two of them are of the same texts.                         *)
FindingsAreAssigned ==
  /\ \A t \in Traces : finding[t] # Nothing /\ ProjectOf[t] # Unassigned =>
       \/ Assigned(t) \/ Underway(t) \/ Requested(ProjectOf[t])
       \/ t \in excused
  /\ \A p \in Projects :
       /\ Len(models[p]) <= History
       /\ active[p] # Nothing => active[p] \in {m.id : m \in Range(models[p])}
       /\ \A j, k \in DOMAIN models[p] : models[p][j].id = models[p][k].id => j = k
       /\ \A m \in Range(models[p]) : Cardinality(m.assigned) = m.baseline + m.grown
  /\ Len(queue) <= Capacity

(* And it gets there once the traces are quiet, unless one of them, of any *)
(* project, is stranded: rebuilds then wait until it goes on.              *)
CohortsCatchUp ==
  \A t \in Traces :
    []<>(finding[t] # Nothing /\ ProjectOf[t] # Unassigned =>
           Assigned(t) \/ t \in excused \/ \E s \in Traces : analysis[s] = "stranded")

=============================================================================

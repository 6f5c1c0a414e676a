----------------------------- MODULE EvalBatches -----------------------------
(***************************************************************************)
(* Generating eval cases from failure groups: the generation jobs queued   *)
(* under an idempotency key, their execution by the candidate worker       *)
(* through the writer, cancelling, retrying and reviewing.                 *)
(*                                                                         *)
(* All of it runs on the writer thread, one command at a time, so nothing  *)
(* comes between the steps of an execution except an error or a crash      *)
(* after any of its commits.  For the same reason the two checks for a     *)
(* cancelled job inside the execution never find one; they are left out.   *)
(*                                                                         *)
(* A finding's evidence is what its packet and candidate ids, computed by  *)
(* an external crate, tell apart.  The selection policy is the one with a  *)
(* single example per group, the canonical member.  A selection hash is    *)
(* the record of what is hashed; previews are stored under their hash and  *)
(* a stale one is refused, so the table of previews needs no state.        *)
(***************************************************************************)
EXTENDS Integers, FiniteSets

CONSTANTS
  Findings,    \* findings, in the order of their ids
  Groups,      \* failure groups
  GroupOf,     \* the group of each finding
  Evidence,    \* contents of an evidence packet
  Gone,        \* "no active analysis has this finding"
  Keys,        \* idempotency keys, each the key of one job
  User,        \* who makes a case that no job makes (observation)
  MaxChanges,  \* bound on committed analyses
  MaxClicks,   \* bound on cancels, retries, single cases and reviews
  MaxDisturbances  \* bound on errors and crashes

ASSUME EvalAssumption ==
  /\ Findings \subseteq Int
  /\ GroupOf \in [Findings -> Groups]
  /\ Gone \notin Evidence
  /\ User \notin Keys
  /\ {MaxChanges, MaxClicks, MaxDisturbances} \subseteq Nat

VARIABLES
  activeEvidence,  \* the evidence of each finding in the active analyses
  jobs,            \* candidate_generation_jobs
  records,         \* eval_candidates with their packets and dispositions
  running,         \* what execute_candidate_generation_job holds in memory
  changes, clicks, disturbances

evalVars == <<activeEvidence, jobs, records, running, changes, clicks, disturbances>>

-----------------------------------------------------------------------------
Good == {"created", "exists"}
ItemOutcomes == [Findings -> Good \cup {"failed", "none"}]
NoOutcomes == [f \in Findings |-> "none"]

Items == [finding : Findings, evidence : Evidence]
Previews == [groups : SUBSET Groups, items : SUBSET Items]

NoJob == [status |-> "none"]
Pending == {"queued", "running"}
JobRows == [status : Pending \cup {"succeeded", "partial", "failed", "cancelled"},
            preview : Previews, outcomes : ItemOutcomes]

Records == [finding : Findings, evidence : Evidence, by : Keys \cup {User},
            state : {"pending", "deferred", "accepted", "rejected"}]

Idle == [step |-> "idle"]
Executions == [step : {"create", "persist"}, key : Keys, outcomes : ItemOutcomes,
               todo : SUBSET Items]

Disturbed == disturbances < MaxDisturbances /\ disturbances' = disturbances + 1
Click == clicks < MaxClicks /\ clicks' = clicks + 1

EvalInit ==
  /\ activeEvidence \in [Findings -> Evidence \cup {Gone}]
  /\ records = {}
  /\ jobs = [k \in Keys |-> NoJob]
  /\ running = Idle
  /\ changes = 0 /\ clicks = 0 /\ disturbances = 0

-----------------------------------------------------------------------------
(* A committed analysis adds, changes or removes a finding.                *)
Reanalyze ==
  /\ running = Idle
  /\ changes < MaxChanges /\ changes' = changes + 1
  /\ \E f \in Findings, e \in Evidence \cup {Gone} :
       /\ e # activeEvidence[f]
       /\ activeEvidence' = [activeEvidence EXCEPT ![f] = e]
  /\ UNCHANGED <<jobs, records, running, clicks, disturbances>>

(* select_eval_representatives: the member with the least id.              *)
Members(g) == {f \in Findings : GroupOf[f] = g /\ activeEvidence[f] # Gone}
Representatives(g) == {f \in Members(g) : \A h \in Members(g) : f <= h}

CurrentPreview(groups) ==
  [groups |-> groups,
   items |-> {[finding |-> f, evidence |-> activeEvidence[f]] :
                f \in UNION {Representatives(g) : g \in groups}}]

(* queue_eval_batch, for a preview that is not stale: it is what a preview *)
(* taken now would be.  A key that is taken answers with its job, or with  *)
(* an error when it was taken for another batch, and changes nothing.      *)
QueueBatch(k) ==
  /\ running = Idle
  /\ jobs[k] = NoJob
  /\ \E groups \in SUBSET Groups \ {{}} :
       jobs' = [jobs EXCEPT ![k] = [status |-> "queued", preview |-> CurrentPreview(groups),
                                    outcomes |-> NoOutcomes]]
  /\ UNCHANGED <<activeEvidence, records, running, changes, clicks, disturbances>>

-----------------------------------------------------------------------------
(* execute_candidate_generation_job.  The worker asks for every pending    *)
(* job, and for what the writer put in its channel, which may be any job.  *)
ExecutableQueued(k) == jobs[k] # NoJob /\ jobs[k].status = "queued"
Executable(k) == jobs[k] # NoJob /\ jobs[k].status \in Pending

StartUnchecked(k) ==
  /\ running = Idle
  /\ Executable(k)
  /\ jobs' = [jobs EXCEPT ![k].status = "running"]
  /\ running' = [step |-> "create", key |-> k, outcomes |-> jobs[k].outcomes,
                 todo |-> {i \in CurrentPreview(jobs[k].preview.groups).items :
                             jobs[k].outcomes[i.finding] = "none"}]
  /\ UNCHANGED <<activeEvidence, records, changes, clicks, disturbances>>
Start(k) ==
  /\ running = Idle
  /\ Executable(k)
  /\ LET current == CurrentPreview(jobs[k].preview.groups) IN
     IF current # jobs[k].preview
     THEN /\ jobs' = [jobs EXCEPT ![k].status = "failed"]
          /\ UNCHANGED running
     ELSE /\ jobs' = [jobs EXCEPT ![k].status = "running"]
          /\ running' = [step |-> "create", key |-> k, outcomes |-> jobs[k].outcomes,
                         todo |-> {i \in current.items :
                                     jobs[k].outcomes[i.finding] = "none"}]
  /\ UNCHANGED <<activeEvidence, records, changes, clicks, disturbances>>

(* create_eval_candidate, asked by a job or by the user.                   *)
Exists(f) == \E r \in records : r.finding = f
AddRecordAlways(f, by) ==
  records' = records \cup
    {[finding |-> f, evidence |-> activeEvidence[f], by |-> by, state |-> "pending"]}
AddRecord(f, by) ==
  records' = IF Exists(f) THEN records
             ELSE records \cup
               {[finding |-> f, evidence |-> activeEvidence[f], by |-> by, state |-> "pending"]}

(* One item, up to the candidate's commit; its outcome is only in memory.  *)
Outcome(f) == IF Exists(f) THEN "exists" ELSE "created"

Remember(i, outcome) ==
  running' = [running EXCEPT !.step = "persist",
                             !.outcomes[i.finding] = outcome,
                             !.todo = @ \ {i}]

CreateItem ==
  /\ running.step = "create"
  /\ \E i \in running.todo :
       \/ /\ AddRecord(i.finding, running.key)
          /\ Remember(i, Outcome(i.finding))
          /\ UNCHANGED disturbances
       \/ /\ Disturbed
          /\ Remember(i, "failed")
          /\ UNCHANGED records
  /\ UNCHANGED <<activeEvidence, jobs, changes, clicks>>

PersistOutcome ==
  /\ running.step = "persist"
  /\ jobs' = [jobs EXCEPT ![running.key].outcomes = running.outcomes]
  /\ running' = [running EXCEPT !.step = "create"]
  /\ UNCHANGED <<activeEvidence, records, changes, clicks, disturbances>>

FinalStatus(outcomes) ==
  LET done == {f \in Findings : outcomes[f] # "none"}
      failures == {f \in done : outcomes[f] = "failed"}
  IN  IF failures = {} THEN "succeeded"
      ELSE IF failures = done THEN "failed" ELSE "partial"

FinishJob ==
  /\ running.step = "create" /\ running.todo = {}
  /\ jobs' = [jobs EXCEPT ![running.key].status = FinalStatus(running.outcomes)]
  /\ running' = Idle
  /\ UNCHANGED <<activeEvidence, records, changes, clicks, disturbances>>

(* An error returned between two commits, or a crash and a new start.      *)
Interrupt ==
  /\ running # Idle
  /\ Disturbed
  /\ running' = Idle
  /\ UNCHANGED <<activeEvidence, jobs, records, changes, clicks>>

-----------------------------------------------------------------------------
CancelBatch(k) ==
  /\ running = Idle
  /\ Executable(k)
  /\ Click
  /\ jobs' = [jobs EXCEPT ![k].status = "cancelled"]
  /\ UNCHANGED <<activeEvidence, records, running, changes, disturbances>>

(* retry_candidate_generation_job keeps the outcomes that need no retry.   *)
KeptNothing(outcomes) == NoOutcomes
Kept(outcomes) ==
  [f \in Findings |-> IF outcomes[f] \in Good THEN outcomes[f] ELSE "none"]

RetryBatch(k) ==
  /\ running = Idle
  /\ jobs[k] # NoJob /\ jobs[k].status \in {"failed", "partial", "cancelled"}
  /\ Click
  /\ jobs' = [jobs EXCEPT ![k].status = "queued", ![k].outcomes = Kept(@)]
  /\ UNCHANGED <<activeEvidence, records, running, changes, disturbances>>

CreateSingle ==
  /\ running = Idle
  /\ Click
  /\ \E f \in Findings : activeEvidence[f] # Gone /\ AddRecord(f, User)
  /\ UNCHANGED <<activeEvidence, jobs, running, changes, disturbances>>

(* review_eval_candidate.  A case that is decided keeps its decision.      *)
Reviewable(r) == r.state \in {"pending", "deferred"}

ReviewCase ==
  /\ running = Idle
  /\ Click
  /\ \E r \in records, s \in {"deferred", "accepted", "rejected"} :
       /\ Reviewable(r)
       /\ records' = (records \ {r}) \cup {[r EXCEPT !.state = s]}
  /\ UNCHANGED <<activeEvidence, jobs, running, changes, disturbances>>

-----------------------------------------------------------------------------
Execute == CreateItem \/ PersistOutcome \/ FinishJob
Command(k) == QueueBatch(k) \/ Start(k) \/ CancelBatch(k) \/ RetryBatch(k)

EvalNext ==
  \/ Reanalyze \/ CreateSingle \/ ReviewCase
  \/ Execute \/ Interrupt
  \/ \E k \in Keys : Command(k)

EvalSpec == EvalInit /\ [][EvalNext]_evalVars

(* The worker polls for pending jobs, and the writer ends what it begins.  *)
EvalFairness == WF_evalVars(Execute) /\ \A k \in Keys : WF_evalVars(Start(k))
FairEvalSpec == EvalSpec /\ EvalFairness

-----------------------------------------------------------------------------
(* Properties.                                                             *)

(* Types; and what is being executed is visible to others as running.      *)
EvalTypeOK ==
  /\ activeEvidence \in [Findings -> Evidence \cup {Gone}]
  /\ jobs \in [Keys -> JobRows \cup {NoJob}]
  /\ records \subseteq Records
  /\ running \in Executions \cup {Idle}
  /\ running # Idle => jobs[running.key] # NoJob /\ jobs[running.key].status = "running"
  /\ {changes, clicks, disturbances} \subseteq Nat

(* What a job reports is so, after any interruption: a case it created     *)
(* was made by itself, a case that existed is there.                       *)
OutcomesAreTrue ==
  \A k \in Keys, f \in Findings : jobs[k] # NoJob =>
    /\ jobs[k].outcomes[f] = "exists" => Exists(f)
    /\ jobs[k].outcomes[f] = "created" => \E r \in records : r.finding = f /\ r.by = k

(* A job makes cases of what its reader saw in the preview, with the       *)
(* evidence he saw, whatever analyses are committed before it runs.        *)
OnlyPreviewed ==
  \A r \in records : r.by \in Keys =>
    /\ jobs[r.by] # NoJob
    /\ [finding |-> r.finding, evidence |-> r.evidence] \in jobs[r.by].preview.items

(* A job that succeeded has a good outcome for each previewed item; one    *)
(* that succeeded partly has good and bad ones.                            *)
FinalStatusIsTrue ==
  \A k \in Keys : jobs[k] # NoJob =>
    LET outcomes == jobs[k].outcomes
        previewed == {i.finding : i \in jobs[k].preview.items}
    IN  /\ jobs[k].status = "succeeded" => \A f \in previewed : outcomes[f] \in Good
        /\ jobs[k].status = "partial" =>
             /\ \A f \in previewed : outcomes[f] # "none"
             /\ \E f \in previewed : outcomes[f] \in Good
             /\ \E f \in previewed : outcomes[f] \notin Good

(* A job reports what it did, item by item and as a whole, others see it   *)
(* as running while it is executed, and it did what was previewed.         *)
JobsAreTrue == EvalTypeOK /\ OutcomesAreTrue /\ OnlyPreviewed /\ FinalStatusIsTrue

(* Resuming, cancelling and retrying never lose what a job has achieved,   *)
(* and its key stays bound to its preview; a job that is cancelled or over *)
(* makes no case, even when its id is still in the worker's channel, and   *)
(* only a retry lets it go on.                                             *)
JobIsOver(k) == jobs[k] # NoJob /\ jobs[k].status \notin Pending
MadeBy(k) == {r.finding : r \in {x \in records : x.by = k}}

WorkIsKept ==
  [][\A k \in Keys : jobs[k] # NoJob =>
       /\ jobs'[k] # NoJob /\ jobs'[k].preview = jobs[k].preview
       /\ \A f \in Findings : jobs[k].outcomes[f] \in Good =>
            jobs'[k].outcomes[f] = jobs[k].outcomes[f]
       /\ JobIsOver(k) => /\ MadeBy(k)' = MadeBy(k)
                          /\ jobs'[k].status \in {jobs[k].status, "queued"}]_evalVars

(* Batches, single cases, retries and resumed jobs together keep the       *)
(* promise of EvalCases.                                                   *)
Case(r) == [finding |-> r.finding, evidence |-> r.evidence, state |-> r.state]

EC == INSTANCE EvalCases WITH cases <- {Case(r) : r \in records}

ImplementsCases == EC!Spec

(* No job waits for ever: it comes to an end, resumed if need be.          *)
JobsEnd == \A k \in Keys : []<>(jobs[k] # NoJob => JobIsOver(k))

=============================================================================

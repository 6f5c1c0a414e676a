---------------------------- MODULE Assessments ----------------------------
(***************************************************************************)
(* Learned assessments: jobs of items that workers lease, judge outside    *)
(* every lock and commit, the daily budget the calls are reserved against, *)
(* the cache of exact results, and the decisions an activated threshold    *)
(* policy derives from the committed assessments.                          *)
(*                                                                         *)
(* Every action but the provider call itself is one control-store          *)
(* transaction.  Between the claim and the commit of an item its lease may *)
(* run out, its job may be cancelled, the policies may change and the UTC  *)
(* day may end; a worker may die at any point, and the worker ignores an   *)
(* error of the commit.  An item stands for its exact revision under one   *)
(* evaluator; items with the same Key have the same evaluator, context     *)
(* binding, projection and model.                                          *)
(***************************************************************************)
EXTENDS DailyBudget

CONSTANTS
  Jobs,          \* jobs, each under an idempotency key of its own
  Items,         \* job items, numbered in the order of their identities
  Job,           \* the job of each item
  Key,           \* the cache key of each item
  Cost,          \* estimated cost of each item, 0 without a hosted provider
  Overrun,       \* what a provider may charge above the estimate
  Thresholds,    \* threshold policies a human may activate
  Workers,       \* lease owners
  MaxFaults,     \* bound on the deaths of workers and the failed commits
  None

ASSUME ItemAssumption ==
  /\ IsFiniteSet(Jobs) /\ IsFiniteSet(Items) /\ Items \subseteq Nat /\ Job \in [Items -> Jobs]
  /\ Cost \in [Items -> Nat] /\ DOMAIN Key = Items
ASSUME PolicyAssumption ==
  /\ Policies \subseteq
       [enabled : BOOLEAN, daily : Nat, perAttempt : Nat, tries : Nat \ {0}]
  /\ \A p \in Policies : p.perAttempt <= p.daily
  /\ None \notin Thresholds /\ None \notin Workers /\ None \notin Items
  /\ {LastDay, MaxFaults, Overrun} \subseteq Nat

VARIABLES
  policy,       \* project_assessment_policies
  job,          \* assessment_jobs
  item,         \* assessment_job_items
  rows,         \* days with a row in assessment_daily_budgets
  cache,        \* assessment_cache_entries
  record,       \* assessments: the row of each item
  active,       \* threshold policy of the latest activation
  decisions,    \* assessment_decisions: pairs of item and threshold policy
  worker,       \* what each worker is doing: the claim it holds, if any
  day,          \* the current UTC day
  faults        \* deaths and failed commits so far

budgetVars == <<rows, reserved, charged>>
resultVars == <<cache, record, active, decisions>>
vars == <<policy, job, item, attempt, rows, reserved, charged, cache, record, active,
          decisions, worker, day, faults>>

Final == {"succeeded", "abstained", "failed", "budget_blocked", "provider_unavailable",
          "cancelled"}
Refused == {"failed", "budget_blocked", "provider_unavailable"}

ItemsOf(j) == {i \in Items : Job[i] = j}
Terminal(items, j) == {i \in ItemsOf(j) : items[i].status \in Final}
Settled(j) == Terminal(item, j) = ItemsOf(j)

(* The job row that refresh_job_counts writes from the items.              *)
StatusOf(items, j) ==
  LET with(states) == {i \in ItemsOf(j) : items[i].status \in states}
  IN IF Terminal(items, j) # ItemsOf(j)
     THEN IF Terminal(items, j) = {} THEN "running" ELSE "partial"
     ELSE IF with({"cancelled"}) = ItemsOf(j) THEN "cancelled"
     ELSE IF with(Refused) # {} THEN "partial" ELSE "completed"

Refreshed(items, j) == [job[j] EXCEPT !.done = Cardinality(Terminal(items, j)),
                                      !.status = StatusOf(items, j)]

(* finish_item, with the refresh that follows it.                          *)
FinishItem(i, status) ==
  /\ item' = [item EXCEPT ![i] = [item[i] EXCEPT !.status = status, !.owner = None,
                                                 !.lease = "none"]]
  /\ job' = [job EXCEPT ![Job[i]] = Refreshed(item', Job[i])]

NoRecord == [status |-> "none", judged |-> FALSE, cached |-> FALSE]

StoreInit ==
  /\ policy = DefaultPolicy
  /\ job = [j \in Jobs |-> [status |-> "absent", cancel |-> FALSE, done |-> 0, born |-> 0]]
  /\ item = [i \in Items |-> [status |-> "absent", tries |-> 0, owner |-> None,
                              lease |-> "none", due |-> TRUE]]
  /\ attempt = {} /\ rows = {}
  /\ reserved = [d \in Days |-> 0] /\ charged = [d \in Days |-> 0]
  /\ cache = {} /\ record = [i \in Items |-> NoRecord]
  /\ active = None /\ decisions = {}

Init ==
  /\ StoreInit
  /\ worker = [w \in Workers |-> [at |-> "loop"]]
  /\ day = 0 /\ faults = 0

-----------------------------------------------------------------------------
(* The interface.                                                          *)

NewItems(j) ==
  item' = [i \in Items |-> IF Job[i] = j THEN [item[i] EXCEPT !.status = "pending"]
                           ELSE item[i]]

(* The job and all its items in one transaction, once the selection passed *)
(* the checks of module Governance.  A replay of the key changes nothing.  *)
Enqueue(j) ==
  /\ job[j].status = "absent"
  /\ job' = [job EXCEPT ![j] =
               [job[j] EXCEPT !.status = "pending",
                              !.born = Cardinality({k \in Jobs : job[k].status # "absent"})]]
  /\ NewItems(j)
  /\ UNCHANGED <<policy, attempt, budgetVars, resultVars, worker, day, faults>>

CancelEverything(j) ==
  /\ job[j].status # "absent"
  /\ item' = [i \in Items |-> IF Job[i] = j
                              THEN [item[i] EXCEPT !.status = "cancelled"] ELSE item[i]]
  /\ job' = [job EXCEPT ![j] = [Refreshed(item', j) EXCEPT !.cancel = TRUE]]
  /\ UNCHANGED <<policy, attempt, budgetVars, resultVars, worker, day, faults>>

(* cancel_assessment_job: the pending items at once, a running one when    *)
(* its worker commits.                                                     *)
Cancel(j) ==
  /\ job[j].status # "absent"
  /\ item' = [i \in Items |-> IF Job[i] = j /\ item[i].status = "pending"
                              THEN [item[i] EXCEPT !.status = "cancelled"] ELSE item[i]]
  /\ LET open == job[j].status \in {"pending", "running", "partial"}
     IN job' = [job EXCEPT ![j] =
                  [Refreshed(item', j) EXCEPT !.cancel = @ \/ open]]
  /\ UNCHANGED <<policy, attempt, budgetVars, resultVars, worker, day, faults>>

SetPolicy(p) ==
  /\ policy # p
  /\ policy' = p
  /\ UNCHANGED <<job, item, attempt, budgetVars, resultVars, worker, day, faults>>

(* materialize_assessment_decision: one row per assessment and policy.     *)
Decide(S, p) == decisions' = decisions \cup (S \X {p})

(* What activate_threshold_policy does once its gates are passed: every    *)
(* assessment of the evaluator is decided in the transaction.              *)
Activate(p) ==
  /\ active' = p
  /\ Decide({i \in Items : record[i] # NoRecord}, p)
  /\ UNCHANGED <<policy, job, item, attempt, budgetVars, cache, record, worker, day, faults>>

-----------------------------------------------------------------------------
(* claim_next_assessment.                                                  *)

EligibleIgnoresLost(i) ==
  ~job[Job[i]].cancel /\ item[i].status = "pending" /\ item[i].due
Eligible(i) ==
  /\ ~job[Job[i]].cancel
  /\ \/ item[i].status = "pending" /\ item[i].due
     \/ item[i].status = "running" /\ item[i].lease = "over"

Older(i, k) == \/ job[Job[i]].born < job[Job[k]].born
               \/ job[Job[i]].born = job[Job[k]].born /\ i <= k

Candidate(i) == Eligible(i) /\ \A k \in Items : Eligible(k) => Older(i, k)

Cached(i) == {c \in cache : c.key = Key[i]}

(* materialize_cached_assessment, which derives no decision.               *)
Copy(i, c) ==
  /\ record' = [record EXCEPT ![i] = [status |-> c.status, judged |-> TRUE,
                                      cached |-> TRUE]]
  /\ FinishItem(i, c.status)

(* An exact result is copied without a lease.                              *)
ClaimCached(w) ==
  /\ worker[w].at = "loop"
  /\ \E i \in Items : \E c \in Cached(i) :
       Candidate(i) /\ Copy(i, c)
  /\ UNCHANGED <<policy, attempt, budgetVars, cache, active, decisions, worker, day, faults>>

ClaimExhaustedMiscounts(w) ==
  /\ worker[w].at = "loop"
  /\ \E i \in Items :
       /\ Candidate(i) /\ Cached(i) = {} /\ item[i].tries >= policy.tries
       /\ item' = [item EXCEPT ![i].status = "failed"]
  /\ UNCHANGED <<policy, job, attempt, budgetVars, resultVars, worker, day, faults>>

(* finish_without_attempt leaves the lease columns as they are.            *)
ClaimExhausted(w) ==
  /\ worker[w].at = "loop"
  /\ \E i \in Items :
       /\ Candidate(i) /\ Cached(i) = {} /\ item[i].tries >= policy.tries
       /\ item' = [item EXCEPT ![i].status = "failed"]
       /\ job' = [job EXCEPT ![Job[i]] = Refreshed(item', Job[i])]
  /\ UNCHANGED <<policy, attempt, budgetVars, resultVars, worker, day, faults>>

PreflightForgetsCharges(i) ==
  IF Cost[i] = 0 THEN "none"
  ELSE IF ~policy.enabled THEN "provider_unavailable"
  ELSE IF Cost[i] > policy.perAttempt \/ reserved[day] + Cost[i] > policy.daily
       THEN "budget_blocked" ELSE "none"

(* The statuses that keep a hosted call from being made.                   *)
Preflight(i) ==
  IF Cost[i] = 0 THEN "none"
  ELSE IF ~policy.enabled THEN "provider_unavailable"
  ELSE IF Cost[i] > policy.perAttempt
          \/ reserved[day] + charged[day] + Cost[i] > policy.daily
       THEN "budget_blocked" ELSE "none"

(* reserve_budget; the row of the day is inserted even when the            *)
(* reservation does not fit.                                               *)
ReserveBudget(i) ==
  /\ rows' = IF Cost[i] > 0 /\ policy.enabled /\ Cost[i] <= policy.perAttempt
             THEN rows \cup {day} ELSE rows
  /\ reserved' = [reserved EXCEPT ![day] = @ + IF Preflight(i) = "none" THEN Cost[i] ELSE 0]
  /\ UNCHANGED charged

Reservation(i) == IF Preflight(i) = "none" THEN Cost[i] ELSE 0

Row(i, n, r) == [item |-> i, number |-> n, status |-> "running", reserved |-> r,
                 charged |-> 0, from |-> day, to |-> day]

Lease(w, i) ==
  /\ item' = [item EXCEPT ![i] = [item[i] EXCEPT !.status = "running", !.tries = @ + 1,
                                                 !.owner = w, !.lease = "live"]]
  /\ attempt' = attempt \cup {Row(i, item[i].tries + 1, Reservation(i))}
  /\ worker' = [worker EXCEPT ![w] = [at |-> "executing", item |-> i,
                                      row |-> Row(i, item[i].tries + 1, Reservation(i)),
                                      preflight |-> Preflight(i)]]

ClaimNext(w) ==
  /\ worker[w].at = "loop"
  /\ \E i \in Items :
       /\ Candidate(i) /\ Cached(i) = {} /\ item[i].tries < policy.tries
       /\ ReserveBudget(i)
       /\ Lease(w, i)
       /\ job' = [job EXCEPT ![Job[i]].status = IF @ = "pending" THEN "running" ELSE @]
  /\ UNCHANGED <<policy, resultVars, day, faults>>

-----------------------------------------------------------------------------
(* The answer of the executor and commit_assessment_attempt.               *)

Answer(status, judged, retry, cost) ==
  [status |-> status, judged |-> judged, retry |-> retry, cost |-> cost]

(* What the provider reports, at most Overrun above the estimate.          *)
Costs(claim) == IF claim.row.reserved = 0 THEN {0}
                ELSE {claim.row.reserved, claim.row.reserved + Overrun}

(* The outcomes of a call that returned a judgement, of one whose output   *)
(* could not be used, and of one that was not carried out.                 *)
Judgements(claim) == {Answer("succeeded", TRUE, FALSE, c) : c \in Costs(claim)}
Failures(claim) == {Answer("abstained", TRUE, FALSE, claim.row.reserved),
                    Answer("failed", FALSE, FALSE, claim.row.reserved),
                    Answer("provider_unavailable", FALSE, TRUE, 0)}

(* A claim that was blocked before the call is answered without one.       *)
AnswersTo(claim) ==
  CASE claim.preflight = "budget_blocked" -> {Answer("budget_blocked", FALSE, FALSE, 0)}
    [] claim.preflight = "provider_unavailable" ->
         {Answer("provider_unavailable", TRUE, FALSE, 0)}
    [] OTHER -> Judgements(claim) \cup Failures(claim)

(* release_budget, on the row of the day of the commit.                    *)
ReleaseBudget(r, c) ==
  /\ IF day \in rows
     THEN /\ reserved' = [reserved EXCEPT ![day] = IF @ > r THEN @ - r ELSE 0]
          /\ charged' = [charged EXCEPT ![day] = @ + c]
     ELSE UNCHANGED <<reserved, charged>>
  /\ UNCHANGED rows

CloseAttempt(claim, status, c) ==
  attempt' = (attempt \ {claim.row})
               \cup {[claim.row EXCEPT !.status = status, !.charged = c, !.to = day]}

(* validate_assessment_commit.                                             *)
ValidAnswer(a) ==
  IF a.judged THEN a.status \in {"succeeded", "abstained", "provider_unavailable"}
  ELSE a.status \notin {"succeeded", "abstained"}

OwnsLease(w) == LET i == worker[w].item
                IN item[i].status = "running" /\ item[i].owner = w

CommitCancelled(w) ==
  /\ worker[w].at = "executing" /\ OwnsLease(w)
  /\ LET claim == worker[w]
     IN /\ job[Job[claim.item]].cancel
        /\ ReleaseBudget(claim.row.reserved, 0)
        /\ CloseAttempt(claim, "cancelled", 0)
        /\ FinishItem(claim.item, "cancelled")
  /\ worker' = [worker EXCEPT ![w] = [at |-> "loop"]]
  /\ UNCHANGED <<policy, resultVars, day, faults>>

(* A retryable failure with attempts left waits out its backoff.           *)
CommitRetry(w) ==
  /\ worker[w].at = "executing" /\ OwnsLease(w)
  /\ LET claim == worker[w]
     IN /\ ~job[Job[claim.item]].cancel
        /\ item[claim.item].tries < policy.tries
        /\ \E a \in AnswersTo(claim) :
             /\ ValidAnswer(a) /\ a.retry
             /\ ReleaseBudget(claim.row.reserved, a.cost)
             /\ CloseAttempt(claim, a.status, a.cost)
        /\ item' = [item EXCEPT ![claim.item] =
                      [item[claim.item] EXCEPT !.status = "pending", !.owner = None,
                                               !.lease = "none", !.due = FALSE]]
  /\ worker' = [worker EXCEPT ![w] = [at |-> "loop"]]
  /\ UNCHANGED <<policy, job, resultVars, day, faults>>

(* A judged answer of the requested model becomes the exact result for     *)
(* its key; an active threshold policy decides in the same transaction.    *)
CommitFinal(w) ==
  /\ worker[w].at = "executing" /\ OwnsLease(w)
  /\ LET claim == worker[w]
         i == claim.item
     IN /\ ~job[Job[i]].cancel
        /\ \E a \in AnswersTo(claim), sameModel \in BOOLEAN :
             /\ ValidAnswer(a) /\ ~(a.retry /\ item[i].tries < policy.tries)
             /\ ReleaseBudget(claim.row.reserved, a.cost)
             /\ CloseAttempt(claim, a.status, a.cost)
             /\ record' = [record EXCEPT ![i] = [status |-> a.status, judged |-> a.judged,
                                                 cached |-> FALSE]]
             /\ cache' = IF a.judged /\ sameModel
                         THEN (cache \ Cached(i)) \cup {[key |-> Key[i], status |-> a.status]}
                         ELSE cache
             /\ FinishItem(i, a.status)
        /\ IF active = None THEN UNCHANGED decisions ELSE Decide({i}, active)
  /\ worker' = [worker EXCEPT ![w] = [at |-> "loop"]]
  /\ UNCHANGED <<policy, active, day, faults>>

(* The commit of a worker whose lease went to another one is refused, and  *)
(* the worker drops the answer.                                            *)
CommitLate(w) ==
  /\ worker[w].at = "executing" /\ ~OwnsLease(w)
  /\ worker' = [worker EXCEPT ![w] = [at |-> "loop"]]
  /\ UNCHANGED <<policy, job, item, attempt, budgetVars, resultVars, day, faults>>

-----------------------------------------------------------------------------
(* Faults and the passing of time.                                         *)

CommitFails(w) ==
  /\ worker[w].at = "executing" /\ faults < MaxFaults
  /\ worker' = [worker EXCEPT ![w] = [at |-> "loop"]]
  /\ faults' = faults + 1
  /\ UNCHANGED <<policy, job, item, attempt, budgetVars, resultVars, day>>

(* The process of the worker ends; its claim is nowhere but in the store.  *)
Die(w) ==
  /\ worker[w].at # "dead" /\ faults < MaxFaults
  /\ \E v \in Workers \ {w} : worker[v].at # "dead"
  /\ worker' = [worker EXCEPT ![w] = [at |-> "dead"]]
  /\ faults' = faults + 1
  /\ UNCHANGED <<policy, job, item, attempt, budgetVars, resultVars, day>>

LeaseRunsOut(i) ==
  /\ item[i].status = "running" /\ item[i].lease = "live"
  /\ item' = [item EXCEPT ![i].lease = "over"]
  /\ UNCHANGED <<policy, job, attempt, budgetVars, resultVars, worker, day, faults>>

BackoffEnds(i) ==
  /\ item[i].status = "pending" /\ ~item[i].due
  /\ item' = [item EXCEPT ![i].due = TRUE]
  /\ UNCHANGED <<policy, job, attempt, budgetVars, resultVars, worker, day, faults>>

NextDay ==
  /\ day < LastDay
  /\ day' = day + 1
  /\ UNCHANGED <<policy, job, item, attempt, budgetVars, resultVars, worker, faults>>

Claim(w) == ClaimCached(w) \/ ClaimExhausted(w) \/ ClaimNext(w)
Commit(w) == CommitCancelled(w) \/ CommitRetry(w) \/ CommitFinal(w) \/ CommitLate(w)

Next ==
  \/ \E j \in Jobs : Enqueue(j) \/ Cancel(j)
  \/ \E p \in Policies : SetPolicy(p)
  \/ \E p \in Thresholds : Activate(p)
  \/ \E w \in Workers : Claim(w) \/ Commit(w) \/ CommitFails(w) \/ Die(w)
  \/ \E i \in Items : LeaseRunsOut(i) \/ BackoffEnds(i)
  \/ NextDay

Spec == Init /\ [][Next]_vars

(* A worker polls until shutdown and every provider call has a timeout;    *)
(* leases and backoffs are deadlines that pass.                            *)
Fairness ==
  /\ \A w \in Workers : WF_vars(Claim(w) \/ Commit(w))
  /\ \A i \in Items : WF_vars(LeaseRunsOut(i) \/ BackoffEnds(i))

FairSpec == Spec /\ Fairness

-----------------------------------------------------------------------------
(* Properties.                                                             *)

JobRows == [status : {"absent", "pending", "running", "partial", "completed", "cancelled"},
            cancel : BOOLEAN, done : Nat, born : Nat]
ItemRows == [status : {"absent", "pending", "running"} \cup Final, tries : Nat,
             owner : Workers \cup {None}, lease : {"none", "live", "over"}, due : BOOLEAN]
Rows == [item : Items, number : Nat, status : {"running"} \cup Final, reserved : Nat,
         charged : Nat, from : Days, to : Days]
Records == [status : Final \cup {"none"}, judged : BOOLEAN, cached : BOOLEAN]
Claims == [at : {"executing"}, item : Items, row : Rows, preflight : {"none"} \cup Refused]

TypeOK ==
  /\ policy \in Policies \cup {DefaultPolicy}
  /\ job \in [Jobs -> JobRows] /\ item \in [Items -> ItemRows] /\ attempt \subseteq Rows
  /\ rows \subseteq Days /\ reserved \in [Days -> Nat] /\ charged \in [Days -> Nat]
  /\ cache \subseteq [key : {Key[i] : i \in Items}, status : Final]
  /\ record \in [Items -> Records]
  /\ active \in Thresholds \cup {None} /\ decisions \subseteq Items \X Thresholds
  /\ worker \in [Workers -> [at : {"loop", "dead"}] \cup Claims]
  /\ day \in Days /\ faults \in 0..MaxFaults

(* An item ends with exactly the result it was given: the assessment row   *)
(* of an item has the item's final status, and an item ends without one    *)
(* only because its job was cancelled or its attempts were used up.        *)
RecordsMatchItems ==
  \A i \in Items :
    /\ record[i] # NoRecord => record[i].status = item[i].status /\ item[i].status \in Final
    /\ record[i] = NoRecord /\ item[i].status \in Final => item[i].status \in {"cancelled", "failed"}
    /\ item[i].status = "cancelled" => record[i] = NoRecord /\ job[Job[i]].cancel

(* A copied assessment has a computed one with the same key and status.    *)
CopiesHaveAnOriginal ==
  \A i \in Items : record[i].cached =>
    \E k \in Items : /\ Key[k] = Key[i] /\ ~record[k].cached
                     /\ record[k].judged /\ record[k].status = record[i].status

(* The counters and the status of a job always agree with its items, so    *)
(* that a job never shows as settled while an item of it may still call    *)
(* the provider.                                                           *)
JobsMatchItems ==
  \A j \in Jobs :
    \/ /\ job[j].status = "absent" /\ job[j].done = 0
       /\ \A i \in ItemsOf(j) : item[i].status = "absent"
    \/ /\ job[j].status = "pending" /\ job[j].done = 0
       /\ \A i \in ItemsOf(j) : item[i].status = "pending"
    \/ job[j].status # "absent" /\ job[j] = Refreshed(item, j)

(* Once a threshold policy is active every assessment of its evaluator has *)
(* a decision under it, whichever of the two came first, but for the       *)
(* copies that the cache made since.                                       *)
DecisionsFollowPolicy ==
  /\ \A d \in decisions : record[d[1]] # NoRecord
  /\ \A i \in Items :
       record[i] # NoRecord /\ active # None /\ <<i, active>> \notin decisions
         => record[i].cached

AssessmentsAreTrue ==
  /\ TypeOK /\ RecordsMatchItems /\ CopiesHaveAnOriginal
  /\ JobsMatchItems /\ DecisionsFollowPolicy

(* Results are never taken back: a final item keeps its status and its     *)
(* assessment, late answers included; decisions are only added.            *)
ResultsAreFinal ==
  [][/\ \A i \in Items :
          /\ item[i].status \in Final => item'[i].status = item[i].status
          /\ record[i] # NoRecord => record'[i] = record[i]
     /\ decisions \subseteq decisions']_vars

(* The item was left running by a worker that will not commit it, and      *)
(* nothing claims the items of a cancelled job.                            *)
Orphaned(j) ==
  job[j].cancel /\ \E i \in ItemsOf(j) :
    /\ item[i].status = "running"
    /\ \A w \in Workers : worker[w].at = "executing" => worker[w].item # i \/ item[i].owner # w

(* Every job settles, whatever fails, unless it was cancelled while a      *)
(* worker that will not answer held one of its items.                      *)
JobsSettle ==
  \A j \in Jobs : []<>(job[j].status # "absent" => Settled(j) \/ Orphaned(j))

=============================================================================

---------------------------- MODULE AnalysisJobs ----------------------------
(***************************************************************************)
(* The analysis of finalized traces: the analysis_status column of         *)
(* logical_traces as a job queue, the immutable analysis_runs, the pointer *)
(* to the active run of a trace, and the one worker thread of              *)
(* perseval-service that serves the queue through the writer.              *)
(*                                                                         *)
(* The worker waits for the writer's answer to every command and the       *)
(* writer runs one command at a time under the control lock, so a command  *)
(* is one step; what can come between a worker's commands is a delivery    *)
(* that reopens the trace, a lifecycle sweep, or the end of the process.   *)
(* mark_analysis_started, fail_analysis and the sweep (advance_lifecycle)  *)
(* run outside a transaction: their first statement may be durable and the *)
(* rest lost.                                                              *)
(*                                                                         *)
(* Deliveries and sweeps are those of module Projection, reduced to what   *)
(* they do to a trace row's revision, finalization and analysis status.    *)
(***************************************************************************)
EXTENDS Naturals, FiniteSets

CONSTANTS
  Traces,        \* logical trace identities
  Definitions,   \* identities of a complete analysis implementation
  Degraded,      \* definition recorded when the hosted judge did not answer
  BatchLimit,    \* requests per poll (8 in the worker loop)
  MaxRevision,   \* bound on reopening a trace
  MaxRestarts,   \* bound on orderly restarts
  MaxFaults      \* bound on crashes and failed writer commands

ASSUME AnalysisAssumption ==
  /\ Definitions # {}
  /\ Degraded \in [Definitions -> Definitions]
  /\ BatchLimit \in Nat \ {0}
  /\ MaxRevision \in Nat
  /\ MaxRestarts \in Nat
  /\ MaxFaults \in Nat

VARIABLES
  rows,        \* logical_traces: revision, finalized or not, analysis_status
  older,       \* <<s, t>>: s was committed to before t (last_committed_unix_ms)
  runs,        \* analysis_runs: immutable results by trace, revision, definition
  active,      \* active_analysis_runs: at most one pointer for a trace
  failureLog,  \* analysis_failures: <<trace, revision>>
  announced,   \* analysis_status in the newest delta of each trace
  definition,  \* what this process expects results to be made with
  phase,       \* worker: "starting" until stale results are queued, then "polling"
  batch,       \* worker: requests of the last poll not yet tried
  job,         \* worker: the request under analysis, at most one
  dropped,     \* <<trace, revision>> whose job ended without any status write
  muted,       \* traces whose last status write was not announced
  restarts, faults

store == <<rows, older, runs, active, failureLog, announced>>
worker == <<definition, phase, batch, job>>
vars == <<rows, older, runs, active, failureLog, announced,
          definition, phase, batch, job, dropped, muted, restarts, faults>>

-----------------------------------------------------------------------------
Statuses == {"not_ready", "pending", "analyzing", "reanalyzing", "ready", "failed"}

Requests == [trace : Traces, revision : Nat]
Pointers == [revision : Nat, definition : Definitions]
Runs == [trace : Traces, revision : Nat, definition : Definitions]

(* agrees: the findings of the result are exactly those of its             *)
(* deterministic detection report.                                         *)
Jobs == [trace : Traces, revision : Nat, stage : {"reading", "result", "error"},
         definition : Definitions, agrees : BOOLEAN]

Absent == [revision |-> 0, finalized |-> FALSE, status |-> "not_ready"]

Current(r) == rows[r.trace].revision = r.revision

SetStatus(t, s) == rows' = [rows EXCEPT ![t].status = s]
AnnounceBefore(t) ==
  /\ announced' = [announced EXCEPT ![t] = rows[t].status]
  /\ muted' = muted \ {t}
Announce(t) ==
  /\ announced' = [announced EXCEPT ![t] = rows'[t].status]
  /\ muted' = muted \ {t}
LoseDelta(t) ==
  /\ announced' = announced
  /\ muted' = muted \cup {t}

Fault == faults < MaxFaults /\ faults' = faults + 1

-----------------------------------------------------------------------------
(* What Projection does to the columns used here.                          *)

(* ensure_logical_trace: a new row is not_ready, a finalized trace gets a  *)
(* new revision that is to be reanalyzed, an open one keeps its status.    *)
DeliveredKeepsStatus(t) ==
  IF rows[t].revision = 0 THEN [Absent EXCEPT !.revision = 1]
  ELSE IF rows[t].finalized
  THEN [rows[t] EXCEPT !.revision = @ + 1, !.finalized = FALSE]
  ELSE rows[t]
Delivered(t) ==
  IF rows[t].revision = 0 THEN [Absent EXCEPT !.revision = 1]
  ELSE IF rows[t].finalized
  THEN [revision |-> rows[t].revision + 1, finalized |-> FALSE, status |-> "reanalyzing"]
  ELSE rows[t]

Deliver(t) ==
  /\ Delivered(t).revision <= MaxRevision
  /\ rows' = [rows EXCEPT ![t] = Delivered(t)]
  /\ older' = {p \in older : t \notin {p[1], p[2]}}
              \cup {<<s, t>> : s \in {x \in Traces \ {t} : rows[x].revision > 0}}
  /\ Announce(t)
  /\ UNCHANGED <<runs, active, failureLog, worker, dropped, restarts, faults>>

(* advance_lifecycle, at the end of the grace period: the trace row, then  *)
(* the revision row, then the delta, each a commit of its own.             *)
FinalizedStatus(t) == IF rows[t].status = "reanalyzing" THEN "reanalyzing" ELSE "pending"

FinalizeRow(t) ==
  /\ rows[t].revision > 0 /\ ~rows[t].finalized
  /\ rows' = [rows EXCEPT ![t] = [@ EXCEPT !.finalized = TRUE, !.status = FinalizedStatus(t)]]

Finalize(t) ==
  /\ FinalizeRow(t)
  /\ Announce(t)
  /\ UNCHANGED <<older, runs, active, failureLog, worker, dropped, restarts, faults>>

(* A later statement fails: the trace is finalized and never swept again,  *)
(* nobody is told.                                                         *)
FinalizeBreaks(t) ==
  /\ FinalizeRow(t)
  /\ Fault
  /\ LoseDelta(t)
  /\ UNCHANGED <<older, runs, active, failureLog, worker, dropped, restarts>>

-----------------------------------------------------------------------------
(* enqueue_stale_analyses: one transaction over the finalized traces whose *)
(* active result, at the current revision, was made with another           *)
(* definition.                                                             *)
Stale(t) ==
  /\ rows[t].finalized
  /\ rows[t].status \in {"ready", "failed"}
  /\ \E a \in active[t] : a.revision = rows[t].revision /\ a.definition # definition

EnqueueStale ==
  /\ phase = "starting"
  /\ rows' = [t \in Traces |-> IF Stale(t) THEN [rows[t] EXCEPT !.status = "reanalyzing"]
                               ELSE rows[t]]
  /\ announced' = [t \in Traces |-> IF Stale(t) THEN "reanalyzing" ELSE announced[t]]
  /\ muted' = {t \in muted : ~Stale(t)}
  /\ phase' = "polling"
  /\ UNCHANGED <<older, runs, active, failureLog, definition, batch, job, dropped, restarts,
                 faults>>

(* pending_analysis_requests: the least recently committed to, at most     *)
(* BatchLimit.  The order inside a batch is left open.                     *)
Waiting == {t \in Traces : rows[t].finalized /\ rows[t].status \in {"pending", "reanalyzing"}}
NextBatch ==
  {[trace |-> t, revision |-> rows[t].revision] :
     t \in {x \in Waiting : Cardinality({s \in Waiting : <<s, x>> \in older}) < BatchLimit}}

Poll ==
  /\ phase = "polling" /\ batch = {} /\ job = {}
  /\ Waiting # {}
  /\ batch' = NextBatch
  /\ UNCHANGED <<store, definition, phase, job, dropped, muted, restarts, faults>>

(* mark_analysis_started.                                                  *)
MayStartPendingOnly(r) ==
  /\ Current(r)
  /\ rows[r.trace].finalized
  /\ rows[r.trace].status = "pending"
MayStart(r) ==
  /\ Current(r)
  /\ rows[r.trace].finalized
  /\ rows[r.trace].status \in {"pending", "reanalyzing"}

StartedStatus(t) == IF rows[t].status = "reanalyzing" THEN "reanalyzing" ELSE "analyzing"

MarkStarted(r) ==
  /\ r \in batch /\ job = {}
  /\ MayStart(r)
  /\ SetStatus(r.trace, StartedStatus(r.trace))
  /\ Announce(r.trace)
  /\ batch' = batch \ {r}
  /\ job' = {[trace |-> r.trace, revision |-> r.revision, stage |-> "reading",
              definition |-> definition, agrees |-> TRUE]}
  /\ UNCHANGED <<older, runs, active, failureLog, definition, phase, dropped, restarts, faults>>

(* The trace moved on since the poll.                                      *)
SkipRequest(r) ==
  /\ r \in batch /\ job = {}
  /\ ~MayStart(r)
  /\ batch' = batch \ {r}
  /\ UNCHANGED <<store, definition, phase, job, dropped, muted, restarts, faults>>

(* The delta fails after the status update went through: the worker sees   *)
(* an error and goes on with the next request.                             *)
MarkBreaks(r) ==
  /\ r \in batch /\ job = {}
  /\ MayStart(r)
  /\ Fault
  /\ SetStatus(r.trace, StartedStatus(r.trace))
  /\ LoseDelta(r.trace)
  /\ batch' = batch \ {r}
  /\ dropped' = dropped \cup {<<r.trace, r.revision>>}
  /\ UNCHANGED <<older, runs, active, failureLog, definition, phase, job, restarts>>

(* load_behavior_input, normalization and detection, outside the writer.   *)
(* The input may be unreadable.  When the hosted judge is part of the      *)
(* definition it may fail (the result then claims the deterministic        *)
(* definition only), or answer, and add findings of its own.               *)
Hosted == Degraded[definition] # definition
Outcomes(j) ==
  {[j EXCEPT !.stage = "error"],
   [j EXCEPT !.stage = "result", !.definition = Degraded[definition]]}
  \cup IF Hosted
       THEN {[j EXCEPT !.stage = "result", !.agrees = a] : a \in BOOLEAN}
       ELSE {}

Analyze ==
  \E j \in job :
    /\ j.stage = "reading"
    /\ \E o \in Outcomes(j) : job' = {o}
    /\ UNCHANGED <<store, definition, phase, batch, dropped, muted, restarts, faults>>

(* commit_analysis: one transaction that adds the immutable run, switches  *)
(* the active pointer and the status.  It refuses findings that are not    *)
(* those of the detection report, and a result whose revision is not the   *)
(* current one any more.                                                   *)
AcceptableAnyRevision(j) == j.stage = "result" /\ j.agrees
Acceptable(j) == j.stage = "result" /\ j.agrees /\ Current(j)

CommitAnalysis ==
  \E j \in job :
    /\ Acceptable(j)
    /\ runs' = runs \cup {[trace |-> j.trace, revision |-> j.revision,
                           definition |-> j.definition]}
    /\ active' = [active EXCEPT ![j.trace] =
                    {[revision |-> j.revision, definition |-> j.definition]}]
    /\ rows' = IF Current(j) THEN [rows EXCEPT ![j.trace].status = "ready"] ELSE rows
    /\ Announce(j.trace)
    /\ job' = {}
    /\ UNCHANGED <<older, failureLog, definition, phase, batch, dropped, restarts, faults>>

(* A result the writer refuses, or fails to commit, is discarded: the      *)
(* worker reports a failure only when the analysis itself failed.          *)
CommitRefused ==
  \E j \in job :
    /\ j.stage = "result"
    /\ \/ ~Acceptable(j) /\ UNCHANGED faults
       \/ Fault
    /\ job' = {}
    /\ dropped' = dropped \cup {<<j.trace, j.revision>>}
    /\ UNCHANGED <<store, definition, phase, batch, muted, restarts>>

(* fail_analysis: guarded by the revision only; status, failure row and    *)
(* delta are separate statements, the last two may be lost.                *)
FailAnalysis ==
  \E j \in job :
    /\ j.stage = "error"
    /\ job' = {}
    /\ IF Current(j)
       THEN /\ SetStatus(j.trace, "failed")
            /\ failureLog' = failureLog \cup {<<j.trace, j.revision>>}
            /\ Announce(j.trace)
       ELSE UNCHANGED <<rows, failureLog, announced, muted>>
    /\ UNCHANGED <<older, runs, active, definition, phase, batch, dropped, restarts, faults>>

FailBreaks ==
  \E j \in job :
    /\ j.stage = "error"
    /\ Fault
    /\ job' = {}
    /\ \/ /\ Current(j)
          /\ SetStatus(j.trace, "failed")
          /\ failureLog' \in {failureLog, failureLog \cup {<<j.trace, j.revision>>}}
          /\ LoseDelta(j.trace)
          /\ UNCHANGED dropped
       \/ /\ dropped' = dropped \cup {<<j.trace, j.revision>>}
          /\ UNCHANGED <<rows, failureLog, announced, muted>>
    /\ UNCHANGED <<older, runs, active, definition, phase, batch, restarts>>

(* A new process, possibly with another configuration or version.  Opening *)
(* the workspace leaves the status column as it is.                        *)
NewProcess ==
  /\ definition' \in Definitions
  /\ phase' = "starting"
  /\ batch' = {}
  /\ job' = {}
  /\ UNCHANGED <<store, muted>>

(* Shutdown joins the worker between two requests before the writer stops. *)
Restart ==
  /\ job = {}
  /\ restarts < MaxRestarts
  /\ restarts' = restarts + 1
  /\ NewProcess
  /\ UNCHANGED <<dropped, faults>>

Crash ==
  /\ Fault
  /\ dropped' = dropped \cup {<<j.trace, j.revision>> : j \in job}
  /\ NewProcess
  /\ UNCHANGED restarts

-----------------------------------------------------------------------------
Init ==
  /\ rows = [t \in Traces |-> Absent]
  /\ older = {}
  /\ runs = {}
  /\ active = [t \in Traces |-> {}]
  /\ failureLog = {}
  /\ announced = [t \in Traces |-> "not_ready"]
  /\ definition \in Definitions
  /\ phase = "starting"
  /\ batch = {}
  /\ job = {}
  /\ dropped = {}
  /\ muted = {}
  /\ restarts = 0
  /\ faults = 0

Try == \E r \in batch : MarkStarted(r) \/ SkipRequest(r)
Finish == CommitAnalysis \/ CommitRefused \/ FailAnalysis

Next ==
  \/ \E t \in Traces : Deliver(t) \/ Finalize(t) \/ FinalizeBreaks(t)
  \/ EnqueueStale
  \/ Poll
  \/ Try
  \/ \E r \in batch : MarkBreaks(r)
  \/ Analyze
  \/ Finish
  \/ FailBreaks
  \/ Restart
  \/ Crash

Spec == Init /\ [][Next]_vars

(* The worker loop never stops between two steps while the process lives.  *)
Fairness ==
  /\ WF_vars(EnqueueStale)
  /\ WF_vars(Poll)
  /\ WF_vars(Try)
  /\ WF_vars(Analyze)
  /\ WF_vars(Finish)

FairSpec == Spec /\ Fairness

-----------------------------------------------------------------------------
(* Properties.                                                             *)

TypeOK ==
  /\ rows \in [Traces -> [revision : Nat, finalized : BOOLEAN, status : Statuses]]
  /\ older \subseteq Traces \X Traces
  /\ runs \subseteq Runs
  /\ active \in [Traces -> SUBSET Pointers]
  /\ failureLog \subseteq Traces \X Nat
  /\ announced \in [Traces -> Statuses]
  /\ definition \in Definitions
  /\ phase \in {"starting", "polling"}
  /\ batch \subseteq Requests
  /\ job \subseteq Jobs
  /\ dropped \subseteq Traces \X Nat
  /\ muted \subseteq Traces
  /\ restarts \in 0..MaxRestarts
  /\ faults \in 0..MaxFaults

Sealed(t, r) == r \in 1..rows[t].revision /\ (r < rows[t].revision \/ rows[t].finalized)

(* KNOWN_LIMITATIONS: "A trace is analyzed only after its idle and         *)
(* finalization windows complete".  Every run ever stored, and every job   *)
(* under way, is about a sealed revision: whatever is reopened while the   *)
(* worker reads, no result describes rows that may still change.           *)
OnlySealedAnalyzed ==
  /\ \A x \in runs : Sealed(x.trace, x.revision)
  /\ \A j \in job : Sealed(j.trace, j.revision)

(* A trace shown as ready has one active run, of its current revision, the *)
(* revision is finalized and the run is stored.                            *)
ReadyIsCurrent ==
  \A t \in Traces : rows[t].status = "ready" =>
    /\ rows[t].finalized
    /\ \E a \in active[t] :
         /\ active[t] = {a}
         /\ a.revision = rows[t].revision
         /\ [trace |-> t, revision |-> a.revision, definition |-> a.definition] \in runs

(* enqueue_stale_analyses: "the old immutable result remains active and    *)
(* queryable until commit_analysis switches the active pointer".  No step  *)
(* takes a trace's result away, a switch is to a stored result of the      *)
(* revision that is current, and stored results stay.                      *)
ActiveUntilReplaced ==
  [][/\ runs \subseteq runs'
     /\ \A t \in Traces : active'[t] # active[t] =>
          \E a \in active'[t] :
            /\ a.revision = rows[t].revision
            /\ rows'[t].status = "ready"
            /\ [trace |-> t, revision |-> a.revision, definition |-> a.definition] \in runs']_vars

(* Once stale results are queued, nothing is shown as ready that was made  *)
(* by another implementation than the running one, at full strength or     *)
(* without the hosted judge, across restarts with other configurations.    *)
ReadyIsUpToDate ==
  phase = "polling" =>
    \A t \in Traces : rows[t].status = "ready" =>
      \A a \in active[t] : a.definition \in {definition, Degraded[definition]}

(* A trace is shown as analyzing or waits only where something will move   *)
(* it on: the worker has it, the queue offers it, or its job was dropped   *)
(* by a fault or a refused result.                                         *)
AnalyzingHasWorker ==
  \A t \in Traces : rows[t].status = "analyzing" =>
    \/ <<t, rows[t].revision>> \in dropped
    \/ \E j \in job : j.trace = t /\ Current(j)

(* A trace that had a result before goes on being reanalyzing until the    *)
(* next one: readers that show the old result for ready and reanalyzing    *)
(* traces never see a trace with a result as waiting for its first.        *)
ResultStaysListed ==
  \A t \in Traces : active[t] # {} => rows[t].status \in {"ready", "reanalyzing", "failed"}

(* What the workspace shows of an analysis is true of the rows it shows,   *)
(* of their revision and of the running implementation, whatever was       *)
(* reopened, refused, restarted or retried meanwhile.                      *)
AnalysesAreTrue ==
  OnlySealedAnalyzed /\ ReadyIsCurrent /\ ReadyIsUpToDate /\ ResultStaysListed

(* No row of the queue lies about its result or waits for nobody.          *)
QueueIsTrue == TypeOK /\ AnalysesAreTrue /\ AnalyzingHasWorker

(* Followers of the delta stream know the status of every trace, and a     *)
(* failed analysis has its explanation, unless a fault cut the last write  *)
(* of the status short, be it a worker's command or the sweep: whatever    *)
(* announces the trace next makes up for it.                               *)
StatusIsAnnounced ==
  \A t \in Traces \ muted :
    /\ announced[t] = rows[t].status
    /\ rows[t].status = "failed" => <<t, rows[t].revision>> \in failureLog

Settled(t) == rows[t].status \in {"ready", "failed"}
Stranded(t) == rows[t].status = "analyzing" /\ <<t, rows[t].revision>> \in dropped

(* No finalized trace stays short of being ready or failed, through        *)
(* paging, stale requests, restarts and retries of faulty commits, unless  *)
(* a fault stranded it.                                                    *)
FinalizedSettles ==
  \A t \in Traces : []<>(rows[t].finalized => Settled(t) \/ Stranded(t))

(* README: "Finalized runs then become available for failure grouping,     *)
(* comparison, and eval generation."                                       *)
FinalizedBecomesAvailable ==
  \A t \in Traces : []<>(rows[t].finalized => Settled(t))

(* README: "Hosted analysis is additive. [...] a missing key or provider   *)
(* failure leaves deterministic analysis usable."  An analysis that went   *)
(* through, on a revision that is still current and without any fault,     *)
(* ends with the trace ready.                                              *)
HostedIsAdditive ==
  [][\A j \in job :
       (/\ j.stage = "result" /\ Current(j)
        /\ job' = {} /\ faults' = faults)
       => rows'[j.trace].status = "ready"]_vars

=============================================================================

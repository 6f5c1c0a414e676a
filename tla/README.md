# A TLA+ verification of Perseval

Perseval is a desktop workbench for agent traces. It receives OTLP spans over
HTTP, journals and projects them into a local workspace, analyses each trace
once it has been quiet long enough, groups the failures it finds, has them
judged by models under a budget, and lets people review them and turn them into
eval cases. This directory holds TLA+ modules translated from the Rust sources,
the TLC configurations that check them on small instances, and proofs of their
main properties for every value of the constants. `PROJECT.json` maps every
definition to the lines it stands for, and lists the hazards of the code with
the properties that cover each.

Paths below are relative to the repository; `store/` is
`crates/perseval-store/src/`, `service/` is `crates/perseval-service/src/`.

## 1. The system and its parts

| Component | State it keeps | Operations | Interacts with |
|---|---|---|---|
| Ingest journal, projection and lifecycle sweep (`store/workspace/ingest.rs`, `projection.rs`, `read.rs`) | SQLite journal, trace, revision and delta rows; DuckDB span rows; content-addressed blobs | journal a batch, project a page, sweep, replay on open | called by the writer; writes the deltas the hub publishes |
| Ingest writer and admission (`service/live.rs`, `live/writer.rs`) | admission counters, command channel, microbatch, retry state | submit, command, microbatch, retry, shutdown | every other thread sends it commands |
| Delta stream (`live.rs`, `read.rs`, the failure inbox of the app) | bounded channel per subscriber, outbox table | subscribe, publish, prune, resync | interface models |
| Analysis jobs (`service/analysis.rs`, `store/workspace/analysis/runtime.rs`) | analysis status of each trace, immutable runs, active pointer, failures | queue stale results, poll, mark, judge, commit, fail | one worker thread, through the writer |
| Cohort worker (`analysis.rs`, `runtime/cohorts.rs`) | request queue with a rebuild flag, models and assignments | assign, rebuild | told by the analysis worker |
| Trace topology (`service/topology.rs`, `store/workspace/topology.rs`) | topology jobs and chunks, live indexes with epochs | claim, build, commit a chunk, fail, recover, read a page | own worker thread, interface reads |
| Candidate jobs and eval batches (`jobs.rs`, `analysis/evals.rs`) | previews, generation jobs, eval cases | preview, queue, execute, cancel, retry | candidate worker, writer |
| Learned assessments (`assessments.rs` in both crates) | jobs, items, leases, attempts, cache, budget, decisions | enqueue, claim, commit, cancel, activate | own workers, model providers |
| Agent context, taxonomy, quality checks, runs (`context.rs`, `taxonomy.rs`, settings and studio screens) | snapshots, drafts, releases, bindings, proposals, checks | draft, activate, bind, back-fill, publish, preview, start | bound at finalization, used by assessments |
| Human reviews and calibration (`reviews.rs`) | queues, tasks, answers, adjudications, releases, policies, reports | build, assign, submit, correct, adjudicate, fit, freeze, report | reads assessments |
| MCP server (`perseval-mcp`, its socket and stdio executable) | the socket, sessions, cursors | serve, proxy, list page by page | opens the workspace or talks to who has it |
| Desktop application (`apps/perseval-app`) | editors, navigation, saved state, failure inbox, investigation, model settings | open, close, pin, switch project, restart; load, select, review; install | reads on background threads, commands to the writer |
| Cohort comparison, live product surface, OTLP decoding, local model runtime, benchmark tool | none that several actors change | | see section 6 |

What is hard here, and what correctness means:

* **Two databases and a directory of blobs, no common transaction.** A
  projection commits DuckDB, then SQLite; a topology commits chunks to one and
  the job to the other. After a failure between the two, summaries, revisions,
  deltas and the journal must come to agree again.
* **A trace that is never over for good.** A late span reopens a finalized
  trace under a new revision while an analysis of the old one is in flight.
  Sealed revisions must not change; a result becomes active only for the
  current, sealed revision.
* **One writer, many producers, bounded channels that point at each other.**
  Answers must be true, budgets must not leak, nobody waits in a circle, and
  shutdown stops producers before the writer.
* **Status columns used as queues, leases and budgets.** Crashes, retries,
  cancels and late answers must not lose or duplicate work, nor change a result.
* **Answers out of order.** Subscribers overflow and resync; screens ask again
  before the last answer came; an agent pages through a workspace that changes.
* **Rules over time.** A reviewer must not have seen what he judges, a run must
  start as it was previewed, a calibration must not be tested on what it was
  fitted to, however the steps of several people interleave.

## 2. The modules

| Module | Models | Used by |
|---|---|---|
| `Projection` | journal, blobs, page projection, lifecycle sweep, crash and reopen | `MCProjection`, `ProjectionProofs` |
| `FinalizedRevisions` | abstract: a trace is a list of sealed revisions and a draft | refined by `Projection` |
| `McpEndpoint` | who serves a workspace to agents: socket, proxy, stdio process | `McpServer` |
| `McpSession` | handshake, cursors and page walks of one agent | `McpServer`, `MCMcp` |
| `McpServer` | the two side by side | `MCProjection`, `ProjectionProofs` |
| `AnalysisJobs` | the analysis queue, its worker, results and the active pointer | `MCWorkspaceJobs`, `WorkspaceProofs` |
| `EvalCases` | abstract: one case per finding, final decisions | refined by `EvalBatches` |
| `EvalBatches` | generation jobs: queue, execute, cancel, retry, review | `MCWorkspaceJobs`, `WorkspaceProofs` |
| `WriterQueue` | admission, command channel, writer loop, candidate channel, shutdown | `MCWriterQueue`, `WriterProofs` |
| `DeltaStream` | delta log, hub, subscriber channels, the failure inbox that follows | `MCProjection`, `DesktopProofs` |
| `DailyBudget` | the attempts and the rows of the daily budget, and what they have to agree in | `Assessments`, `MCGovernance` |
| `Assessments` | jobs, items, leases, attempts, budget, cache, records, decisions | `MCAssessments`, `MCGovernance`, `AssessmentProofs` |
| `Governance` | agent specifications, bindings, taxonomy, checks, preview and start of runs | `MCGovernance`, `GovernanceProofs` |
| `Reviews` | queues, blind answers, adjudication, calibration releases | `MCReviews`, `ReviewProofs` |
| `SpanTopology` | the layout algorithm: depths, order and pages of a tree | `Topology` |
| `Topology` | chunked two-store build, live indexes, readers | `MCDerived`, `DerivedProofs` |
| `CohortQueue` | requests, rebuilds and models of the cohort worker | `MCDerived`, `DerivedProofs` |
| `Workbench` | editors, projects, navigation, saved state | `MCDesktop`, `DesktopProofs` |
| `Investigation` | a failure group, its occurrences, evidence, full trace, candidates | `MCDesktop`, `DesktopProofs` |
| `ModelInstall` | catalog, download, publication and adoption of a local model | `MCDesktop`, `DesktopProofs` |
| `*Proofs` | theorems about the modules they extend | |
| `MC*` | values of the constants; sums of modules for one run | |

`MCProjection`, `MCWorkspaceJobs`, `MCGovernance`, `MCDerived` and `MCDesktop`
are *sums*: a variable `part`, fixed by the initial state, says which of several
modules moves, the variables of the others keep their initial values. A
behaviour of the sum is one of a single module, so each property means what it
means for its module alone, and one run asks the questions of several parts that
share no state. Deadlock is off in all configurations because every one has a
part that stops, by a bound or by the end of the process; that nobody waits for
ever is stated as liveness instead.

Several properties are conjunctions of named parts:
`JournalIsTrue` = `TypeOK`, `AckedIsDurable`, `ProjectedInOrder`;
`StoreIsTrue` = `StoreShowsTruth` (versions, summaries, newest upserts) and
`ControlIsAnnounced` (revision rows, deltas);
`AgentsAreServed` = `EndpointIsSound`, `SessionIsSound`;
`QueueIsTrue` (AnalysisJobs);
`JobsAreTrue` = `EvalTypeOK`, `OutcomesAreTrue`, `OnlyPreviewed`, `FinalStatusIsTrue`;
`QueueIsSound` = `TypeOK`, `BudgetIsExact` (of the admission counters);
`WriterIsTrue` = `AnswersAreTrue`, `WriterOutlivesWorkers`;
`InboxIsTrue` = `StreamIsComplete`, `ViewMatchesFilter`;
`StepsAreExact` = `JobsAreFresh`, `BackfillsAreExact`;
`TreesAreTrue` = `TopologyIsSound` (with `ReadyIsProjected`, `IndexFollowsRows`), `PagesAreTrue`;
`EditorsStay` = `ProjectsStayApart`, `RestartKeepsWork`.

### Projection

The variables are the durable tables (`journal`, `logical`, `revisions`,
`announced`, `applied`, `spans`, `blobs`) and what the writer thread holds
between two commits (`ingesting`, `page`, `staged`, `toRevise`, `toAnnounce`).
`PutBlobs` and `CommitJournal` are the halves of `journal_batch`;
`CommitAnalytics` and `CommitControl` those of `project_pending_page`;
`SweepTraceRow`, `SweepRevisionRow` and `SweepDelta` the three autocommitted
statements of `advance_lifecycle`. The algorithms are operators: `Changes` (skip
by content hash), `NewRows` (versions and the current flag),
`IncrementalSummary` (with the reload after a boundary moved inwards),
`FullSummary` (when a page is reconciled). Everything runs on one thread under
one lock, so only `Interrupt` comes between two commits: an error return and a
crash with reopening leave the same durable state.
Abstracted: contents are reduced to status and boundaries, payloads are a few
span sequences, a sweep may advance any open trace at any time, and where the
span and byte limits cut a page is left open.

### McpEndpoint and McpSession

`owner` is the process that has DuckDB open, `socket` who bound the path, `app`
and `agent` the step of each process from start to end, crashes included.
`listing` is what the store has for each query, `sequence` the latest commit
sequence, `call` the request being handled with what it has read so far,
`cursors` what the agent was given. `list_runs` reads its count before its rows,
each under a lock of its own; every tool reads the sequence before the rows.
The get tools are single reads and left out, as are a second `initialize`
(refused) and an unsupported version (ends the session).
What the models show of the code, beyond the finding below: some changes
(projects, dispositions, cohort rebuilds, the first statement of a sweep) have no
sequence, so a walk over them may mix states (`spoilt`); with `sort` other than
the order of the runs, or with overlapping runs, `list_sessions` drops sessions
from every page, because it takes one run more than it shows, groups and only
then cuts; with the largest limit the rest is never listed. The scope is
called half-open in `input.rs`, the store includes its end. A stand-alone MCP
process keeps the application from starting; a client that connects between the
application's open and its bind exits with an error.

### AnalysisJobs

`rows` is the part of `logical_traces` the queue lives in, `runs` and `active`
are `analysis_runs` and `active_analysis_runs`, `batch` and `job` the worker's
local variables. One action per writer command (`EnqueueStale`, `Poll`,
`MarkStarted`, `CommitAnalysis`, `FailAnalysis`), one per way a command may
fail (`MarkBreaks`, `CommitRefused`, `FailBreaks`), `Deliver` and `Finalize`
for what ingest does to the same rows, `Restart` and `Crash` for processes, each
possibly with another analysis definition. The sweep's trace row, revision row
and delta are three commits of their own (`read.rs:573-603`): in
`FinalizeBreaks` an error or a crash leaves the trace finalized and pending with
nobody told, as `MarkBreaks` and `FailBreaks` do for the worker's commands.
`muted` remembers such traces; `StatusIsAnnounced` excepts them until something
announces the trace again. What the detectors compute is reduced to whether the
committed findings agree with the deterministic report.

### EvalBatches

`jobs` is `candidate_generation_jobs`, `records` is `eval_candidates` with their
packets and dispositions, `activeEvidence` what the active analyses say of each
finding, `running` the local variables of `execute_candidate_generation_job`.
`Start` is the part up to the commit of the running status with its stale
check, `CreateItem` one item up to the candidate's commit, `PersistOutcome` and
`Finish` the commits that follow. Every command runs on the writer thread, so
nothing else comes between these steps, and an error return and a crash leave
the same tables (`Interrupt`). The selection is the canonical member of each
group, exact for one example per group; evidence packets come from the external
crate `traces-to-evals`.

### WriterQueue

The program counters of the threads: `request[r]` for each exporter inside
`submit_blocking`, `caller[j]` for an interface call, `worker[w]` for the
background workers, `candidate`, `closer` and `writer`. The shared state is
`queue`, the two admission counters, the stop flag and `candidates`. Every
atomic access is its own action. `Stop` models the receiver going away with the
commands behind the shutdown, whose senders see a failed `recv`. The callers
that give up after a timeout (`live.rs:691`) are not modelled.

### DeltaStream

`log`, `pruned` and `unpublished` are the writer's side; `Publish` is one
call of `DeltaHub::publish`, for every subscriber at once, since the hub holds
its lock. `channel` and `cutOff` are shared by the hub and a subscriber; `Join`,
`Synchronize`, `Take` and `HandleBatch` are the loop in `FailureInboxModel::new`,
`Reload`, `ReadGroups` and `AnswerNewest` those of `reload_groups` with its
generation counter. A failed sweep commits deltas that nobody publishes (`SweepFails`).
Failure groups are the number of deltas so far that concern them;
`stream.delta_history` is assumed positive.

### Assessments

`item` and `job` are the tables, `attempt` the attempts with their reservation,
`worker` the claim a worker carries outside every lock, `cache`, `record`,
`decisions` and `active` what is kept of a result. One action per control
transaction; `LeaseRunsOut`, `BackoffEnds` and the end of the UTC `day` are the
passing of time. Deviations the model keeps visible: a change of the day between
claim and commit loses the charge (against the comment at
`assessments.rs:1549-1551` of the store; `BudgetIsExact` excepts such days as
`Crossed`); an expired lease leaves its reservation and its attempt row open; a
cancelled job whose worker died keeps an item running (`Orphaned`); a copy made
by the cache gets no decision under a policy activated before
(`DecisionsFollowPolicy` excepts copies; `LEARNED_TASK_COMPLETION.md:63-64` does
not); an abstention recorded while a provider was disabled is cached as an exact
result; a cancelled job with finished items reports completed.

### Governance

Two settings screens and the evaluation studio, one background task each, with
finalization in between: `snapshots`, `drafts`, `releases`, `bindings`,
`backfill`; `proposals`, `taxonomies`; `active` checks, `studio`, `preview`,
`jobs`. Contents are content-addressed, so a specification is the number of its
release. Kept visible: a repository that goes back to an earlier content cannot
get that content approved again, although the message says to regenerate
(`context.rs:509`); two taxonomy drafts of the same base can both be activated
and the later one loses the definitions of the first (`LossIsAFork`).
Selector rules, lineage operations and hand-written releases, which no screen
calls, are left out.

### Reviews

`builder` is `create_review_queue_from_completed_assessments`, one transaction
per task; `answers`, `packet`, `verdict` the review of each case; `releases`
with fit, policy and report the calibration. Output is withheld by a row of
`review_tasks` and by nothing else (`Embargoed`): a task withholds the one
assessment it holds, until its label is resolved and, for a held-out case,
thresholds are frozen. Before the queue is built
everything can be looked at, in the trace inspector and in the exports, and so
can the cached copies of a case under review (`Present`). `shown` remembers the
cases whose output was shown as that of their task, `exposed` those whose output
was seen where no task withheld it, `seen` who read the answers.
`ReviewsAreSound` and `AnswersAreBlind` say what the embargo achieves, so they
are about `shown`; that the guide promises more, and the code does not keep it,
is `HiddenUntilSubmitted` (finding 5). Assumed: builds do
not overlap, which the application does not enforce; overlapping ones can publish
two queues and put one leakage group into two partitions, against
`LEARNED_TASK_COMPLETION.md:44-46`. The service only makes blind queues of random
audits. Kept visible: a new release over the same split can be fitted again after
its test report was read.

### SpanTopology and Topology

`SpanTopology` is the algorithm of the stored tree: depths by following parents,
cycles and orphans included, the stable order, pages. Its loops are recursive
functions over numbers (`Chain`, `Resolved`, `Turns`), so that they can be proved
about; `Layout` is `topology_layout`, `DepthFirst` the walk of
`topology_projection` with its check for what was visited. That a stored tree is
complete is an assumption of `MCDerived` (`LayoutIsComplete`, evaluated for every
topology of up to four spans) and the theorem `TreesAreComplete`. `Topology` adds the
builder that writes it in chunks, the index of live revisions that readers share
under an epoch, and a reader whose statements interleave with everything. A
reader that found the columns complete and reads them after a repeated build
cleared them gets rows of depth zero (`raced`); a job whose failure cannot be
recorded stays `running` until the next start (`unrecorded`).

### CohortQueue

`queue` and `rebuildAll` are the request channel, `worker` and `dirty` the
thread, `models` and `active` its tables. A finding is known by its trace and
analysis, its text is what the safe projection leaves of it. A rebuild reads at
most `MaximumCases` findings of a project (`analysis.cohort_maximum_cases`, the
`LIMIT` of `cohorts.rs:105-121`), those with the least identities, which are
hashes and therefore any (`Bounded`). An analysis that ends without a result
either fails, which settles its trace (`AnalysisFailed`), or is stranded as in
findings 1 and 2 (`AnalysisStrands`): the trace then counts as pending for good,
and since the worker rebuilds only while no analysis of any project is pending
(`analysis.rs:650-656`), one stranded trace stops the rebuilds of all.
`excused` marks the traces whose finding may be unassigned for a known reason:
too few findings in the project or more than `MaximumCases` when it was last
rebuilt, a model that is activated again with its old assignments, a rebuild
lost to a failed listing of the projects. Vectors and drift are
nondeterministic.

### Workbench, Investigation, ModelInstall

`Workbench`: `state` is `WorkbenchStateV1`, `saved` what is on disk, `entries`,
`cursor` and `closed` the navigation, `display` what each screen shows.
`unsynced` and `unsaved` remember the handlers that do not tell the screen or do
not save (unpinning, creating a project, opening the eval screens), so that the
properties hold of all others. An artifact can belong to no project
(`Unassigned`) or to an id that is no project of the workspace: such runs are
listed under all projects, opened and saved like any other, and dropped by
`restore` at the next start, which asks `list_projects` (`model.rs:35-38`). So
`RestartKeepsWork` says that exactly the artifacts of known projects come back
(`Lasting`), and that the others do not. A comparison that is ready late opens under the
other project (against `CHANGELOG.md:34-35`).

`Investigation`: `view` is `FailureInbox`; its loads are sets of requests of
which at most one is the newest, and answers come in any order, empty or as
errors. Two observations mark known reasons why what is shown need not fit:
`strayed` (a group re-entered while another one loads, `investigation_state.rs:168`,
or a failed load) and `missed` (evidence that could not be had). Under `missed`
a candidate can be filed under another group (`evals.rs:518` does not check).
Left out: focused spans, comparisons, payloads, the batch preview.

`ModelInstall`: `models` are the published directories, `job` the download with
its files so far, `settings`, `configured` and `saving` the settings screen and
the file, `damaged` what somebody broke since. Visible: a release version that
is used again with other files, or a damaged directory, blocks that version for
good; a crash leaves its download directory.

## 3. The runs

| Run (config) | What it shows |
|---|---|
| `projection` (`MCProjection.cfg`) | what goes into a workspace and comes out to agents: durability, order, agreement of the stores, immutability and progress of projection through interruptions at every commit; `Projection` implements `FinalizedRevisions`; who answers an agent has the workspace; page walks are exact; the failure inbox misses no delta unnoticed, its view never goes back and catches up |
| `workspace_jobs` (`MCWorkspaceJobs.cfg`) | analyses: statuses, results and announcements are true, results are replaced only by newer ones, finalized traces settle. Generation: outcomes and statuses are true, nothing achieved is lost, `EvalBatches` implements `EvalCases`, jobs end |
| `writer_queue` (`MCWriterQueue.cfg`) | answers match the journal, admission counters are exact, the writer stops last, everyone is answered although writer and candidate worker feed each other through bounded channels that fill up, a batch whose hand-off was dropped is still executed, journaled batches are projected |
| `assessments` (`MCAssessments.cfg`) | rows, records, copies and decisions agree; results are final; jobs settle |
| `governance` (`MCGovernance.cfg`) | sources never go back, bindings and runs are as previewed; the daily budget adds up |
| `derived` (`MCDerived.cfg`) | a ready tree is whole, live pages are true, trees appear; every layout of up to four spans is complete; no finding is forgotten by the cohort worker, and findings get to their cohort while no trace is stranded |
| `desktop` (`MCDesktop.cfg`) | blind reviews, partitions and final truth; editors, navigation and restart; what an investigation shows belongs together; models are whole |
| `analysis_stranded` (`MCAnalysisStranded.cfg`) | finding 1 |
| `analysis_hosted` (`MCAnalysisHosted.cfg`) | finding 2 |
| `reviews_baseline` (`MCReviewsBaseline.cfg`) | finding 3 |
| `mcp_ranking` (`MCMcpRanking.cfg`) | finding 4 |
| `reviews_blind` (`MCReviewsBlind.cfg`) | finding 5 |

Bounds and why they are enough:

* *projection*: two payloads over two traces and two span ids, one of which
  names a span twice and moves a boundary inwards; pages of one row, so that
  retries and cuts happen (the invariant of the proof was also checked with pages
  of two); two interruptions, so that a retry is interrupted too; redelivery is
  unbounded. Endpoint: two applications, two stdio processes, two crashes or
  failed calls. Session: three rows, one query of each kind, limits 1 and 3 with
  3 the largest, responses of at most 2 rows, three calls and one commit. Stream:
  the hub treats each follower alone, so one; a channel of one slot and two deltas
  overflow it; two clicks and a rejoin give three reloads in flight; history one,
  so that pruning is seen.
* *workspace_jobs*: two traces with a batch limit of one make requests wait and
  go stale; two revisions reopen a trace under a running analysis; one restart
  and one fault let definitions change in between. Three findings in two groups,
  two keys, evidence there or gone, one change, one click and one disturbance
  make previews stale, jobs compete for a case, and retries follow failures.
* *writer_queue*: two requests of sizes 1 and 2 against two slots and two bytes
  hit the byte limit, the slot limit and the microbatch limit; the larger one
  exceeds a microbatch and fills a page; two store errors. Three jobs, of which a
  former process left one in the table, against one slot of the candidate
  channel: while the worker executes that one, the first new job fills the slot
  and the second meets it full, so that a hand-off is dropped and has to be found
  again. Exporters and two calls are looked at in separate behaviours, exporters
  with one call together.
* *assessments*: two jobs, three items over two keys, one worker (the other one
  is dead), one day, one fault; and one item, two workers and two days, so that a
  lease changes hands and a commit is late; in *governance* two workers, two items
  of one key and two days, with a budget that two calls fill and one overruns.
* *governance*: two contents of the repository going back and forth, with their
  own definitions; two drafts and two revisions; one draft, two proposals and two
  revisions; or two drafts with two proposals and no revision, in which taxonomy
  drafts of two specifications fork, the later one loses definitions of the
  earlier, and a check is refused because its definitions are gone; one run.
* *derived*: two spans that can form a cycle, two revisions, two batches, chunks
  of one row, two faults; layouts of all topologies of up to four spans; two
  traces of one project, a queue of one, three changes, one failure, analyses that
  fail or are stranded; rebuilds that read both findings or (part "bounded") one.
* *desktop*: two cases of three people with two required, one correction, one
  interrupted build and one release; the same with two releases, so that the
  groups of one are compared with those of the other; the same with output
  that is seen without a task; two projects and a run of no project, four
  actions, one closed tab kept; two groups with three findings, pages of one, four
  visits, one surprise;
  three catalogs of two versions, two files, three wishes, two accidents.

### Fairness

* *Projection*: the writer finishes a command it has begun and every turn of its
  loop sweeps and tries the oldest page. A delivery postpones the next attempt by
  `microbatch_wait_ms`, so `AckedIsFinalized` assumes that deliveries pause.
* *AnalysisJobs*, *EvalBatches*: the worker loop has no exit while the process
  lives and asks every 100 ms; deliveries, sweeps, clicks and faults are not fair.
* *WriterQueue*: weak fairness of each thread's steps; a blocking send is
  strongly fair, because the bounded channel of the standard library wakes a
  blocked sender when a slot is free; `EndMicrobatch` has a deadline and
  `BackoffElapses` is time. Nobody has to submit, call or shut down.
* *DeltaStream*: the writer publishes what it committed, the follower's loop and
  background reads are scheduled.
* *Assessments*: living workers go on with their loop, claiming or committing;
  leases and backoffs run out.
* *Topology*, *CohortQueue*: the worker's loop and the publication after a commit
  are scheduled; the cohort worker waits until the traces are quiet, and
  `CohortsCatchUp` promises nothing while one is stranded.

Liveness is stated as `[]<>` of "not waiting", which for these properties is the
same as a leads-to: what waits keeps waiting until it is served.

### Findings

1. `analysis_stranded`: `README.md:158-160` says that finalized runs then become
   available. `mark_analysis_started` writes the status before its delta and
   outside a transaction (`runtime.rs:230`), and no later step picks up a trace
   that is `analyzing` without a worker: a failed delta, a refused commit or a
   crash leaves it there until a new span reopens it.
2. `analysis_hosted`: `README.md:229-231` says hosted analysis is additive and
   deterministic analysis stays usable. `commit_analysis` refuses a result whose
   findings differ from its detection report (`runtime.rs:467`); the hosted
   judge's findings are added to the first only, and the refusal is dropped.
3. `reviews_baseline`: the comment at `live/reviews.rs:222-223` says a build
   reviews the complete baseline. It ends at the first cached copy of an
   assessment (`reviews.rs:607-620` of the store), and so does every later one.
4. `mcp_ranking`: `README.md:241` says agents can rank recurring groups. A page
   is cut in the order of the store and sorted by itself (`server.rs:338`), so
   the first group of the ranking can be on the last page.
5. `reviews_blind`: `LEARNED_TASK_COMPLETION.md:42-43` says that blind calibration
   hides automated output until the reviewer submits. Output is withheld only
   where a task holds exactly that assessment (`reviews.rs:2033` of the store):
   the inspector (`assessments.rs:1878-1905`) and the exports (`1924-1953`) show it
   before the queue is built, which line 32 of the guide names as one of the two
   ways to go on, and show the copies of it at any time. No step that assigns or
   submits asks what was shown.

## 4. What is proved

For every value of the constants, under the assumptions each module names (types
of the constants, positive limits, finiteness of the sets that are counted, and
that the value for "none" is none of the values it stands in for). Of the 40
properties of the passing runs 10 are liveness, which only TLC checks (the end of
this section says why). The other 30 (all invariants and action properties, and
the two refinements) are theorems, each the `Spec => ...` of its module:

| Module | Theorem | States |
|---|---|---|
| `ProjectionProofs` | `JournalStaysTrue` (with `TypeCorrect`, `AcknowledgedDurably`, `ProjectsInOrder`) | `JournalIsTrue` |
| | `FinalizedRevisionsAreImmutable` | `FinalizedIsImmutable` |
| | `StoreStaysTrue` | `StoreIsTrue` |
| | `StoreImplementsRevisions` | `ImplementsRevisions` |
| | `AgentsStayServed` (with `EndpointStaysSound`, `SessionStaysSound`) | `AgentsAreServed` |
| `WorkspaceProofs` | `QueueStaysTrue` (with `AnalysisTypeCorrect`, `AnalysesStayTrue`, `AnalyzingTracesHaveTheWorker`) | `QueueIsTrue` |
| | `ResultsAreReplacedOnly` | `ActiveUntilReplaced` |
| | `StatusesAreAnnounced` | `StatusIsAnnounced` |
| | `JobsStayTrue` (with `OutcomesStayTrue`, `JobsMakeWhatWasPreviewed`, `StatusStaysTrue`) | `JobsAreTrue` |
| | `WorkStaysKept` | `WorkIsKept` |
| | `RecordsImplementCases` | `ImplementsCases` |
| `WriterProofs` | `WriterStaysTrue` (with `AnswersMatchJournal`, `WriterStopsLast`) | `WriterIsTrue` |
| | `QueueStaysSound` | `QueueIsSound` |
| `AssessmentProofs` | `AssessmentsStayTrue` | `AssessmentsAreTrue` |
| | `ResultsStayFinal` | `ResultsAreFinal` |
| | `BudgetStaysExact` | `BudgetIsExact` |
| `GovernanceProofs` | `GovernanceStaysSound` | `GovernanceIsSound` |
| | `StepsStayExact` | `StepsAreExact` |
| `DerivedProofs` | `FindingsStayAssigned` | `FindingsAreAssigned` |
| | `TreesStayTrue` (with `TreesAreComplete`) | `TreesAreTrue` |
| `ReviewProofs` | `ReviewsStaySound` | `ReviewsAreSound` |
| | `AnswersStayBlind` | `AnswersAreBlind` |
| | `TruthStaysFinal` | `TruthIsFinal` |
| `DesktopProofs` | `InboxStaysTrue` | `InboxIsTrue` |
| | `ViewOnlyAdvances` | `ViewNeverGoesBack` |
| | `ModelsStayWhole` | `ModelsAreWhole` |
| | `InvestigationStaysTrue` | `InvestigationIsTrue` |
| | `CandidatesStayFiled` | `CandidatesAreFiled` |
| | `WorkbenchStaysSound` | `WorkbenchIsSound` |
| | `EditorsAlwaysStay` | `EditorsStay` |

None of these properties is inductive by itself. Every strengthened invariant
was first checked with TLC on the run's instance. The arguments:

* **ProjectionProofs.** In layers: types; `DurableInv` (a payload has one row and
  its blobs precede it); `OrderInv` (projected rows are a prefix of the journal,
  which an open page extends); `StagedInv` (the open SQLite transaction never
  lowers a revision nor unseals one). The refinement rests on versions numbered
  1..n with the newest current, and on no row being of a revision after the one
  that takes the next upsert. `StoreStaysTrue` needs the whole of `StoreInv`:
  what is staged is what will have to be true after the commit (each row's
  summary is that of the rows already in DuckDB), the rows of DuckDB are those of
  applied journal rows, and an absent trace is new. Its centre is the lemma
  `IncrementalIsFull`: adding the changed spans to the old summary, or reloading
  it when a boundary moved inwards, gives the recount of all current rows; that
  takes minima, maxima and cardinalities of the changed sets.
  *MCP server*: that who answers has the workspace and that a socket belongs to a
  process that is up are inductive together. For a session: a cursor that nothing
  spoilt has shown exactly the first rows of the listing, up to its offset, as long
  as its sequence is the latest (`Follows`), and so has a call for the listing it
  reads (`Reads`), so that the next page continues the walk.
* **WorkspaceProofs.** *Analyses*: that a commit makes a finalized trace ready
  rests on its job being about a sealed revision, and that on what the status of
  an open trace can be. Announcements need one thing more: which traces an
  interruption left with a status nobody was told.
  *Candidate jobs*: a finding has one record (without it a review would not be a
  step of `EvalCases`), and what an execution holds in memory is as true as what
  it has written; `Account` adds that what it has still to do is exactly what has
  no outcome, from which a final status says what the outcomes say.
* **WriterProofs.** What may sit in the channel: a request at most once and only
  while its thread waits, a worker's command only while the worker waits, the
  shutdown only after the join. The counters are cardinalities of sets of bytes
  and requests held, so that a reservation and a release change them by exactly
  the size of one request; the rest is where each thread can be (`Threads`).
* **AssessmentProofs.** An entry of the cache has a computed record of its key; a
  claim that a worker carries is either still the owner of its item or refused.
  *Budget*: a sum over attempts is the number of the units its terms stand for
  (`Total`), so that opening, charging and releasing an attempt change it by the
  amount of that attempt (`TotalPlus`); the invariant adds that attempts are
  numbered apart, that an open one reserves on the day of its budget row, and that
  no two workers carry the same one.
* **GovernanceProofs.** The bindings of a revision are those of ever newer
  releases, none newer than the release of an open preview, so that a back-fill
  appends and its binding is the last; releases and activated drafts are the same;
  a draft of the taxonomy has all of the release it was made from; a check has
  definitions of the release it names while it is being published as well as when
  it is active. A selection that is being enqueued is the one on display, and the
  step that queues it compares what it names with the store once more, which makes
  the run fresh.
* **DerivedProofs.** *Cohorts*: the property says where each active finding is (in the active
  model, in the channel, in the worker's hands, remembered for a rebuild, or
  excused); the invariant adds how the worker's hands fit the store: an append
  goes to the project of its trace while that has an active model, a fit has read
  findings of its own project only, and what it has not read is still to be sent
  (`FitIsCurrent`), since its commit replaces the model that held them and
  takes back the excuses of what it has read. `SoundAppends` and `SoundGrows` are about the kept models
  alone: distinct texts, at most the history, as many assignments as counted.
  *Trees*: the pure part first. A walk up from a span ends within as many steps
  as there are spans, by the pigeonhole, in a root, in a resolved span or in a
  cycle (`WalkEnds`); resolving one span keeps all depths found before and makes
  every resolved span of depth zero or one deeper than its parent (`ResolveKeeps`,
  `Depths`), hence so does resolving all in any order (`Reaching`). The walk down
  keeps what was visited apart from the stack, with the stack in falling depth and
  each child after its parent with nothing shallower in between (`Searched`);
  therefore nothing is pushed twice, as many turns as spans are enough, the walk
  lists every span (`OrderIsComplete`), and the tree is complete, for any finite
  set of spans. Then `TreesInv`: whatever columns there are belong to a finalized
  revision and are those of its projection, since the rows of a finalized revision
  no longer change and the worker has only rows of the projection left to write;
  a `ready` revision has all of them because `Publish` checks it; an index, or the
  rows a reader loaded while the epoch stood still, have all rows of the store or
  lack the batch whose update is under way, and the memo of an index is what
  resolving some list of spans gives (`Reached`).
* **ReviewProofs.** All splits agree with the latest one, and the tasks with it,
  so that no group crosses partitions; a case never has more reviewers than it
  needs, so that in a completed task everybody has answered and nobody else can
  be assigned, which makes truth final and the output that a task holds safe to
  show. Nothing is proved of output seen where no task withholds it, which
  finding 5 is about.
* **DesktopProofs.** *Inbox*: the stream and the view are proved apart. That a gap is
  noticed is an induction over the batch, done by its least counterexample; that
  the view only advances needs that the newest request is unique and has read
  nothing older than what is shown.
  *Models*: what a job has downloaded is what its catalog
  says, and nothing is in the place a download is for. *Investigation*: the
  invariant is a predicate of any record of the view's fields, `Follows(v)`,
  since a handler makes several of them one after the other (clear, restore,
  request, load); it says of requests under way that the newest group load is for
  the editor, that at most one evidence read is the newest, exactly while loading
  is shown, and that nothing is previewed while other evidence is on its way.
  `CandidatesStayFiled` follows because a candidate is confirmed only then.
  *Workbench*: tabs are taken out by `Retained`, the members of a set in the order
  of their places; that it is a sequence without other members and keeps
  distinct ones distinct is proved once by counting places. The invariant is one
  of any workbench state (`Good`), on the screen or on disk, and says in what the
  disk may lag behind; from it the action properties follow step by step.

Minima and maxima of finite sets of numbers exist, and inductions over numbers,
batches or finite sets are possible, by taking a least counterexample
(`WFMin` with the well-founded order of the naturals or of finite subsets): the
library's induction theorems, which take an operator, cannot be used.

Only model-checked:

* all liveness (`AckedIsFinalized`, `FinalizedSettles`, `JobsEnd`,
  `EveryoneIsAnswered`, `JobsAreExecuted`, `JournaledIsProjected`,
  `ViewCatchesUp`, `JobsSettle`, `TreesAppear`, `CohortsCatchUp`): fairness and
  `ENABLED` are out of reach of the prover;
* that the specifications of the sums (`MC*`) are sums of their modules, which is
  how they are written: each theorem is about its module's own specification.

## 5. Reading a definition

Every definition that stands for code is in `map` of `PROJECT.json` with its file
and lines, or marked external (the standard library's channels, DuckDB's lock).
Observation variables, which no code has, are commented so where they are
declared: they only record why a known deviation may show. A bound on what may
happen (`Max...`) is a conjunct of the action it limits and nothing else.

## 6. What is not modelled

* *Cohort comparison* and the *live product surface*: a read-only computation,
  and forwarding to components that are modelled.
* *OTLP decoding*, *local model runtime*, *benchmark tool*: stateless
  conversions, numeric code, an offline tool.
* Of *partly* modelled components: the steps of a blob put in the file system
  (a put is atomic and durable here; see the hazard at `blobs.rs:28`), migrations
  of the schema, filters and orders of queries, exports and health listings,
  statistics of a fit, the environment and validation of the configuration,
  rendering.
* Two hazards have no property: a blob whose directory sync failed but that the
  next put takes as present, and an abstention recorded while the provider was
  disabled, which the cache keeps as an exact result.

## 7. Plan

1. Migrations of the schema and the file-system steps of a blob put.
2. The statistics and exports of calibration and review, where they decide
   something.
3. Overlapping review builds, once the application says what it promises there.

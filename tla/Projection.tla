----------------------------- MODULE Projection -----------------------------
(***************************************************************************)
(* The durable core of perseval-store: the ingest journal, its projection  *)
(* into the two databases, and the lifecycle of a logical trace.           *)
(*                                                                         *)
(* A workspace keeps its control state in SQLite (journal, trace rows,     *)
(* revision rows, delta outbox), its span rows in DuckDB, and payloads in  *)
(* a content-addressed blob directory.  No transaction spans two of the    *)
(* stores: a projection commits DuckDB first and SQLite second, and the    *)
(* lifecycle sweep issues its statements one by one in autocommit mode.    *)
(* All of it runs on the one writer thread, under the control lock, so     *)
(* the only thing that can come between two commits is a failure: an       *)
(* error return, or a crash and a reopened workspace.  Both leave the same *)
(* durable state and are one action here, Interrupt.                       *)
(*                                                                         *)
(* The clock is abstracted: a sweep may find any trace that is live,       *)
(* reopened or quiescent old enough to advance.                            *)
(***************************************************************************)
EXTENDS Integers, Sequences, FiniteSets, FiniteSetsExt

CONSTANTS
  Payloads,   \* distinct raw export requests: one (source, raw blob hash) each
  SpansOf,    \* the span upserts a payload decodes to, in order
  Traces,     \* logical trace identities
  SpanIds,    \* external span identities
  Contents,   \* what content_hash tells apart, reduced to status and boundaries
  MaxTime,    \* largest timestamp (the columns are 64-bit integers)
  PageRows,   \* stream.projection_retry_page: journal rows in one projection
  MaxFaults   \* bound on the number of interruptions

Upserts == [trace : Traces, id : SpanIds, content : Contents]

ASSUME ProjectionAssumption ==
  /\ MaxTime \in Nat
  /\ PageRows \in Nat \ {0}
  /\ MaxFaults \in Nat
  /\ Contents \subseteq [error : BOOLEAN, start : 0..MaxTime, end : 0..MaxTime]
  /\ SpansOf \in [Payloads -> Seq(Upserts)]

VARIABLES
  blobs,       \* payloads whose raw and normalized blobs are on disk
  journal,     \* SQLite ingest_journal; the row's index is its sequence
  logical,     \* SQLite logical_traces: revision, lifecycle, summary columns
  revisions,   \* SQLite trace_revisions: lifecycle of each revision
  announced,   \* newest trace_delta_outbox row of each trace
  applied,     \* DuckDB projected_journal_sequences
  spans,       \* DuckDB spans
  ingesting,   \* writer, between the blob writes and the journal commit
  page,        \* writer, between the DuckDB and the SQLite commit of a page
  staged,      \* what the open SQLite transaction of that page will write
  toRevise,    \* sweep: trace row updated, revision row not yet
  toAnnounce,  \* sweep: both rows updated, delta not yet inserted
  acked,       \* payloads whose sender has been answered Ok (observation)
  torn,        \* <<trace, revision>> whose sweep lost its second statement
  muted,       \* traces whose last sweep step was not announced
  faults       \* interruptions so far

controlVars == <<journal, logical, revisions, announced>>
analyticsVars == <<applied, spans>>
ghostVars == <<acked, torn, muted, faults>>
vars == <<blobs, journal, logical, revisions, announced, applied, spans,
          ingesting, page, staged, toRevise, toAnnounce,
          acked, torn, muted, faults>>

-----------------------------------------------------------------------------
(* Rows.                                                                   *)

Open == {"live", "reopened", "quiescent"}
Lifecycles == Open \cup {"absent", "finalized"}

Summaries == [count : Nat, errors : Nat, start : 0..MaxTime, end : 0..MaxTime]
NoSummary == [count |-> 0, errors |-> 0, start |-> 0, end |-> 0]

TraceRows == [revision : Nat, lifecycle : Lifecycles, summary : Summaries]
NoRow == [revision |-> 0, lifecycle |-> "absent", summary |-> NoSummary]

JournalRows == [payload : Payloads, projected : BOOLEAN]

SpanRows == [trace : Traces, revision : Nat, id : SpanIds, version : Nat,
             content : Contents, current : BOOLEAN]

NoStage == [logical |-> <<>>, revisions |-> <<>>, announced |-> <<>>]

(* The writer thread is between two commands.                              *)
Idle == ingesting = {} /\ page = {} /\ toRevise = {} /\ toAnnounce = {}

-----------------------------------------------------------------------------
(* The merged batch of a page.  A position <<i, k>> is the k-th upsert of  *)
(* journal row i; rows are merged in sequence order.                       *)

Positions(rows) ==
  UNION {{<<i, k>> : k \in DOMAIN SpansOf[journal[i].payload]} : i \in rows}

Upsert(d) == SpansOf[journal[d[1]].payload][d[2]]

Earlier(d, e) == d[1] < e[1] \/ (d[1] = e[1] /\ d[2] < e[2])

SameSpan(d, e) ==
  Upsert(d).trace = Upsert(e).trace /\ Upsert(d).id = Upsert(e).id

Mentions(rows) == {Upsert(d).trace : d \in Positions(rows)}

(* The revision ensure_logical_trace hands out for a trace: a finalized    *)
(* revision is never written again, its trace is reopened instead.         *)
Target(t) ==
  IF logical[t].lifecycle \in {"absent", "finalized"}
  THEN logical[t].revision + 1
  ELSE logical[t].revision

(* The current row an upsert is compared with before the batch.            *)
Stored(d) ==
  {s \in spans : /\ s.trace = Upsert(d).trace /\ s.id = Upsert(d).id
                 /\ s.revision = Target(Upsert(d).trace) /\ s.current}

StoredVersion(d) ==
  IF Stored(d) = {} THEN 0 ELSE (CHOOSE s \in Stored(d) : TRUE).version

(* Content the upsert meets: that of the preceding upsert of the span in   *)
(* the batch, else of the stored row; empty when the span is new.          *)
Seen(rows, d) ==
  LET before == {e \in Positions(rows) : SameSpan(e, d) /\ Earlier(e, d)}
  IN  IF before = {}
      THEN {s.content : s \in Stored(d)}
      ELSE {Upsert(e).content : e \in {x \in before : \A y \in before : ~Earlier(x, y)}}

(* Upserts that are written: an unchanged span is skipped by its hash.     *)
Changes(rows) == {d \in Positions(rows) : Upsert(d).content \notin Seen(rows, d)}

NewRows(rows) ==
  {[trace |-> Upsert(d).trace, revision |-> Target(Upsert(d).trace),
    id |-> Upsert(d).id,
    version |-> StoredVersion(d)
                + Cardinality({e \in Changes(rows) : SameSpan(d, e) /\ ~Earlier(d, e)}),
    content |-> Upsert(d).content,
    current |-> ~\E e \in Changes(rows) : SameSpan(d, e) /\ Earlier(d, e)]
   : d \in Changes(rows)}

SupersededAnyRevision(rows, s) ==
  \E d \in Changes(rows) : Upsert(d).trace = s.trace /\ Upsert(d).id = s.id
Superseded(rows, s) == \E d \in Changes(rows) : s \in Stored(d)

SpansAfter(rows) ==
  {[s EXCEPT !.current = @ /\ ~Superseded(rows, s)] : s \in spans} \cup NewRows(rows)

-----------------------------------------------------------------------------
(* Summary columns of logical_traces.                                      *)

(* load_full_trace_summary: recomputed from the current DuckDB rows.       *)
FullSummary(rows, t, r) ==
  LET mine == {s \in rows : s.trace = t /\ s.revision = r /\ s.current}
  IN  IF mine = {} THEN NoSummary
      ELSE [count  |-> Cardinality(mine),
            errors |-> Cardinality({s \in mine : s.content.error}),
            start  |-> Min({s.content.start : s \in mine}),
            end    |-> Max({s.content.end : s \in mine})]

(* The summary the batch starts from: a new or reopened revision is empty. *)
BaseSummary(t) ==
  IF logical[t].lifecycle \in {"absent", "finalized"} THEN NoSummary
  ELSE logical[t].summary

(* IncrementalTraceSummary: apply_new and apply_correction over the        *)
(* changes of one trace, with the boundaries as they stand when a change   *)
(* is applied.  A correction that moves a boundary inwards makes both      *)
(* boundaries be reloaded from DuckDB (persist_incremental_summary).       *)
IncrementalSummary(rows, t) ==
  LET base == BaseSummary(t)
      mine == {d \in Changes(rows) : Upsert(d).trace = t}
      isNew(d) == Seen(rows, d) = {}
      wasError(d) == \E c \in Seen(rows, d) : c.error
      upTo(d) == {e \in mine : Earlier(e, d)}
      kept(x) == IF base.count > 0 THEN {x} ELSE {}
      starts(S) == kept(base.start) \cup {Upsert(e).content.start : e \in S}
      ends(S) == kept(base.end) \cup {Upsert(e).content.end : e \in S}
      dirty == \E d \in mine : \E c \in Seen(rows, d) :
                 \/ c.start = Min(starts(upTo(d))) /\ Upsert(d).content.start > c.start
                 \/ c.end = Max(ends(upTo(d))) /\ Upsert(d).content.end < c.end
      reloaded == FullSummary(SpansAfter(rows), t, Target(t))
      count  == base.count + Cardinality({d \in mine : isNew(d)})
      errors == Max({0, base.errors
                        + Cardinality({d \in mine : Upsert(d).content.error})
                        - Cardinality({d \in mine : wasError(d)})})
  IN  [count  |-> count,
       errors |-> errors,
       start  |-> IF dirty THEN reloaded.start ELSE Min(starts(mine)),
       end    |-> IF dirty THEN reloaded.end ELSE Max(ends(mine))]

-----------------------------------------------------------------------------
(* What the SQLite transaction of a page writes.                           *)

(* Some journal row of the page is already in DuckDB: an earlier attempt   *)
(* committed there and lost its SQLite half.                               *)
Reconcile(rows) == rows \cap applied # {}

Touched(rows) ==
  {Upsert(d).trace : d \in IF Reconcile(rows) THEN Positions(rows) ELSE Changes(rows)}

(* ensure_logical_trace.                                                   *)
EnsuredLifecycle(t) ==
  IF logical[t].lifecycle = "finalized" THEN "reopened"
  ELSE IF logical[t].lifecycle \in {"absent", "quiescent"} THEN "live"
  ELSE logical[t].lifecycle

RowAfter(rows, t) ==
  [revision  |-> Target(t),
   lifecycle |-> EnsuredLifecycle(t),
   summary   |-> IF t \notin Touched(rows) THEN BaseSummary(t)
                 ELSE IF Reconcile(rows) THEN FullSummary(SpansAfter(rows), t, Target(t))
                 ELSE IncrementalSummary(rows, t)]

LogicalAfter(rows) ==
  [t \in Traces |-> IF t \in Mentions(rows) THEN RowAfter(rows, t) ELSE logical[t]]

RevisionsAfter(rows) ==
  [t \in Traces |->
     IF t \in Mentions(rows) /\ logical[t].lifecycle \in {"absent", "finalized"}
     THEN Append(revisions[t], EnsuredLifecycle(t))
     ELSE revisions[t]]

(* One Upserted or Reopened delta for each touched trace.                  *)
AnnouncedBefore(rows) ==
  [t \in Traces |-> IF t \in Touched(rows) THEN logical[t] ELSE announced[t]]
AnnouncedAfter(rows) ==
  [t \in Traces |-> IF t \in Touched(rows) THEN RowAfter(rows, t) ELSE announced[t]]

-----------------------------------------------------------------------------
(* Actions.                                                                *)

Init ==
  /\ blobs = {}
  /\ journal = <<>>
  /\ logical = [t \in Traces |-> NoRow]
  /\ revisions = [t \in Traces |-> <<>>]
  /\ announced = [t \in Traces |-> NoRow]
  /\ applied = {}
  /\ spans = {}
  /\ ingesting = {}
  /\ page = {}
  /\ staged = NoStage
  /\ toRevise = {}
  /\ toAnnounce = {}
  /\ acked = {}
  /\ torn = {}
  /\ muted = {}
  /\ faults = 0

(* journal_batch, first half: raw and normalized payload made durable in   *)
(* the blob directory before the journal row refers to them.               *)
PutBlobs(p) ==
  /\ Idle
  /\ blobs' = blobs \cup {p}
  /\ ingesting' = {p}
  /\ UNCHANGED <<controlVars, analyticsVars, page, staged, toRevise, toAnnounce, ghostVars>>

(* journal_batch, second half, and the answer: a payload that already has  *)
(* a row is acknowledged as a duplicate, any other gets a row first.       *)
Journaled(p) == \E i \in DOMAIN journal : journal[i].payload = p

CommitJournal(p) ==
  /\ p \in ingesting
  /\ journal' = IF Journaled(p) THEN journal
                ELSE Append(journal, [payload |-> p, projected |-> FALSE])
  /\ acked' = acked \cup {p}
  /\ ingesting' = {}
  /\ UNCHANGED <<blobs, logical, revisions, announced, analyticsVars, page, staged,
                 toRevise, toAnnounce, torn, muted, faults>>

(* pending_projection_sequences: the oldest unprojected rows, at most      *)
(* PageRows of them; where the span and byte limits cut the page earlier   *)
(* depends on sizes that are not modelled, so any shorter prefix may be    *)
(* chosen.                                                                 *)
Unprojected == {i \in DOMAIN journal : ~journal[i].projected}

AnyPage == {{i} : i \in Unprojected}
PagesBelowLimit ==
  {rows \in {{i \in Unprojected : i <= m} : m \in Unprojected} :
     Cardinality(rows) < PageRows}
Pages ==
  {rows \in {{i \in Unprojected : i <= m} : m \in Unprojected} :
     Cardinality(rows) <= PageRows}

(* project_batch up to the DuckDB commit.  The control rows it computed on *)
(* the way stay in the open SQLite transaction.  Every blob must be        *)
(* readable, else the projection fails with nothing written.               *)
CommitAnalytics(rows) ==
  /\ Idle
  /\ \A i \in rows : journal[i].payload \in blobs
  /\ spans' = SpansAfter(rows)
  /\ applied' = applied \cup rows
  /\ page' = rows
  /\ staged' = [logical |-> LogicalAfter(rows), revisions |-> RevisionsAfter(rows),
                announced |-> AnnouncedAfter(rows)]
  /\ UNCHANGED <<blobs, controlVars, ingesting, toRevise, toAnnounce, ghostVars>>

(* The SQLite commit: trace rows, deltas and the projected marks at once.  *)
CommitControl ==
  /\ page # {}
  /\ logical' = staged.logical
  /\ revisions' = staged.revisions
  /\ announced' = staged.announced
  /\ journal' = [i \in DOMAIN journal |->
                   IF i \in page THEN [journal[i] EXCEPT !.projected = TRUE] ELSE journal[i]]
  /\ muted' = muted \ {t \in Traces : staged.announced[t] # announced[t]}
  /\ page' = {}
  /\ staged' = NoStage
  /\ UNCHANGED <<blobs, analyticsVars, ingesting, toRevise, toAnnounce, acked, torn, faults>>

(* advance_lifecycle for one trace: three statements, each its own         *)
(* transaction.                                                            *)
Advanced(t) == IF logical[t].lifecycle = "quiescent" THEN "finalized" ELSE "quiescent"

SweepTraceRow(t) ==
  /\ Idle
  /\ logical[t].lifecycle \in Open
  /\ logical' = [logical EXCEPT ![t].lifecycle = Advanced(t)]
  /\ toRevise' = {t}
  /\ UNCHANGED <<blobs, journal, revisions, announced, analyticsVars, ingesting, page,
                 staged, toAnnounce, ghostVars>>

SweepRevisionRow(t) ==
  /\ t \in toRevise
  /\ revisions' = [revisions EXCEPT ![t][logical[t].revision] = logical[t].lifecycle]
  /\ toRevise' = {}
  /\ toAnnounce' = {t}
  /\ UNCHANGED <<blobs, journal, logical, announced, analyticsVars, ingesting, page,
                 staged, ghostVars>>

SweepDelta(t) ==
  /\ t \in toAnnounce
  /\ announced' = [announced EXCEPT ![t] = logical[t]]
  /\ toAnnounce' = {}
  /\ muted' = muted \ {t}
  /\ UNCHANGED <<blobs, journal, logical, revisions, analyticsVars, ingesting, page,
                 staged, toRevise, acked, torn, faults>>

(* A statement fails or the process dies and the workspace is opened       *)
(* again: what was in memory or in an open transaction is gone.            *)
Interrupt ==
  /\ ~Idle
  /\ faults < MaxFaults
  /\ faults' = faults + 1
  /\ ingesting' = {}
  /\ page' = {}
  /\ staged' = NoStage
  /\ toRevise' = {}
  /\ toAnnounce' = {}
  /\ torn' = torn \cup {<<t, logical[t].revision>> : t \in toRevise}
  /\ muted' = muted \cup toRevise \cup toAnnounce
  /\ UNCHANGED <<blobs, controlVars, analyticsVars, acked>>

Project == \E rows \in Pages : CommitAnalytics(rows)
Ingest == \E p \in Payloads : CommitJournal(p)
Sweep == \E t \in Traces : SweepTraceRow(t)
FinishSweep == \E t \in Traces : SweepRevisionRow(t) \/ SweepDelta(t)

Next ==
  \/ \E p \in Payloads : PutBlobs(p)
  \/ Ingest
  \/ Project
  \/ CommitControl
  \/ Sweep
  \/ FinishSweep
  \/ Interrupt

Spec == Init /\ [][Next]_vars

-----------------------------------------------------------------------------
(* Properties.                                                             *)

TypeOK ==
  /\ blobs \subseteq Payloads
  /\ journal \in Seq(JournalRows)
  /\ logical \in [Traces -> TraceRows]
  /\ revisions \in [Traces -> Seq(Lifecycles)]
  /\ announced \in [Traces -> TraceRows]
  /\ applied \subseteq DOMAIN journal
  /\ spans \subseteq SpanRows
  /\ ingesting \subseteq Payloads
  /\ page \subseteq DOMAIN journal
  /\ \/ page = {} /\ staged = NoStage
     \/ page # {} /\ staged \in [logical   : [Traces -> TraceRows],
                                 revisions : [Traces -> Seq(Lifecycles)],
                                 announced : [Traces -> TraceRows]]
  /\ toRevise \subseteq Traces
  /\ toAnnounce \subseteq Traces
  /\ acked \subseteq Payloads
  /\ torn \subseteq Traces \X Nat
  /\ muted \subseteq Traces
  /\ faults \in 0..MaxFaults

(* Journal rows whose DuckDB half is committed and whose SQLite half is    *)
(* not (yet): the window a failed or interrupted projection leaves open.   *)
HalfApplied == {i \in applied : ~journal[i].projected}

(* README: "every acknowledged OTLP batch is durably journaled".  A sender *)
(* that got an Ok, for a first delivery or a duplicate, finds exactly one  *)
(* journal row for its payload, and the blobs the row points to, across    *)
(* every interruption between the blob write, the row and the answer.      *)
AckedIsDurable ==
  \A p \in acked : /\ p \in blobs
                   /\ \E i \in DOMAIN journal :
                        \A j \in DOMAIN journal : journal[j].payload = p <=> j = i

(* A journal row is marked projected only after its spans are committed to *)
(* DuckDB, and rows are projected oldest first: no row is ever marked      *)
(* while an older one is still outstanding, however pages were cut, failed *)
(* and retried.                                                            *)
ProjectedInOrder ==
  \A i \in DOMAIN journal : journal[i].projected =>
     /\ i \in applied
     /\ \A j \in 1..i : journal[j].projected

(* The journal is a journal: what was acknowledged is in it, and what it    *)
(* marks as projected is.                                                  *)
JournalIsTrue == TypeOK /\ AckedIsDurable /\ ProjectedInOrder

(* Retries and replays keep the version column of DuckDB well formed: each *)
(* span of a revision has versions 1..n without duplicates (the primary    *)
(* key of spans) and exactly its newest version is current.                *)
VersionsWellFormed ==
  \A s \in spans :
    LET same == {x \in spans : x.trace = s.trace /\ x.revision = s.revision /\ x.id = s.id}
    IN  /\ {x.version : x \in same} = 1..Cardinality(same)
        /\ \A x \in same : x.current <=> x.version = Cardinality(same)

(* The incrementally maintained summary columns (span and error counts,    *)
(* start and end) of every trace agree with the DuckDB rows of its current *)
(* revision, except while an interrupted projection of that trace waits    *)
(* for its retry: no interruption may leave them apart for good.           *)
SummaryAgrees ==
  \A t \in Traces \ Mentions(HalfApplied) :
    logical[t].summary = FullSummary(spans, t, logical[t].revision)

(* The last projected upsert of every span is what the workspace shows: it *)
(* is the current row of the newest revision that holds the span, and that *)
(* revision has a trace row.  Retrying a page over rows an earlier attempt *)
(* wrote may not resurrect older content (spans a half applied row also    *)
(* mentions are settled by its retry).                                     *)
LastUpsertVisible ==
  LET done == {i \in DOMAIN journal : journal[i].projected}
      half == Positions(HalfApplied)
  IN  \A d \in Positions(done) :
        \/ \E e \in Positions(done) : SameSpan(d, e) /\ Earlier(d, e)
        \/ \E e \in half : SameSpan(d, e)
        \/ \E s \in spans :
             /\ s.trace = Upsert(d).trace /\ s.id = Upsert(d).id
             /\ s.current /\ s.content = Upsert(d).content
             /\ s.revision <= logical[s.trace].revision
             /\ \A x \in spans :
                  (x.trace = s.trace /\ x.id = s.id) => x.revision <= s.revision

(* Between commands trace_revisions follows logical_traces: one row per    *)
(* revision, every superseded revision and the revision of a finalized     *)
(* trace finalized.  The only exceptions are the rows whose sweep was      *)
(* interrupted between its first two statements; nothing repairs those.    *)
RevisionRowsFollow ==
  toRevise = {} =>
    \A t \in Traces :
      /\ Len(revisions[t]) = logical[t].revision
      /\ \A r \in 1..logical[t].revision :
           \/ <<t, r>> \in torn
           \/ revisions[t][r] = "finalized"
           \/ r = logical[t].revision /\ logical[t].lifecycle # "finalized"

(* Whoever follows the delta stream knows the truth: the newest delta of a *)
(* trace carries its revision and summary, and its lifecycle unless the    *)
(* sweep was interrupted before announcing, or a re-delivered span woke    *)
(* the quiescent trace without changing anything (no delta is written).    *)
AnnouncedTracksControl ==
  toRevise = {} /\ toAnnounce = {} =>
    \A t \in Traces :
      /\ announced[t].revision = logical[t].revision
      /\ announced[t].summary = logical[t].summary
      /\ \/ announced[t].lifecycle = logical[t].lifecycle
         \/ announced[t].lifecycle = "quiescent" /\ logical[t].lifecycle = "live"
         \/ t \in muted

(* What readers are shown is what was delivered: whatever was interrupted  *)
(* and retried, the current rows, the summary columns and the newest       *)
(* delivery of every span tell the same story.                             *)
StoreShowsTruth == VersionsWellFormed /\ SummaryAgrees /\ LastUpsertVisible

(* The control rows of SQLite, the revision history and the delta log,     *)
(* follow the traces.                                                      *)
ControlIsAnnounced == RevisionRowsFollow /\ AnnouncedTracksControl

(* The three stores agree: DuckDB with what was delivered, SQLite and the  *)
(* delta log with the traces.                                              *)
StoreIsTrue == StoreShowsTruth /\ ControlIsAnnounced

(* LEARNED_TASK_COMPLETION: assessments work on "finalized immutable trace *)
(* revisions".  Once a revision is finalized no later upsert, retry or     *)
(* sweep touches its DuckDB rows.                                          *)
SealedRevision(t, r) ==
  r \in 1..logical[t].revision
    /\ (r < logical[t].revision \/ logical[t].lifecycle = "finalized")
RowsOf(t, r) == {s \in spans : s.trace = t /\ s.revision = r}
FinalizedIsImmutable ==
  [][\A t \in Traces : \A r \in 1..logical[t].revision :
       SealedRevision(t, r) => RowsOf(t, r)' = RowsOf(t, r) /\ SealedRevision(t, r)']_vars

(* Fairness of the writer loop: it runs a command it has taken to its end, *)
(* and each of its turns sweeps what is due and attempts the oldest page.  *)
(* Nothing stronger is justified for Project: every delivery postpones the *)
(* next attempt by microbatch_wait_ms, so a page that is outstanding while *)
(* deliveries never pause may never be attempted.                          *)
Fairness ==
  /\ WF_vars(Ingest)
  /\ WF_vars(Project)
  /\ WF_vars(CommitControl)
  /\ WF_vars(Sweep)
  /\ WF_vars(FinishSweep)

FairSpec == Spec /\ Fairness

(* From some point on nothing is delivered any more.                       *)
Quiet == <>[][~\E p \in Payloads : PutBlobs(p)]_vars

(* Once deliveries pause, every acknowledged payload is projected and      *)
(* every trace is finalized for good, whatever was interrupted on the way. *)
AckedIsFinalized ==
  Quiet =>
    /\ \A p \in Payloads :
         []<>(p \in acked => \E i \in DOMAIN journal :
                                journal[i].payload = p /\ journal[i].projected)
    /\ <>[](\A t \in Traces : logical[t].lifecycle \in {"absent", "finalized"})

-----------------------------------------------------------------------------
(* What a trace promises its readers (module FinalizedRevisions): the rows *)
(* of its sealed revisions, and of the one that takes the next upsert.     *)

SealedCount(t) == Target(t) - 1
ContentsOf(t, r) == {[id |-> s.id, content |-> s.content] : s \in {x \in RowsOf(t, r) : x.current}}

Revisions == INSTANCE FinalizedRevisions WITH
  sealed <- [t \in Traces |-> [r \in 1..SealedCount(t) |-> ContentsOf(t, r)]],
  draft  <- [t \in Traces |-> ContentsOf(t, Target(t))]

(* Journal, pages, half commits, retries and sweeps together implement a   *)
(* store that only ever edits drafts and seals them.                       *)
ImplementsRevisions == Revisions!Spec

=============================================================================

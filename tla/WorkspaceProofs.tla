--------------------------- MODULE WorkspaceProofs ---------------------------
(***************************************************************************)
(* Proofs about the two queues of jobs in the workspace: AnalysisJobs, for *)
(* every set of traces and definitions, every batch limit and any number   *)
(* of reopenings, restarts and faults, and EvalBatches, for every set of   *)
(* findings, jobs and executions.                                          *)
(*                                                                         *)
(* In neither are the properties inductive one by one.  That a commit      *)
(* makes a finalized trace ready rests on the job being about a sealed     *)
(* revision, that in turn on what an open trace's status can be: IInv is   *)
(* the conjunction of the properties with the facts about rows and the job *)
(* that connect them.  Of EvalBatches, Inv adds that a finding has one     *)
(* record, and that what an execution holds in memory is as true as what   *)
(* it has written: its outcomes, and the evidence of its remaining items.  *)
(* Account adds that outcomes are of previewed findings and that what an   *)
(* execution has still to do is exactly what has no outcome.               *)
(***************************************************************************)
EXTENDS AnalysisJobs, EvalBatches, TLAPS

-----------------------------------------------------------------------------
(* The queue of analyses.                                                  *)


(* An open trace waits for its finalization, a finalized one exists.       *)
RowShape ==
  \A t \in Traces :
    /\ rows[t].finalized => rows[t].revision > 0
    /\ ~rows[t].finalized => rows[t].status \in {"not_ready", "reanalyzing"}
    /\ active[t] # {} => rows[t].revision > 0

(* The worker has one job, made with the definition of its process, and    *)
(* asks for work only after stale results are queued.                      *)
JobShape ==
  /\ \A j, k \in job : j = k
  /\ \A j \in job : j.definition \in {definition, Degraded[definition]}

IInv ==
  /\ TypeOK
  /\ RowShape
  /\ JobShape
  /\ OnlySealedAnalyzed
  /\ ReadyIsCurrent
  /\ ResultStaysListed
  /\ AnalyzingHasWorker
  /\ ReadyIsUpToDate

LEMMA InitIInv == Init => IInv
  BY AnalysisAssumption
     DEF AnalysisAssumption, Init, IInv, TypeOK, RowShape, JobShape, OnlySealedAnalyzed,
         ReadyIsCurrent, ResultStaysListed, AnalyzingHasWorker, ReadyIsUpToDate, Absent,
         Statuses, Runs, Pointers, Requests, Jobs

-----------------------------------------------------------------------------
(* What each command does to the rows, stated once so that the proofs      *)
(* below need not look inside the actions.                                 *)

LEMMA DeliverKeeps ==
  ASSUME IInv, NEW t \in Traces, Deliver(t)
  PROVE  IInv'
<1> USE DEF IInv
<1>1. TypeOK'
  <2>1. Delivered(t) \in [revision : Nat, finalized : BOOLEAN, status : Statuses]
    <3>1. rows[t] \in [revision : Nat, finalized : BOOLEAN, status : Statuses]
      BY DEF TypeOK
    <3>2. Absent \in [revision : Nat, finalized : BOOLEAN, status : Statuses]
      BY DEF Absent, Statuses
    <3>3. CASE rows[t].revision = 0
      BY <3>2, <3>3 DEF Delivered
    <3>4. CASE rows[t].revision # 0 /\ rows[t].finalized
      BY <3>1, <3>4 DEF Delivered, Statuses
    <3>5. CASE rows[t].revision # 0 /\ ~rows[t].finalized
      BY <3>1, <3>5 DEF Delivered
    <3> QED BY <3>3, <3>4, <3>5
  <2>2. rows' \in [Traces -> [revision : Nat, finalized : BOOLEAN, status : Statuses]]
    BY <2>1 DEF TypeOK, Deliver
  <2>3. announced' \in [Traces -> Statuses] /\ muted' \subseteq Traces
    BY <2>2 DEF TypeOK, Deliver, Announce
  <2>4. older' \subseteq Traces \X Traces
    BY DEF TypeOK, Deliver
  <2> QED BY <2>2, <2>3, <2>4 DEF TypeOK, Deliver, worker
<1>2. /\ \A x \in Traces \ {t} : rows'[x] = rows[x]
      /\ rows'[t] = Delivered(t)
      /\ rows[t].finalized =>
           rows'[t] = [revision |-> rows[t].revision + 1, finalized |-> FALSE,
                       status |-> "reanalyzing"]
      /\ ~rows[t].finalized =>
           \/ rows'[t] = rows[t]
           \/ rows[t].revision = 0 /\ rows'[t] = [Absent EXCEPT !.revision = 1]
  BY DEF Deliver, Delivered, TypeOK, RowShape
<1>3. UNCHANGED <<runs, active, definition, phase, batch, job, dropped>>
  BY DEF Deliver, worker
<1>4. RowShape'
  BY <1>2, <1>3 DEF RowShape, TypeOK, Absent
<1>5. JobShape'
  BY <1>3 DEF JobShape
<1>6. OnlySealedAnalyzed'
  BY <1>2, <1>3 DEF OnlySealedAnalyzed, Sealed, TypeOK, Absent, Runs, Jobs
<1>7. ReadyIsCurrent'
  <2> SUFFICES ASSUME NEW x \in Traces, rows'[x].status = "ready"
               PROVE  rows'[x] = rows[x]
    BY <1>3 DEF ReadyIsCurrent
  <2> QED BY <1>2 DEF Absent
<1>8. ResultStaysListed'
  BY <1>2, <1>3 DEF ResultStaysListed, RowShape, TypeOK, Absent
<1>9. AnalyzingHasWorker'
  BY <1>2, <1>3 DEF AnalyzingHasWorker, RowShape, Current, TypeOK, Absent, Jobs
<1>10. ReadyIsUpToDate'
  BY <1>2, <1>3 DEF ReadyIsUpToDate, RowShape, TypeOK, Absent
<1> QED BY <1>1, <1>4, <1>5, <1>6, <1>7, <1>8, <1>9, <1>10

LEMMA FinalizeKeeps ==
  ASSUME IInv, NEW t \in Traces, Finalize(t) \/ FinalizeBreaks(t)
  PROVE  IInv'
<1> USE DEF IInv
<1>1. TypeOK'
  <2>1. rows' \in [Traces -> [revision : Nat, finalized : BOOLEAN, status : Statuses]]
    <3>1. FinalizedStatus(t) \in Statuses
      BY DEF FinalizedStatus, Statuses
    <3>2. [rows[t] EXCEPT !.finalized = TRUE, !.status = FinalizedStatus(t)]
            \in [revision : Nat, finalized : BOOLEAN, status : Statuses]
      BY <3>1 DEF TypeOK
    <3> QED BY <3>2 DEF TypeOK, Finalize, FinalizeBreaks, FinalizeRow
  <2>2. announced' \in [Traces -> Statuses] /\ muted' \subseteq Traces
    BY <2>1 DEF TypeOK, Finalize, FinalizeBreaks, Announce, LoseDelta
  <2>3. faults' \in 0..MaxFaults
    BY AnalysisAssumption DEF TypeOK, Finalize, FinalizeBreaks, Fault
  <2>4. UNCHANGED <<older, runs, active, failureLog, definition, phase, batch, job, dropped, restarts>>
    BY DEF Finalize, FinalizeBreaks, worker
  <2> QED BY <2>1, <2>2, <2>3, <2>4 DEF TypeOK
<1>2. /\ \A x \in Traces \ {t} : rows'[x] = rows[x]
      /\ rows'[t].revision = rows[t].revision
      /\ rows'[t].revision > 0
      /\ rows'[t].finalized
      /\ ~rows[t].finalized
      /\ rows'[t].status = FinalizedStatus(t)
  BY DEF Finalize, FinalizeBreaks, FinalizeRow, TypeOK
<1>3. UNCHANGED <<runs, active, definition, phase, batch, job, dropped>>
  BY DEF Finalize, FinalizeBreaks, worker
<1>4. RowShape'
  BY <1>2, <1>3 DEF RowShape, TypeOK
<1>5. JobShape'
  BY <1>3 DEF JobShape
<1>6. OnlySealedAnalyzed'
  BY <1>2, <1>3 DEF OnlySealedAnalyzed, Sealed, TypeOK, Runs, Jobs
<1>7. ReadyIsCurrent'
  BY <1>2, <1>3 DEF ReadyIsCurrent, FinalizedStatus, TypeOK
<1>8. ResultStaysListed'
  BY <1>2, <1>3 DEF ResultStaysListed, RowShape, FinalizedStatus, TypeOK
<1>9. AnalyzingHasWorker'
  BY <1>2, <1>3 DEF AnalyzingHasWorker, FinalizedStatus, Current, TypeOK, Jobs
<1>10. ReadyIsUpToDate'
  BY <1>2, <1>3 DEF ReadyIsUpToDate, FinalizedStatus, TypeOK
<1> QED BY <1>1, <1>4, <1>5, <1>6, <1>7, <1>8, <1>9, <1>10

LEMMA EnqueueStaleKeeps ==
  ASSUME IInv, EnqueueStale
  PROVE  IInv'
<1> USE DEF IInv
<1>1. TypeOK'
  BY DEF TypeOK, EnqueueStale, Stale, Statuses
<1>2. \A x \in Traces :
        /\ rows'[x].revision = rows[x].revision
        /\ rows'[x].finalized = rows[x].finalized
        /\ Stale(x) => rows'[x].status = "reanalyzing"
        /\ ~Stale(x) => rows'[x] = rows[x]
  BY DEF EnqueueStale, TypeOK
<1>3. UNCHANGED <<runs, active, definition, batch, job, dropped>>
  BY DEF EnqueueStale
<1>4. RowShape'
  BY <1>2, <1>3 DEF RowShape, TypeOK, Stale
<1>5. JobShape'
  BY <1>3 DEF JobShape
<1>6. OnlySealedAnalyzed'
  BY <1>2, <1>3 DEF OnlySealedAnalyzed, Sealed, TypeOK, Runs, Jobs
<1>7. ReadyIsCurrent'
  BY <1>2, <1>3 DEF ReadyIsCurrent, TypeOK
<1>8. ResultStaysListed'
  BY <1>2, <1>3 DEF ResultStaysListed, TypeOK
<1>9. AnalyzingHasWorker'
  BY <1>2, <1>3 DEF AnalyzingHasWorker, Current, TypeOK, Jobs
<1>10. ReadyIsUpToDate'
  <2> SUFFICES ASSUME NEW x \in Traces, rows'[x].status = "ready", NEW a \in active[x]
               PROVE  a.definition = definition
    BY <1>3 DEF ReadyIsUpToDate
  <2>1. rows[x].status = "ready" /\ ~Stale(x)
    BY <1>2
  <2>2. rows[x].finalized /\ a.revision = rows[x].revision
    BY <2>1 DEF ReadyIsCurrent
  <2> QED BY <2>1, <2>2 DEF Stale
<1> QED BY <1>1, <1>4, <1>5, <1>6, <1>7, <1>8, <1>9, <1>10

(* The commands that write a status of one trace and leave its revision,   *)
(* finalization, the runs and the pointers alone.                          *)
LEMMA MarkKeeps ==
  ASSUME IInv, NEW r \in batch, MarkStarted(r) \/ MarkBreaks(r)
  PROVE  IInv'
<1> USE DEF IInv
<1>0. r.trace \in Traces /\ r.revision \in Nat /\ r \in Requests
  BY DEF TypeOK, Requests
<1>1. TypeOK'
  <2>1. CASE MarkStarted(r)
    BY <1>0, <2>1, AnalysisAssumption
       DEF AnalysisAssumption, TypeOK, MarkStarted, MayStart, SetStatus, StartedStatus, Announce,
           Statuses, Jobs
  <2>2. CASE MarkBreaks(r)
    BY <1>0, <2>2, AnalysisAssumption
       DEF AnalysisAssumption, TypeOK, MarkBreaks, MayStart, SetStatus, StartedStatus, LoseDelta,
           Fault, Statuses
  <2> QED BY <2>1, <2>2
<1>2. /\ \A x \in Traces \ {r.trace} : rows'[x] = rows[x]
      /\ rows'[r.trace].revision = rows[r.trace].revision
      /\ rows'[r.trace].finalized = rows[r.trace].finalized
      /\ rows'[r.trace].status = StartedStatus(r.trace)
      /\ rows[r.trace].revision = r.revision
      /\ rows[r.trace].finalized
      /\ rows[r.trace].status \in {"pending", "reanalyzing"}
  BY <1>0 DEF MarkStarted, MarkBreaks, MayStart, SetStatus, TypeOK, Current
<1>3. UNCHANGED <<runs, active, definition, phase>> /\ job = {}
  BY DEF MarkStarted, MarkBreaks
<1>4. \/ /\ job' = {[trace |-> r.trace, revision |-> r.revision, stage |-> "reading",
                     definition |-> definition, agrees |-> TRUE]}
         /\ dropped' = dropped
      \/ /\ job' = {}
         /\ dropped' = dropped \cup {<<r.trace, r.revision>>}
  BY <1>3 DEF MarkStarted, MarkBreaks
<1>5. RowShape'
  BY <1>2, <1>3 DEF RowShape, TypeOK, StartedStatus
<1>job. \A j \in job' : /\ j.trace = r.trace /\ j.revision = r.revision
                        /\ j.definition = definition
                        /\ job' = {j}
  <2> SUFFICES ASSUME NEW j \in job'
               PROVE  /\ j.trace = r.trace /\ j.revision = r.revision
                      /\ j.definition = definition
                      /\ job' = {j}
    OBVIOUS
  <2>1. /\ j = [trace |-> r.trace, revision |-> r.revision, stage |-> "reading",
                definition |-> definition, agrees |-> TRUE]
        /\ job' = {j}
    BY <1>4
  <2> QED BY <2>1
<1>6. JobShape'
  BY <1>3, <1>job DEF JobShape
<1>7. OnlySealedAnalyzed'
  <2>1. \A y \in Traces : \A n : Sealed(y, n) => Sealed(y, n)'
    BY <1>2 DEF Sealed
  <2>2. Sealed(r.trace, r.revision)'
    BY <1>0, <1>2 DEF Sealed, RowShape
  <2>3. \A x \in runs : x.trace \in Traces
    BY DEF TypeOK, Runs
  <2> QED BY <1>3, <1>job, <2>1, <2>2, <2>3 DEF OnlySealedAnalyzed
<1>8. ReadyIsCurrent'
  BY <1>2, <1>3 DEF ReadyIsCurrent, StartedStatus, TypeOK
<1>9. ResultStaysListed'
  BY <1>2, <1>3 DEF ResultStaysListed, StartedStatus, TypeOK
<1>10. AnalyzingHasWorker'
  <2> SUFFICES ASSUME NEW x \in Traces, rows'[x].status = "analyzing"
               PROVE  \/ <<x, rows'[x].revision>> \in dropped'
                      \/ \E j \in job' : j.trace = x /\ rows'[j.trace].revision = j.revision
    BY DEF AnalyzingHasWorker, Current
  <2>1. CASE x = r.trace
    <3>1. CASE job' = {}
      BY <1>2, <1>4, <2>1, <3>1
    <3>2. CASE job' # {}
      BY <1>2, <1>job, <2>1, <3>2
    <3> QED BY <3>1, <3>2
  <2>2. CASE x # r.trace
    <3>1. rows[x].status = "analyzing" /\ rows'[x].revision = rows[x].revision
      BY <1>2, <2>2
    <3>2. <<x, rows[x].revision>> \in dropped
      BY <1>3, <3>1 DEF AnalyzingHasWorker
    <3> QED BY <1>4, <3>1, <3>2
  <2> QED BY <2>1, <2>2
<1>11. ReadyIsUpToDate'
  BY <1>2, <1>3 DEF ReadyIsUpToDate, StartedStatus, TypeOK
<1> QED BY <1>1, <1>5, <1>6, <1>7, <1>8, <1>9, <1>10, <1>11

(* Steps that leave the trace rows alone.                                  *)
LEMMA WorkerKeeps ==
  ASSUME IInv,
         Poll \/ (\E r \in batch : SkipRequest(r)) \/ Analyze
  PROVE  IInv'
<1> USE DEF IInv
<1>1. UNCHANGED <<rows, older, runs, active, failureLog, announced, definition, phase,
                  dropped, muted, restarts, faults>>
  BY DEF Poll, SkipRequest, Analyze, store
<1>2. CASE Poll
  <2>1. job' = job /\ batch' \subseteq Requests
    <3>1. Waiting \subseteq Traces
      BY DEF Waiting
    <3>2. \A t \in Traces : [trace |-> t, revision |-> rows[t].revision] \in Requests
      BY DEF TypeOK, Requests
    <3>3. NextBatch \subseteq Requests
      BY <3>1, <3>2 DEF NextBatch
    <3> QED BY <1>2, <3>3 DEF Poll
  <2>2. TypeOK'
    BY <1>1, <2>1 DEF TypeOK
  <2> QED
    BY <1>1, <2>1, <2>2 DEF RowShape, JobShape, OnlySealedAnalyzed, Sealed, ReadyIsCurrent,
       ResultStaysListed, AnalyzingHasWorker, Current, ReadyIsUpToDate
<1>3. CASE \E r \in batch : SkipRequest(r)
  BY <1>1, <1>3 DEF SkipRequest, TypeOK, RowShape, JobShape, OnlySealedAnalyzed,
       Sealed, ReadyIsCurrent, ResultStaysListed, AnalyzingHasWorker, Current, ReadyIsUpToDate
<1>4. CASE Analyze
  <2>1. PICK j \in job : /\ j.stage = "reading"
                         /\ \E o \in Outcomes(j) : job' = {o}
                         /\ batch' = batch
    BY <1>4 DEF Analyze
  <2>2. PICK o \in Outcomes(j) : job' = {o}
    BY <2>1
  <2>3. j \in Jobs
    BY DEF TypeOK
  <2>4. /\ o \in Jobs
        /\ o.trace = j.trace /\ o.revision = j.revision
        /\ o.definition \in {definition, Degraded[definition]}
    <3>1. definition \in Definitions /\ Degraded[definition] \in Definitions
      BY AnalysisAssumption DEF AnalysisAssumption, TypeOK
    <3>2. j.definition \in {definition, Degraded[definition]}
      BY DEF JobShape
    <3>3. \/ o = [j EXCEPT !.stage = "error"]
          \/ o = [j EXCEPT !.stage = "result", !.definition = Degraded[definition]]
          \/ \E a \in BOOLEAN : o = [j EXCEPT !.stage = "result", !.agrees = a]
      BY <2>2 DEF Outcomes
    <3>4. CASE o = [j EXCEPT !.stage = "error"]
      BY <2>3, <3>2, <3>4 DEF Jobs
    <3>5. CASE o = [j EXCEPT !.stage = "result", !.definition = Degraded[definition]]
      BY <2>3, <3>1, <3>5 DEF Jobs
    <3>6. CASE \E a \in BOOLEAN : o = [j EXCEPT !.stage = "result", !.agrees = a]
      BY <2>3, <3>2, <3>6 DEF Jobs
    <3> QED BY <3>3, <3>4, <3>5, <3>6
  <2>5. TypeOK'
    BY <1>1, <2>1, <2>2, <2>4 DEF TypeOK
  <2>6. RowShape' /\ ReadyIsCurrent' /\ ResultStaysListed' /\ ReadyIsUpToDate'
    BY <1>1 DEF RowShape, ReadyIsCurrent, ResultStaysListed, ReadyIsUpToDate
  <2>7. JobShape'
    BY <1>1, <2>2, <2>4 DEF JobShape
  <2>8. OnlySealedAnalyzed'
    BY <1>1, <2>2, <2>4 DEF OnlySealedAnalyzed, Sealed
  <2>9. AnalyzingHasWorker'
    BY <1>1, <2>2, <2>4 DEF AnalyzingHasWorker, Current, JobShape
  <2> QED BY <2>5, <2>6, <2>7, <2>8, <2>9
<1> QED BY <1>2, <1>3, <1>4

LEMMA CommitKeeps ==
  ASSUME IInv, CommitAnalysis
  PROVE  IInv'
<1> USE DEF IInv
<1>1. PICK j \in job :
        /\ Acceptable(j)
        /\ runs' = runs \cup {[trace |-> j.trace, revision |-> j.revision,
                               definition |-> j.definition]}
        /\ active' = [active EXCEPT ![j.trace] =
                        {[revision |-> j.revision, definition |-> j.definition]}]
        /\ rows' = [rows EXCEPT ![j.trace].status = "ready"]
        /\ Announce(j.trace)
        /\ job' = {}
        /\ UNCHANGED <<older, failureLog, definition, phase, batch, dropped, restarts, faults>>
  BY DEF CommitAnalysis, Acceptable
<1>2. j \in Jobs /\ j.trace \in Traces /\ j.revision \in Nat
  BY DEF TypeOK, Jobs
<1>3. /\ rows[j.trace].revision = j.revision
      /\ rows[j.trace].finalized
      /\ j.definition \in {definition, Degraded[definition]}
      /\ j.definition \in Definitions
  BY <1>1, <1>2 DEF Acceptable, Current, OnlySealedAnalyzed, Sealed, JobShape, TypeOK, Jobs
<1>4. /\ \A x \in Traces \ {j.trace} : rows'[x] = rows[x] /\ active'[x] = active[x]
      /\ rows'[j.trace].revision = rows[j.trace].revision
      /\ rows'[j.trace].finalized = rows[j.trace].finalized
      /\ rows'[j.trace].status = "ready"
      /\ active'[j.trace] = {[revision |-> j.revision, definition |-> j.definition]}
  BY <1>1, <1>2 DEF TypeOK
<1>5. TypeOK'
  BY <1>1, <1>2, <1>3 DEF TypeOK, Announce, Statuses, Runs, Pointers
<1>6. RowShape'
  BY <1>2, <1>3, <1>4 DEF RowShape, TypeOK
<1>7. JobShape'
  BY <1>1 DEF JobShape
<1>8. OnlySealedAnalyzed'
  BY <1>1, <1>2, <1>3, <1>4 DEF OnlySealedAnalyzed, Sealed, RowShape, TypeOK, Runs
<1>9. ReadyIsCurrent'
  <2>1. \A x \in Traces \ {j.trace} : rows'[x] = rows[x] /\ active'[x] = active[x] /\ runs \subseteq runs'
    BY <1>1, <1>4
  <2>2. [trace |-> j.trace, revision |-> j.revision, definition |-> j.definition] \in runs'
    BY <1>1
  <2>3. ASSUME NEW x \in Traces \ {j.trace}, rows'[x].status = "ready"
        PROVE  /\ rows'[x].finalized
               /\ \E a \in active'[x] :
                    /\ active'[x] = {a} /\ a.revision = rows'[x].revision
                    /\ [trace |-> x, revision |-> a.revision, definition |-> a.definition] \in runs'
    BY <2>1, <2>3 DEF ReadyIsCurrent
  <2>4. /\ rows'[j.trace].finalized
        /\ \E a \in active'[j.trace] :
             /\ active'[j.trace] = {a} /\ a.revision = rows'[j.trace].revision
             /\ [trace |-> j.trace, revision |-> a.revision, definition |-> a.definition] \in runs'
    BY <1>3, <1>4, <2>2
  <2> HIDE DEF IInv
  <2> QED BY <2>3, <2>4 DEF ReadyIsCurrent
<1>10. ResultStaysListed'
  BY <1>2, <1>4 DEF ResultStaysListed, TypeOK
<1>11. AnalyzingHasWorker'
  BY <1>1, <1>2, <1>4 DEF AnalyzingHasWorker, JobShape, Current, TypeOK, Jobs
<1>12. ReadyIsUpToDate'
  BY <1>1, <1>2, <1>3, <1>4 DEF ReadyIsUpToDate, TypeOK
<1> QED BY <1>5, <1>6, <1>7, <1>8, <1>9, <1>10, <1>11, <1>12

LEMMA RefuseKeeps ==
  ASSUME IInv, CommitRefused
  PROVE  IInv'
<1> USE DEF IInv
<1>1. PICK j \in job :
        /\ job' = {}
        /\ dropped' = dropped \cup {<<j.trace, j.revision>>}
        /\ UNCHANGED <<store, definition, phase, batch, muted, restarts>>
        /\ faults' = faults \/ Fault
  BY DEF CommitRefused
<1>2. UNCHANGED <<rows, older, runs, active, failureLog, announced>>
  BY <1>1 DEF store
<1>3. TypeOK'
  BY <1>1, <1>2, AnalysisAssumption DEF AnalysisAssumption, TypeOK, Fault, Jobs
<1>4. AnalyzingHasWorker'
  BY <1>1, <1>2 DEF AnalyzingHasWorker, JobShape, Current, TypeOK, Jobs
<1> QED
  BY <1>1, <1>2, <1>3, <1>4 DEF RowShape, JobShape, OnlySealedAnalyzed, Sealed, ReadyIsCurrent,
     ResultStaysListed, ReadyIsUpToDate

LEMMA FailKeeps ==
  ASSUME IInv, FailAnalysis \/ FailBreaks
  PROVE  IInv'
<1> USE DEF IInv
<1>1. PICK j \in job :
        /\ job' = {}
        /\ UNCHANGED <<older, runs, active, definition, phase, batch, restarts>>
        /\ failureLog' \in {failureLog, failureLog \cup {<<j.trace, j.revision>>}}
        /\ faults' = faults \/ Fault
        /\ \/ /\ Current(j)
              /\ rows' = [rows EXCEPT ![j.trace].status = "failed"]
              /\ Announce(j.trace) \/ LoseDelta(j.trace)
              /\ dropped' = dropped
           \/ /\ UNCHANGED <<rows, announced, muted>>
              /\ \/ ~Current(j) /\ dropped' = dropped
                 \/ dropped' = dropped \cup {<<j.trace, j.revision>>}
  BY DEF FailAnalysis, FailBreaks, SetStatus
<1>2. j \in Jobs /\ j.trace \in Traces /\ j.revision \in Nat
  BY DEF TypeOK, Jobs
<1>3. TypeOK'
  <2>1. /\ failureLog' \subseteq Traces \X Nat
        /\ dropped' \subseteq Traces \X Nat
    BY <1>1, <1>2 DEF TypeOK
  <2>2. faults' \in 0..MaxFaults
    BY <1>1, AnalysisAssumption DEF AnalysisAssumption, TypeOK, Fault
  <2>3. rows' \in [Traces -> [revision : Nat, finalized : BOOLEAN, status : Statuses]]
    BY <1>1, <1>2 DEF TypeOK, Statuses
  <2>4. announced' \in [Traces -> Statuses] /\ muted' \subseteq Traces
    BY <1>1, <1>2, <2>3 DEF TypeOK, Announce, LoseDelta
  <2> QED BY <1>1, <2>1, <2>2, <2>3, <2>4 DEF TypeOK
<1>4. /\ \A x \in Traces : rows'[x].revision = rows[x].revision
                           /\ rows'[x].finalized = rows[x].finalized
      /\ \A x \in Traces \ {j.trace} : rows'[x] = rows[x]
      /\ \/ rows'[j.trace] = rows[j.trace]
         \/ rows'[j.trace].status = "failed" /\ rows[j.trace].finalized
  BY <1>1, <1>2 DEF TypeOK, OnlySealedAnalyzed, Sealed, Current
<1>5. RowShape'
  BY <1>1, <1>2, <1>4 DEF RowShape, TypeOK
<1>6. JobShape' /\ OnlySealedAnalyzed'
  BY <1>1, <1>2, <1>4 DEF JobShape, OnlySealedAnalyzed, Sealed, TypeOK, Runs
<1>7. ReadyIsCurrent'
  <2> SUFFICES ASSUME NEW x \in Traces, rows'[x].status = "ready"
               PROVE  rows'[x] = rows[x]
    BY <1>1 DEF ReadyIsCurrent
  <2> QED BY <1>4
<1>8. ResultStaysListed'
  BY <1>1, <1>2, <1>4 DEF ResultStaysListed, TypeOK
<1>9. AnalyzingHasWorker'
  BY <1>1, <1>2, <1>4 DEF AnalyzingHasWorker, JobShape, Current, TypeOK, Jobs
<1>10. ReadyIsUpToDate'
  BY <1>1, <1>2, <1>4 DEF ReadyIsUpToDate, TypeOK
<1> QED BY <1>3, <1>5, <1>6, <1>7, <1>8, <1>9, <1>10

LEMMA NewProcessKeeps ==
  ASSUME IInv, Restart \/ Crash
  PROVE  IInv'
<1> USE DEF IInv
<1>1. /\ UNCHANGED <<rows, older, runs, active, failureLog, announced, muted>>
      /\ definition' \in Definitions
      /\ phase' = "starting" /\ batch' = {} /\ job' = {}
      /\ dropped' = dropped \cup {<<j.trace, j.revision>> : j \in job}
      /\ restarts' \in 0..MaxRestarts
      /\ faults' \in 0..MaxFaults
  BY AnalysisAssumption
     DEF AnalysisAssumption, Restart, Crash, NewProcess, Fault, store, TypeOK
<1>2. TypeOK'
  BY <1>1 DEF TypeOK, Jobs
<1>3. AnalyzingHasWorker'
  BY <1>1 DEF AnalyzingHasWorker, Current, TypeOK, Jobs
<1> QED
  BY <1>1, <1>2, <1>3 DEF RowShape, JobShape, OnlySealedAnalyzed, Sealed, ReadyIsCurrent,
     ResultStaysListed, ReadyIsUpToDate

LEMMA StepIInv == IInv /\ [Next]_vars => IInv'
<1> SUFFICES ASSUME IInv, [Next]_vars PROVE IInv'
  OBVIOUS
<1>1. CASE Next
  BY <1>1, DeliverKeeps, FinalizeKeeps, EnqueueStaleKeeps, MarkKeeps, WorkerKeeps, CommitKeeps,
     RefuseKeeps, FailKeeps, NewProcessKeeps
     DEF Next, Try, Finish
<1>2. CASE UNCHANGED vars
  BY <1>2 DEF vars, IInv, TypeOK, RowShape, JobShape, OnlySealedAnalyzed, Sealed, ReadyIsCurrent,
     ResultStaysListed, AnalyzingHasWorker, Current, ReadyIsUpToDate
<1> QED BY <1>1, <1>2

(* Type correctness.                                                       *)
THEOREM AnalysisTypeCorrect == Spec => []TypeOK
<1>1. IInv => TypeOK
  BY DEF IInv
<1> QED BY InitIInv, StepIInv, <1>1, PTL DEF Spec

(* What the workspace shows of analyses is true of the rows: every run and *)
(* every job under way is about a sealed revision; a ready trace is        *)
(* finalized, shows one stored run of its current revision, made by the    *)
(* running implementation; a trace with a result stays listed with it.     *)
THEOREM AnalysesStayTrue == Spec => []AnalysesAreTrue
<1>1. IInv => AnalysesAreTrue
  BY DEF IInv, AnalysesAreTrue
<1> QED BY InitIInv, StepIInv, <1>1, PTL DEF Spec

(* A trace that is analyzing is the worker's job, unless its job was       *)
(* dropped.                                                                *)
THEOREM AnalyzingTracesHaveTheWorker == Spec => []AnalyzingHasWorker
<1>1. IInv => AnalyzingHasWorker
  BY DEF IInv
<1> QED BY InitIInv, StepIInv, <1>1, PTL DEF Spec

(* The active result of a trace is replaced only by a stored result of its *)
(* current revision, and never taken away.                                 *)
THEOREM ResultsAreReplacedOnly == Spec => ActiveUntilReplaced
<1> DEFINE Lasting == /\ runs \subseteq runs'
                      /\ \A t \in Traces : active'[t] # active[t] =>
                           \E a \in active'[t] :
                             /\ a.revision = rows[t].revision
                             /\ rows'[t].status = "ready"
                             /\ [trace |-> t, revision |-> a.revision,
                                 definition |-> a.definition] \in runs'
<1>1. IInv /\ [Next]_vars => [Lasting]_vars
  <2> SUFFICES ASSUME IInv, [Next]_vars PROVE [Lasting]_vars
    OBVIOUS
  <2>1. CASE CommitAnalysis
    <3>1. PICK j \in job :
            /\ Acceptable(j)
            /\ runs' = runs \cup {[trace |-> j.trace, revision |-> j.revision,
                                   definition |-> j.definition]}
            /\ active' = [active EXCEPT ![j.trace] =
                            {[revision |-> j.revision, definition |-> j.definition]}]
            /\ rows' = [rows EXCEPT ![j.trace].status = "ready"]
      BY <2>1 DEF CommitAnalysis, Acceptable
    <3>2. j.trace \in Traces
      BY DEF IInv, TypeOK, Jobs
    <3>3. /\ rows \in [Traces -> [revision : Nat, finalized : BOOLEAN, status : Statuses]]
          /\ active \in [Traces -> SUBSET Pointers]
      BY DEF IInv, TypeOK
    <3>4. /\ \A t \in Traces \ {j.trace} : active'[t] = active[t]
          /\ active'[j.trace] = {[revision |-> j.revision, definition |-> j.definition]}
          /\ rows'[j.trace].status = "ready"
      <4>1. /\ \A t \in Traces \ {j.trace} : active'[t] = active[t]
            /\ active'[j.trace] = {[revision |-> j.revision, definition |-> j.definition]}
        BY <3>1, <3>2, <3>3
      <4>2. rows'[j.trace] = [rows[j.trace] EXCEPT !.status = "ready"]
        BY <3>1, <3>2, <3>3
      <4>3. rows[j.trace] \in [revision : Nat, finalized : BOOLEAN, status : Statuses]
        BY <3>2, <3>3
      <4>4. rows'[j.trace].status = "ready"
        BY <4>2, <4>3
      <4> QED BY <4>1, <4>4
    <3>5. rows[j.trace].revision = j.revision
      BY <3>1 DEF Acceptable, Current
    <3>6. [trace |-> j.trace, revision |-> j.revision, definition |-> j.definition] \in runs'
      BY <3>1
    <3>7. ASSUME NEW t \in Traces, active'[t] # active[t]
          PROVE  /\ t = j.trace
                 /\ [revision |-> j.revision, definition |-> j.definition] \in active'[t]
      BY <3>4, <3>7
    <3>8. runs \subseteq runs'
      BY <3>1
    <3>9. Lasting
      BY <3>4, <3>5, <3>6, <3>7, <3>8
    <3> QED BY <3>9
  <2>2. CASE UNCHANGED <<runs, active>>
    BY <2>2
  <2>3. CASE UNCHANGED vars
    BY <2>3 DEF vars
  <2> QED
    BY <2>1, <2>2, <2>3
       DEF Next, Try, Finish, Deliver, Finalize, EnqueueStale, Poll, MarkStarted, SkipRequest,
           FinalizeBreaks, MarkBreaks, Analyze, CommitRefused, FailAnalysis, FailBreaks, Restart, Crash,
           NewProcess, store, worker
<1> QED BY InitIInv, StepIInv, <1>1, PTL DEF Spec, ActiveUntilReplaced

-----------------------------------------------------------------------------
(* The analysis queue of every trace is true of its rows and its worker.   *)
THEOREM QueueStaysTrue == Spec => []QueueIsTrue
  BY AnalysisTypeCorrect, AnalysesStayTrue, AnalyzingTracesHaveTheWorker, PTL DEF QueueIsTrue

-----------------------------------------------------------------------------
(* A command that announces the status it wrote for one trace.             *)
LEMMA AnnouncedStep ==
  ASSUME IInv, StatusIsAnnounced, NEW t \in Traces, Announce(t),
         \A x \in Traces \ {t} : rows'[x] = rows[x],
         failureLog \subseteq failureLog',
         rows'[t].status = "failed" => <<t, rows'[t].revision>> \in failureLog'
  PROVE  StatusIsAnnounced'
<1>1. announced' = [announced EXCEPT ![t] = rows'[t].status] /\ muted' = muted \ {t}
  BY DEF Announce
<1>2. announced \in [Traces -> Statuses]  BY DEF IInv, TypeOK
<1>3. announced'[t] = rows'[t].status
  BY <1>1, <1>2
<1>4. ASSUME NEW x \in Traces \ muted', x # t
      PROVE  /\ announced'[x] = rows'[x].status
             /\ rows'[x].status = "failed" => <<x, rows'[x].revision>> \in failureLog'
  BY <1>1, <1>2, <1>4 DEF StatusIsAnnounced
<1>5. ASSUME NEW x \in Traces \ muted', x = t
      PROVE  /\ announced'[x] = rows'[x].status
             /\ rows'[x].status = "failed" => <<x, rows'[x].revision>> \in failureLog'
  BY <1>3, <1>5
<1> QED  BY <1>4, <1>5 DEF StatusIsAnnounced

(* A command that was cut off before its delta.                            *)
LEMMA MutedStep ==
  ASSUME StatusIsAnnounced, NEW t \in Traces, LoseDelta(t),
         \A x \in Traces \ {t} : rows'[x] = rows[x],
         failureLog \subseteq failureLog'
  PROVE  StatusIsAnnounced'
  BY DEF LoseDelta, StatusIsAnnounced

(* A failed trace is finalized, so that whatever comes next gives it       *)
(* another status.                                                         *)
LEMMA StepAnnounces == IInv /\ StatusIsAnnounced /\ [Next]_vars => StatusIsAnnounced'
<1> SUFFICES ASSUME IInv, StatusIsAnnounced, [Next]_vars PROVE StatusIsAnnounced'
  OBVIOUS
<1> USE DEF IInv
<1>types. rows \in [Traces -> [revision : Nat, finalized : BOOLEAN, status : Statuses]]
  BY DEF TypeOK
<1>1. ASSUME NEW t \in Traces, Deliver(t) PROVE StatusIsAnnounced'
  <2>1. rows' = [rows EXCEPT ![t] = Delivered(t)] /\ Announce(t) /\ failureLog' = failureLog
    BY <1>1 DEF Deliver
  <2>2. Delivered(t).status # "failed"
    <3>1. CASE rows[t].revision = 0  BY <3>1 DEF Delivered, Absent
    <3>2. CASE rows[t].revision # 0 /\ rows[t].finalized  BY <3>2 DEF Delivered
    <3>3. CASE rows[t].revision # 0 /\ ~rows[t].finalized  BY <3>3 DEF Delivered, RowShape
    <3> QED  BY <3>1, <3>2, <3>3
  <2>3. rows'[t] = Delivered(t) /\ \A x \in Traces \ {t} : rows'[x] = rows[x]
    BY <1>types, <2>1
  <2> QED  BY <2>1, <2>2, <2>3, AnnouncedStep
<1>2. ASSUME NEW t \in Traces, Finalize(t) \/ FinalizeBreaks(t) PROVE StatusIsAnnounced'
  <2>1. /\ rows' = [rows EXCEPT ![t] = [@ EXCEPT !.finalized = TRUE, !.status = FinalizedStatus(t)]]
        /\ Announce(t) \/ LoseDelta(t)
        /\ failureLog' = failureLog
    BY <1>2 DEF Finalize, FinalizeBreaks, FinalizeRow
  <2>2. rows'[t].status = FinalizedStatus(t) /\ \A x \in Traces \ {t} : rows'[x] = rows[x]
    BY <1>types, <2>1
  <2>3. rows'[t].status # "failed"  BY <2>2 DEF FinalizedStatus
  <2> QED  BY <2>1, <2>2, <2>3, AnnouncedStep, MutedStep
<1>3. CASE EnqueueStale
  <2>1. /\ rows' = [t \in Traces |-> IF Stale(t) THEN [rows[t] EXCEPT !.status = "reanalyzing"]
                                     ELSE rows[t]]
        /\ announced' = [t \in Traces |-> IF Stale(t) THEN "reanalyzing" ELSE announced[t]]
        /\ muted' = {t \in muted : ~Stale(t)} /\ failureLog' = failureLog
    BY <1>3 DEF EnqueueStale
  <2>2. ASSUME NEW x \in Traces \ muted', Stale(x)
        PROVE  announced'[x] = rows'[x].status /\ rows'[x].status = "reanalyzing"
    BY <1>types, <2>1, <2>2
  <2>3. ASSUME NEW x \in Traces \ muted', ~Stale(x)
        PROVE  announced'[x] = announced[x] /\ rows'[x] = rows[x] /\ x \notin muted
    BY <2>1, <2>3
  <2> QED  BY <2>1, <2>2, <2>3 DEF StatusIsAnnounced
<1>4. ASSUME NEW r \in batch, MarkStarted(r) \/ MarkBreaks(r) PROVE StatusIsAnnounced'
  <2>1. r.trace \in Traces  BY DEF TypeOK, Requests
  <2>2. /\ rows' = [rows EXCEPT ![r.trace].status = StartedStatus(r.trace)]
        /\ Announce(r.trace) \/ LoseDelta(r.trace)
        /\ failureLog' = failureLog
    BY <1>4 DEF MarkStarted, MarkBreaks, SetStatus
  <2>3. rows'[r.trace].status = StartedStatus(r.trace)
        /\ \A x \in Traces \ {r.trace} : rows'[x] = rows[x]
    BY <1>types, <2>1, <2>2
  <2>4. rows'[r.trace].status # "failed"  BY <2>3 DEF StartedStatus
  <2> QED  BY <2>1, <2>2, <2>3, <2>4, AnnouncedStep, MutedStep
<1>5. CASE CommitAnalysis
  <2>1. PICK j \in job : /\ rows' = [rows EXCEPT ![j.trace].status = "ready"]
                         /\ Announce(j.trace) /\ failureLog' = failureLog
    BY <1>5 DEF CommitAnalysis, Acceptable
  <2>2. j.trace \in Traces  BY DEF TypeOK, Jobs
  <2>3. rows'[j.trace].status = "ready" /\ \A x \in Traces \ {j.trace} : rows'[x] = rows[x]
    BY <1>types, <2>1, <2>2
  <2> QED  BY <2>1, <2>2, <2>3, AnnouncedStep
<1>6. CASE FailAnalysis \/ FailBreaks
  <2>1. PICK j \in job :
          \/ /\ rows' = [rows EXCEPT ![j.trace].status = "failed"] /\ Current(j)
             /\ failureLog' = failureLog \cup {<<j.trace, j.revision>>} /\ Announce(j.trace)
          \/ /\ rows' = [rows EXCEPT ![j.trace].status = "failed"]
             /\ failureLog \subseteq failureLog' /\ LoseDelta(j.trace)
          \/ UNCHANGED <<rows, failureLog, announced, muted>>
    BY <1>6 DEF FailAnalysis, FailBreaks, SetStatus
  <2>2. j.trace \in Traces  BY DEF TypeOK, Jobs
  <2>3. CASE UNCHANGED <<rows, failureLog, announced, muted>>
    BY <2>3 DEF StatusIsAnnounced
  <2>4. ASSUME rows' = [rows EXCEPT ![j.trace].status = "failed"]
        PROVE  /\ rows'[j.trace].revision = rows[j.trace].revision
               /\ \A x \in Traces \ {j.trace} : rows'[x] = rows[x]
    BY <1>types, <2>2, <2>4
  <2>5. CASE /\ rows' = [rows EXCEPT ![j.trace].status = "failed"] /\ Current(j)
             /\ failureLog' = failureLog \cup {<<j.trace, j.revision>>} /\ Announce(j.trace)
    <3>1. <<j.trace, rows'[j.trace].revision>> \in failureLog'  BY <2>4, <2>5 DEF Current
    <3> QED  BY <2>2, <2>4, <2>5, <3>1, AnnouncedStep
  <2>6. CASE /\ rows' = [rows EXCEPT ![j.trace].status = "failed"]
             /\ failureLog \subseteq failureLog' /\ LoseDelta(j.trace)
    BY <2>2, <2>4, <2>6, MutedStep
  <2> QED  BY <2>1, <2>3, <2>5, <2>6
<1>7. CASE UNCHANGED <<rows, failureLog, announced, muted>>
  BY <1>7 DEF StatusIsAnnounced
<1>8. ASSUME Poll \/ (\E r \in batch : SkipRequest(r)) \/ Analyze \/ CommitRefused
             \/ Restart \/ Crash \/ UNCHANGED vars
      PROVE  UNCHANGED <<rows, failureLog, announced, muted>>
  BY <1>8 DEF Poll, SkipRequest, Analyze, CommitRefused, Restart, Crash, NewProcess, store, vars
<1> HIDE DEF IInv
<1> QED  BY <1>1, <1>2, <1>3, <1>4, <1>5, <1>6, <1>7, <1>8 DEF Next, Try, Finish

(* Followers know the status of every trace, and a failed analysis has its *)
(* explanation, unless a fault cut the command short.                      *)
THEOREM StatusesAreAnnounced == Spec => []StatusIsAnnounced
<1>1. Init => StatusIsAnnounced  BY DEF Init, StatusIsAnnounced, Absent
<1>2. (IInv /\ StatusIsAnnounced) /\ [Next]_vars => (IInv /\ StatusIsAnnounced)'
  BY StepIInv, StepAnnounces
<1> QED  BY InitIInv, <1>1, <1>2, PTL DEF Spec

-----------------------------------------------------------------------------
(* The queue of candidate jobs: outcomes are true, jobs make cases only of *)
(* what was previewed, the status of a job is true of its outcomes, no     *)
(* step loses achieved work, and the records implement EvalCases.          *)


Types ==
  /\ activeEvidence \in [Findings -> Evidence \cup {Gone}]
  /\ jobs \in [Keys -> JobRows \cup {NoJob}]
  /\ records \subseteq Records
  /\ running \in Executions \cup {Idle}
  /\ running # Idle => jobs[running.key] # NoJob /\ jobs[running.key].status = "running"

OneRecord == \A r, s \in records : r.finding = s.finding => r = s

Reported(k, outcomes) ==
  \A f \in Findings :
    /\ outcomes[f] = "exists" => Exists(f)
    /\ outcomes[f] = "created" => \E r \in records : r.finding = f /\ r.by = k

MemoryIsTrue ==
  running # Idle =>
    /\ Reported(running.key, running.outcomes)
    /\ \A i \in running.todo :
         i \in jobs[running.key].preview.items /\ activeEvidence[i.finding] = i.evidence

Inv == Types /\ OneRecord /\ OutcomesAreTrue /\ OnlyPreviewed /\ MemoryIsTrue

-----------------------------------------------------------------------------
LEMMA PreviewTyped ==
  ASSUME activeEvidence \in [Findings -> Evidence \cup {Gone}], NEW groups \in SUBSET Groups
  PROVE  /\ CurrentPreview(groups) \in Previews
         /\ \A i \in CurrentPreview(groups).items : activeEvidence[i.finding] = i.evidence
<1>1. \A g \in groups : \A f \in Representatives(g) : f \in Findings /\ activeEvidence[f] \in Evidence
  BY DEF Representatives, Members
<1>2. CurrentPreview(groups).items \subseteq Items
  BY <1>1 DEF CurrentPreview, Items
<1> QED  BY <1>1, <1>2 DEF CurrentPreview, Previews

LEMMA StatusesDiffer == Idle.step = "idle" /\ NoJob.status = "none"
  BY DEF Idle, NoJob

LEMMA InitInv == EvalInit => Inv
<1> SUFFICES ASSUME EvalInit PROVE Inv  OBVIOUS
<1> USE DEF EvalInit
<1>1. Types  BY DEF Types
<1>2. OneRecord /\ OutcomesAreTrue /\ OnlyPreviewed /\ MemoryIsTrue
  BY DEF OneRecord, OutcomesAreTrue, OnlyPreviewed, MemoryIsTrue
<1> QED  BY <1>1, <1>2 DEF Inv

LEMMA JobWithStatus ==
  ASSUME NEW j \in JobRows, NEW s \in Pending \cup {"succeeded", "partial", "failed", "cancelled"}
  PROVE  /\ [j EXCEPT !.status = s] \in JobRows
         /\ [j EXCEPT !.status = s].status = s
         /\ [j EXCEPT !.status = s].preview = j.preview
         /\ [j EXCEPT !.status = s].outcomes = j.outcomes
  BY DEF JobRows

LEMMA JobWithOutcomes ==
  ASSUME NEW j \in JobRows, NEW o \in ItemOutcomes
  PROVE  /\ [j EXCEPT !.outcomes = o] \in JobRows
         /\ [j EXCEPT !.outcomes = o].status = j.status
         /\ [j EXCEPT !.outcomes = o].preview = j.preview
         /\ [j EXCEPT !.outcomes = o].outcomes = o
  BY DEF JobRows

(* A job that is rewritten with its own preview and true outcomes.         *)
LEMMA JobRewritten ==
  ASSUME Inv, NEW k \in Keys, NEW j \in JobRows, jobs[k] # NoJob,
         jobs' = [jobs EXCEPT ![k] = j], j.preview = jobs[k].preview,
         Reported(k, j.outcomes), records' = records
  PROVE  jobs' \in [Keys -> JobRows \cup {NoJob}] /\ OutcomesAreTrue' /\ OnlyPreviewed'
<1> USE DEF Inv
<1>1. jobs' \in [Keys -> JobRows \cup {NoJob}]  BY DEF Types
<1>2. jobs'[k] = j /\ \A h \in Keys \ {k} : jobs'[h] = jobs[h]  BY DEF Types
<1>3. j # NoJob  BY DEF JobRows, NoJob
<1>4. OutcomesAreTrue'  BY <1>2 DEF OutcomesAreTrue, Reported, Exists
<1>5. OnlyPreviewed'  BY <1>2, <1>3 DEF OnlyPreviewed
<1> QED  BY <1>1, <1>4, <1>5

(* Making a case of a finding that is in the active analyses.              *)
LEMMA RecordAdded ==
  ASSUME Inv, NEW f \in Findings, NEW by \in Keys \cup {User},
         activeEvidence[f] \in Evidence, AddRecord(f, by), jobs' = jobs,
         by \in Keys => /\ jobs[by] # NoJob
                        /\ [finding |-> f, evidence |-> activeEvidence[f]] \in jobs[by].preview.items
  PROVE  /\ records' \subseteq Records /\ records \subseteq records'
         /\ OneRecord' /\ OutcomesAreTrue' /\ OnlyPreviewed'
<1> USE DEF Inv, AddRecord
<1> DEFINE new == [finding |-> f, evidence |-> activeEvidence[f], by |-> by, state |-> "pending"]
<1>1. new \in Records  BY DEF Records
<1>2. records' = records \/ (records' = records \cup {new} /\ ~Exists(f))  OBVIOUS
<1>3. records' \subseteq Records /\ records \subseteq records'
  BY <1>1, <1>2 DEF Types
<1>4. OneRecord'  BY <1>2 DEF OneRecord, Exists
<1>5. OutcomesAreTrue'  BY <1>3 DEF OutcomesAreTrue, Exists
<1>6. OnlyPreviewed'  BY <1>2 DEF OnlyPreviewed
<1> QED  BY <1>3, <1>4, <1>5, <1>6

LEMMA StartInv == ASSUME Inv, NEW k \in Keys, Start(k) PROVE Inv'
<1> USE DEF Inv
<1> DEFINE current == CurrentPreview(jobs[k].preview.groups)
<1>1. jobs[k] \in JobRows /\ jobs[k] # NoJob /\ running = Idle /\ records' = records /\ activeEvidence' = activeEvidence
  BY DEF Start, Executable, Types
<1>2. Reported(k, jobs[k].outcomes)  BY <1>1 DEF OutcomesAreTrue, Reported
<1>3. OneRecord'  BY <1>1 DEF OneRecord
<1>4. CASE current # jobs[k].preview
  <2> DEFINE j == [jobs[k] EXCEPT !.status = "failed"]
  <2>1. j \in JobRows /\ j.preview = jobs[k].preview /\ j.outcomes = jobs[k].outcomes
    BY <1>1, JobWithStatus
  <2>2. jobs' = [jobs EXCEPT ![k] = j] /\ running' = Idle  BY <1>1, <1>4 DEF Start
  <2>3. jobs' \in [Keys -> JobRows \cup {NoJob}] /\ OutcomesAreTrue' /\ OnlyPreviewed'
    <3> HIDE DEF j
    <3> QED  BY <1>1, <1>2, <2>1, <2>2, JobRewritten
  <2> QED  BY <1>1, <1>3, <2>2, <2>3 DEF Types, MemoryIsTrue
<1>5. CASE current = jobs[k].preview
  <2> DEFINE j == [jobs[k] EXCEPT !.status = "running"]
  <2>1. j \in JobRows /\ j.preview = jobs[k].preview /\ j.outcomes = jobs[k].outcomes
        /\ j.status = "running"
    BY <1>1, JobWithStatus DEF Pending
  <2>2. jobs' = [jobs EXCEPT ![k] = j]  BY <1>1, <1>5 DEF Start
  <2>3. jobs' \in [Keys -> JobRows \cup {NoJob}] /\ OutcomesAreTrue' /\ OnlyPreviewed'
    <3> HIDE DEF j
    <3> QED  BY <1>1, <1>2, <2>1, <2>2, JobRewritten
  <2>4. running' = [step |-> "create", key |-> k, outcomes |-> jobs[k].outcomes,
                    todo |-> {i \in current.items : jobs[k].outcomes[i.finding] = "none"}]
    BY <1>5 DEF Start
  <2>5. jobs'[k] = j  BY <2>2 DEF Types
  <2>6. jobs[k].preview.groups \in SUBSET Groups  BY <1>1 DEF JobRows, Previews
  <2>7. current \in Previews /\ \A i \in current.items : activeEvidence[i.finding] = i.evidence
    BY <2>6, PreviewTyped DEF Types
  <2>8. running' \in Executions
    <3>1. jobs[k].outcomes \in ItemOutcomes  BY <1>1 DEF JobRows
    <3>2. current.items \subseteq Items  BY <2>7 DEF Previews
    <3> HIDE DEF current
    <3> QED  BY <2>4, <3>1, <3>2 DEF Executions
  <2>9. Types'
    <3>1. j # NoJob  BY <2>1 DEF JobRows, NoJob
    <3> QED  BY <1>1, <2>1, <2>3, <2>4, <2>5, <2>8, <3>1 DEF Types
  <2>10. MemoryIsTrue'
    <3>1. Reported(k, jobs[k].outcomes)'  BY <1>1, <1>2, <2>1, <2>3, <2>5 DEF Reported, Exists
    <3>2. Reported(running.key, running.outcomes)'  BY <2>4, <1>2, <1>1 DEF Reported, Exists
    <3>3. \A i \in running'.todo : i \in j.preview.items /\ activeEvidence[i.finding] = i.evidence
      BY <1>5, <2>1, <2>4, <2>7
    <3> QED  BY <1>1, <2>4, <2>5, <3>2, <3>3 DEF MemoryIsTrue
  <2> QED  BY <1>3, <2>3, <2>9, <2>10
<1> QED  BY <1>4, <1>5

LEMMA ExecutionTyped ==
  ASSUME Inv, running # Idle
  PROVE  /\ running \in Executions /\ running.key \in Keys /\ running.outcomes \in ItemOutcomes
         /\ jobs[running.key] \in JobRows /\ jobs[running.key] # NoJob
         /\ jobs[running.key].status = "running"
  BY DEF Inv, Types, Executions

LEMMA CreateItemInv == ASSUME Inv, CreateItem PROVE Inv'
<1> DEFINE k == running.key
<1>1. running # Idle  BY StatusesDiffer DEF CreateItem
<1>2. /\ running \in Executions /\ k \in Keys /\ running.outcomes \in ItemOutcomes
      /\ jobs[k] # NoJob /\ jobs[k].status = "running" /\ jobs' = jobs /\ activeEvidence' = activeEvidence
  BY <1>1, ExecutionTyped DEF CreateItem
<1>3. PICK i \in running.todo :
        \/ AddRecord(i.finding, k) /\ Remember(i, Outcome(i.finding))
        \/ Remember(i, "failed") /\ records' = records
  BY DEF CreateItem
<1>4. i \in Items /\ i.finding \in Findings /\ i.evidence \in Evidence
      /\ i \in jobs[k].preview.items /\ activeEvidence[i.finding] = i.evidence
  BY <1>1, <1>2 DEF Executions, Items, Inv, MemoryIsTrue
<1>5. i = [finding |-> i.finding, evidence |-> activeEvidence[i.finding]]  BY <1>4 DEF Items
<1>6. PICK o \in Good \cup {"failed"} :
        /\ Remember(i, o)
        /\ \/ o = "failed" /\ records' = records
           \/ o = Outcome(i.finding) /\ AddRecord(i.finding, k)
  BY <1>3 DEF Outcome, Good
<1>7. records' \subseteq Records /\ records \subseteq records'
      /\ OneRecord' /\ OutcomesAreTrue' /\ OnlyPreviewed'
  <2>1. CASE records' = records
    BY <1>2, <2>1 DEF Inv, Types, OneRecord, OutcomesAreTrue, OnlyPreviewed, Exists
  <2>2. CASE AddRecord(i.finding, k)
    BY <1>2, <1>4, <1>5, <2>2, RecordAdded
  <2> QED  BY <1>6, <2>1, <2>2
<1>8. /\ running' \in Executions /\ running'.key = k
      /\ running'.outcomes = [running.outcomes EXCEPT ![i.finding] = o]
      /\ running'.todo \subseteq running.todo
  <2>1. [running.outcomes EXCEPT ![i.finding] = o] \in ItemOutcomes  BY <1>2, <1>4 DEF ItemOutcomes, Good
  <2> QED  BY <1>2, <1>6, <2>1 DEF Remember, Executions
<1>9. Types'  BY <1>2, <1>7, <1>8 DEF Inv, Types
<1>10. Reported(k, running.outcomes)'
  <2> SUFFICES ASSUME NEW f \in Findings
               PROVE  /\ running'.outcomes[f] = "exists" => Exists(f)'
                      /\ running'.outcomes[f] = "created" =>
                           \E r \in records' : r.finding = f /\ r.by = k
    BY <1>8 DEF Reported, Exists
  <2>1. /\ running.outcomes[f] = "exists" => Exists(f)
        /\ running.outcomes[f] = "created" => \E r \in records : r.finding = f /\ r.by = k
    BY <1>1 DEF Inv, MemoryIsTrue, Reported
  <2>2. CASE f # i.finding
    BY <1>2, <1>7, <1>8, <2>1, <2>2 DEF Exists, ItemOutcomes
  <2>3. CASE f = i.finding
    <3>1. running'.outcomes[f] = o  BY <1>2, <1>8, <2>3 DEF ItemOutcomes
    <3>2. CASE o = "failed"  BY <3>1, <3>2
    <3>3. CASE Exists(f) /\ o = "exists"
      BY <3>1, <3>3, <1>7 DEF Exists
    <3>4. CASE ~Exists(f) /\ o = "created" /\ AddRecord(f, k)
      <4>1. [finding |-> f, evidence |-> activeEvidence[f], by |-> k, state |-> "pending"] \in records'
        BY <3>4 DEF AddRecord
      <4>2. \E r \in records' : r.finding = f /\ r.by = k  BY <4>1
      <4> QED  BY <3>1, <3>4, <4>2
    <3> QED  BY <1>6, <2>3, <3>2, <3>3, <3>4 DEF Outcome
  <2> QED  BY <2>2, <2>3
<1>11. MemoryIsTrue'
  <2>1. Reported(running.key, running.outcomes)'
    BY <1>8, <1>10 DEF Reported, Exists
  <2> QED  BY <1>1, <1>2, <1>8, <2>1 DEF Inv, MemoryIsTrue
<1> QED  BY <1>7, <1>9, <1>11 DEF Inv

LEMMA PersistOutcomeInv == ASSUME Inv, PersistOutcome PROVE Inv'
<1> DEFINE k == running.key
           j == [jobs[k] EXCEPT !.outcomes = running.outcomes]
<1>1. running # Idle  BY StatusesDiffer DEF PersistOutcome
<1>2. /\ running \in Executions /\ k \in Keys /\ running.outcomes \in ItemOutcomes
      /\ jobs[k] \in JobRows /\ jobs[k] # NoJob /\ jobs[k].status = "running"
      /\ activeEvidence' = activeEvidence /\ records' = records
  BY <1>1, ExecutionTyped DEF PersistOutcome
<1>3. j \in JobRows /\ j.preview = jobs[k].preview /\ j.outcomes = running.outcomes
      /\ j.status = "running"
  BY <1>2, JobWithOutcomes
<1>4. jobs' = [jobs EXCEPT ![k] = j] /\ jobs'[k] = j /\ j # NoJob
  <2>1. jobs' = [jobs EXCEPT ![k] = j]  BY DEF PersistOutcome
  <2> HIDE DEF j
  <2> QED  BY <2>1, <1>2, <1>3 DEF Inv, Types, JobRows, NoJob
<1>5. Reported(k, running.outcomes)  BY <1>1 DEF Inv, MemoryIsTrue
<1>6. running' \in Executions /\ running'.key = k /\ running'.outcomes = running.outcomes
      /\ running'.todo = running.todo
  BY <1>2 DEF PersistOutcome, Executions
<1> HIDE DEF j
<1>7. jobs' \in [Keys -> JobRows \cup {NoJob}] /\ OutcomesAreTrue' /\ OnlyPreviewed'
  BY <1>2, <1>3, <1>4, <1>5, JobRewritten
<1>8. Types'  BY <1>2, <1>3, <1>4, <1>6, <1>7 DEF Inv, Types
<1>9. OneRecord'  BY <1>2 DEF Inv, OneRecord
<1>10. MemoryIsTrue'
  <2>1. Reported(running.key, running.outcomes)'
    BY <1>2, <1>5, <1>6 DEF Reported, Exists
  <2> QED  BY <1>1, <1>2, <1>3, <1>4, <1>6, <2>1 DEF Inv, MemoryIsTrue
<1> QED  BY <1>7, <1>8, <1>9, <1>10 DEF Inv

(* What only changes the status of a job that nobody executes afterwards.  *)
LEMMA StatusChanged ==
  ASSUME Inv, NEW k \in Keys, jobs[k] # NoJob,
         NEW s \in Pending \cup {"succeeded", "partial", "failed", "cancelled"},
         NEW o \in ItemOutcomes, Reported(k, o),
         jobs' = [jobs EXCEPT ![k] = [[jobs[k] EXCEPT !.status = s] EXCEPT !.outcomes = o]],
         running' = Idle, activeEvidence' = activeEvidence, records' = records
  PROVE  Inv'
<1> DEFINE j == [[jobs[k] EXCEPT !.status = s] EXCEPT !.outcomes = o]
<1>1. jobs[k] \in JobRows  BY DEF Inv, Types
<1>2. j \in JobRows /\ j.preview = jobs[k].preview /\ j.outcomes = o
  <2> DEFINE stepped == [jobs[k] EXCEPT !.status = s]
  <2>1. stepped \in JobRows /\ stepped.preview = jobs[k].preview  BY <1>1, JobWithStatus
  <2>2. j = [stepped EXCEPT !.outcomes = o]  OBVIOUS
  <2> HIDE DEF stepped, j
  <2> QED  BY <2>1, <2>2, JobWithOutcomes
<1>3. jobs' = [jobs EXCEPT ![k] = j]  OBVIOUS
<1> HIDE DEF j
<1>4. jobs' \in [Keys -> JobRows \cup {NoJob}] /\ OutcomesAreTrue' /\ OnlyPreviewed'
  BY <1>2, <1>3, JobRewritten
<1> QED  BY <1>4 DEF Inv, Types, OneRecord, MemoryIsTrue

LEMMA FinishInv == ASSUME Inv, FinishJob PROVE Inv'
<1> DEFINE k == running.key
<1>1. running # Idle  BY StatusesDiffer DEF FinishJob
<1>2. k \in Keys /\ jobs[k] \in JobRows /\ jobs[k] # NoJob /\ running.outcomes \in ItemOutcomes
  BY <1>1, ExecutionTyped
<1>3. jobs[k].outcomes \in ItemOutcomes /\ Reported(k, jobs[k].outcomes)
  BY <1>2 DEF JobRows, Inv, OutcomesAreTrue, Reported
<1>4. FinalStatus(running.outcomes) \in {"succeeded", "partial", "failed"}
  BY DEF FinalStatus
<1> DEFINE s == FinalStatus(running.outcomes)
           j == [jobs[k] EXCEPT !.status = s]
<1>5. j = [[jobs[k] EXCEPT !.status = s] EXCEPT !.outcomes = jobs[k].outcomes]
  <2> HIDE DEF s
  <2> QED  BY <1>2 DEF JobRows
<1>6. jobs' = [jobs EXCEPT ![k] = j] /\ running' = Idle /\ activeEvidence' = activeEvidence /\ records' = records
  BY DEF FinishJob
<1> HIDE DEF j, s
<1> QED  BY <1>2, <1>3, <1>4, <1>5, <1>6, StatusChanged DEF s

LEMMA CancelBatchInv == ASSUME Inv, NEW k \in Keys, CancelBatch(k) PROVE Inv'
<1> DEFINE j == [jobs[k] EXCEPT !.status = "cancelled"]
<1>1. jobs[k] \in JobRows /\ jobs[k] # NoJob
  BY DEF CancelBatch, Executable, Inv, Types
<1>2. jobs[k].outcomes \in ItemOutcomes /\ Reported(k, jobs[k].outcomes)
  BY <1>1 DEF JobRows, Inv, OutcomesAreTrue, Reported
<1>3. j = [[jobs[k] EXCEPT !.status = "cancelled"] EXCEPT !.outcomes = jobs[k].outcomes]
  BY <1>1 DEF JobRows
<1>4. jobs' = [jobs EXCEPT ![k] = j] /\ running' = Idle /\ activeEvidence' = activeEvidence /\ records' = records
  BY DEF CancelBatch
<1> HIDE DEF j
<1> QED  BY <1>1, <1>2, <1>3, <1>4, StatusChanged

LEMMA RetryBatchInv == ASSUME Inv, NEW k \in Keys, RetryBatch(k) PROVE Inv'
<1> DEFINE o == Kept(jobs[k].outcomes)
           j == [[jobs[k] EXCEPT !.status = "queued"] EXCEPT !.outcomes = o]
<1>1. jobs[k] \in JobRows /\ jobs[k] # NoJob
  BY DEF RetryBatch, Inv, Types
<1>2. jobs[k].outcomes \in ItemOutcomes /\ Reported(k, jobs[k].outcomes)
  BY <1>1 DEF JobRows, Inv, OutcomesAreTrue, Reported
<1>3. o \in ItemOutcomes  BY <1>2 DEF Kept, ItemOutcomes, Good
<1>4. \A f \in Findings : o[f] \in Good => o[f] = jobs[k].outcomes[f]
  BY DEF Kept, Good
<1>5. Reported(k, o)  BY <1>2, <1>4 DEF Reported, Good
<1>6. jobs' = [jobs EXCEPT ![k] = j] /\ running' = Idle /\ activeEvidence' = activeEvidence /\ records' = records
  BY <1>1 DEF RetryBatch, JobRows
<1> HIDE DEF j, o
<1> QED  BY <1>1, <1>3, <1>5, <1>6, StatusChanged DEF Pending, j

LEMMA QueueBatchInv == ASSUME Inv, NEW k \in Keys, QueueBatch(k) PROVE Inv'
<1>1. PICK groups \in SUBSET Groups :
        jobs' = [jobs EXCEPT ![k] = [status |-> "queued", preview |-> CurrentPreview(groups),
                                     outcomes |-> NoOutcomes]]
  BY DEF QueueBatch
<1> DEFINE j == [status |-> "queued", preview |-> CurrentPreview(groups),
                 outcomes |-> NoOutcomes]
<1>2. running' = Idle /\ activeEvidence' = activeEvidence /\ records' = records /\ jobs[k] = NoJob
  BY DEF QueueBatch
<1>3. CurrentPreview(groups) \in Previews  BY PreviewTyped DEF Inv, Types
<1>4. NoOutcomes \in ItemOutcomes  BY DEF NoOutcomes, ItemOutcomes
<1>5. j \in JobRows  BY <1>3, <1>4 DEF JobRows, Pending
<1>6. jobs'[k] = j /\ \A h \in Keys \ {k} : jobs'[h] = jobs[h]
  BY <1>1 DEF Inv, Types
<1>7. \A f \in Findings : j.outcomes[f] = "none"  BY DEF NoOutcomes
<1>8. j # NoJob  BY DEF NoJob
<1>9. jobs' \in [Keys -> JobRows \cup {NoJob}]
  <2> HIDE DEF j
  <2> QED  BY <1>1, <1>5 DEF Inv, Types, j
<1> HIDE DEF j
<1>10. Types' /\ OneRecord' /\ MemoryIsTrue'
  BY <1>2, <1>9 DEF Inv, Types, OneRecord, MemoryIsTrue
<1>11. OutcomesAreTrue'
  BY <1>2, <1>6, <1>7 DEF Inv, OutcomesAreTrue, Exists
<1>12. OnlyPreviewed'
  BY <1>2, <1>6, <1>8 DEF Inv, OnlyPreviewed
<1> QED  BY <1>10, <1>11, <1>12 DEF Inv

LEMMA CreateSingleInv == ASSUME Inv, CreateSingle PROVE Inv'
<1>1. PICK f \in Findings : activeEvidence[f] # Gone /\ AddRecord(f, User)
  BY DEF CreateSingle
<1>2. jobs' = jobs /\ activeEvidence' = activeEvidence /\ running' = Idle /\ running = Idle
  BY DEF CreateSingle
<1>3. activeEvidence[f] \in Evidence  BY <1>1 DEF Inv, Types
<1>4. User \in Keys \cup {User} /\ User \notin Keys  BY EvalAssumption
<1>5. records' \subseteq Records /\ OneRecord' /\ OutcomesAreTrue' /\ OnlyPreviewed'
  BY <1>1, <1>2, <1>3, <1>4, RecordAdded
<1> QED  BY <1>2, <1>5 DEF Inv, Types, MemoryIsTrue

(* A review changes nothing but the state of one record.                   *)
LEMMA ReviewCaseInv == ASSUME Inv, ReviewCase PROVE Inv'
<1>1. PICK r \in records, s \in {"deferred", "accepted", "rejected"} :
        Reviewable(r) /\ records' = (records \ {r}) \cup {[r EXCEPT !.state = s]}
  BY DEF ReviewCase
<1>2. jobs' = jobs /\ activeEvidence' = activeEvidence /\ running' = Idle /\ running = Idle
  BY DEF ReviewCase
<1> DEFINE new == [r EXCEPT !.state = s]
<1>3. new \in Records /\ new.finding = r.finding /\ new.evidence = r.evidence /\ new.by = r.by
  BY <1>1 DEF Inv, Types, Records
<1> HIDE DEF new
<1>4. records' = (records \ {r}) \cup {new}  BY <1>1 DEF new
<1>5. Types'  BY <1>2, <1>3, <1>4 DEF Inv, Types
<1>6. OneRecord'  BY <1>3, <1>4 DEF Inv, OneRecord
<1>7. \A x \in records : \E y \in records' : y.finding = x.finding /\ y.by = x.by
  BY <1>3, <1>4
<1>8. OutcomesAreTrue'  BY <1>2, <1>7 DEF Inv, OutcomesAreTrue, Exists
<1>9. OnlyPreviewed'  BY <1>2, <1>3, <1>4 DEF Inv, OnlyPreviewed
<1> QED  BY <1>2, <1>5, <1>6, <1>8, <1>9 DEF Inv, MemoryIsTrue

LEMMA NextInv == ASSUME Inv, [EvalNext]_evalVars PROVE Inv'
<1>1. CASE Reanalyze
  <2>1. activeEvidence' \in [Findings -> Evidence \cup {Gone}]  BY <1>1 DEF Reanalyze, Inv, Types
  <2> QED  BY <1>1, <2>1 DEF Reanalyze, Inv, Types, OneRecord, OutcomesAreTrue, OnlyPreviewed,
             MemoryIsTrue, Exists
<1>2. CASE Interrupt
  BY <1>2 DEF Interrupt, Inv, Types, OneRecord, OutcomesAreTrue, OnlyPreviewed,
     MemoryIsTrue, Exists
<1>3. CASE UNCHANGED evalVars
  BY <1>3 DEF evalVars, Inv, Types, OneRecord, OutcomesAreTrue, OnlyPreviewed,
     MemoryIsTrue, Exists, Reported
<1>4. CASE Execute
  BY <1>4, CreateItemInv, PersistOutcomeInv, FinishInv DEF Execute
<1>5. CASE CreateSingle \/ ReviewCase  BY <1>5, CreateSingleInv, ReviewCaseInv
<1>6. CASE \E k \in Keys : Command(k)
  BY <1>6, QueueBatchInv, StartInv, CancelBatchInv, RetryBatchInv DEF Command
<1> QED  BY <1>1, <1>2, <1>3, <1>4, <1>5, <1>6 DEF EvalNext

LEMMA InvHolds == EvalSpec => []Inv
  BY InitInv, NextInv, PTL DEF EvalSpec

(* What a job reports is true, whatever interrupts, retries or competes    *)
(* with it.                                                                *)
THEOREM OutcomesStayTrue == EvalSpec => []OutcomesAreTrue
  BY InvHolds, PTL DEF Inv

(* A job makes cases only of previewed items, with the previewed evidence. *)
THEOREM JobsMakeWhatWasPreviewed == EvalSpec => []OnlyPreviewed
  BY InvHolds, PTL DEF Inv

-----------------------------------------------------------------------------
(* The refinement of EvalCases.                                            *)

Cases == {Case(r) : r \in records}

LEMMA AddRecordImplements ==
  ASSUME Inv, NEW f \in Findings, NEW by, activeEvidence[f] \in Evidence, AddRecord(f, by)
  PROVE  EC!Create \/ Cases' = Cases
<1>1. CASE Exists(f)  BY <1>1 DEF AddRecord, Cases
<1>2. CASE ~Exists(f)
  <2> DEFINE new == [finding |-> f, evidence |-> activeEvidence[f], by |-> by, state |-> "pending"]
             c == [finding |-> f, evidence |-> activeEvidence[f], state |-> "pending"]
  <2>1. records' = records \cup {new}  BY <1>2 DEF AddRecord
  <2>2. Case(new) = c  BY DEF Case
  <2>3. {Case(r) : r \in records'} = {Case(r) : r \in records} \cup {c}
    <3> HIDE DEF new, c
    <3> QED  BY <2>1, <2>2
  <2>4. \A r \in records : Case(r).finding # f  BY <1>2 DEF Exists, Case
  <2> QED  BY <2>3, <2>4 DEF EC!Create
<1> QED  BY <1>1, <1>2

LEMMA ReviewImplements == ASSUME Inv, ReviewCase PROVE EC!Review
<1>1. PICK r \in records, s \in {"deferred", "accepted", "rejected"} :
        Reviewable(r) /\ records' = (records \ {r}) \cup {[r EXCEPT !.state = s]}
  BY DEF ReviewCase
<1> DEFINE new == [r EXCEPT !.state = s]
           c == Case(r)
<1>2. r \in Records  BY <1>1 DEF Inv, Types
<1>3. Case(new) = [c EXCEPT !.state = s]  BY <1>2 DEF Case, Records
<1>4. c.state \in {"pending", "deferred"}  BY <1>1 DEF Case, Reviewable
<1>5. \A x \in records \ {r} : Case(x) # c
  BY DEF Inv, OneRecord, Case
<1>6. {Case(x) : x \in records'} = ({Case(x) : x \in records} \ {c}) \cup {[c EXCEPT !.state = s]}
  <2> DEFINE d == [c EXCEPT !.state = s]
  <2>1. records' = (records \ {r}) \cup {new} /\ Case(new) = d  BY <1>1, <1>3
  <2>2. \A x \in records : Case(x) = c <=> x = r  BY <1>5
  <2> HIDE DEF new, d, c
  <2>3. {Case(x) : x \in records'} = {Case(x) : x \in records \ {r}} \cup {d}  BY <2>1
  <2>4. {Case(x) : x \in records \ {r}} = {Case(x) : x \in records} \ {c}  BY <2>2
  <2> QED  BY <2>3, <2>4 DEF d
<1>7. c \in {Case(x) : x \in records}  OBVIOUS
<1> HIDE DEF c
<1> QED  BY <1>4, <1>6, <1>7 DEF EC!Review

LEMMA StepImplements == ASSUME Inv, [EvalNext]_evalVars PROVE EC!Next \/ Cases' = Cases
<1>1. CASE CreateItem
  <2>1. CASE records' = records  BY <2>1 DEF Cases
  <2>2. CASE records' # records
    <3>1. running # Idle  BY <1>1, StatusesDiffer DEF CreateItem
    <3>2. PICK i \in running.todo : AddRecord(i.finding, running.key)
      BY <1>1, <2>2 DEF CreateItem
    <3>3. i.finding \in Findings /\ activeEvidence[i.finding] \in Evidence
      BY <3>1 DEF Inv, Types, MemoryIsTrue, Executions, Items
    <3> QED  BY <3>2, <3>3, AddRecordImplements DEF EC!Next
  <2> QED  BY <2>1, <2>2
<1>2. CASE CreateSingle
  <2>1. PICK f \in Findings : activeEvidence[f] # Gone /\ AddRecord(f, User)
    BY <1>2 DEF CreateSingle
  <2>2. activeEvidence[f] \in Evidence  BY <2>1 DEF Inv, Types
  <2> QED  BY <2>1, <2>2, AddRecordImplements DEF EC!Next
<1>3. CASE ReviewCase  BY <1>3, ReviewImplements DEF EC!Next
<1>4. CASE UNCHANGED records  BY <1>4 DEF Cases
<1>5. CASE Reanalyze \/ PersistOutcome \/ FinishJob \/ Interrupt \/ UNCHANGED evalVars
           \/ \E k \in Keys : Command(k)
  <2>1. UNCHANGED records
    BY <1>5 DEF Reanalyze, PersistOutcome, FinishJob, Interrupt, evalVars, Command, QueueBatch,
       Start, CancelBatch, RetryBatch
  <2> QED  BY <2>1, <1>4
<1> QED  BY <1>1, <1>2, <1>3, <1>5 DEF EvalNext, Execute

(* Whatever is generated, retried, resumed or reviewed: one case per       *)
(* finding, its evidence never changes, and decisions are final.           *)
THEOREM RecordsImplementCases == EvalSpec => ImplementsCases
<1>1. EvalInit => EC!Init  BY DEF EvalInit, EC!Init
<1>2. Inv /\ [EvalNext]_evalVars => [EC!Next]_Cases  BY StepImplements
<1> QED  BY <1>1, <1>2, InvHolds, PTL DEF EvalSpec, ImplementsCases, EC!Spec, Cases

-----------------------------------------------------------------------------
(* The accounts of a job: outcomes are of previewed findings, an execution *)
(* has still to do exactly what has no outcome, and it loses no good one.  *)
Within(preview, outcomes) ==
  \A f \in Findings : outcomes[f] # "none" => \E i \in preview.items : i.finding = f

StatusFits(j) ==
  LET previewed == {i.finding : i \in j.preview.items}
  IN  /\ j.status = "succeeded" => \A f \in previewed : j.outcomes[f] \in Good
      /\ j.status = "partial" =>
           /\ \A f \in previewed : j.outcomes[f] # "none"
           /\ \E f \in previewed : j.outcomes[f] \in Good
           /\ \E f \in previewed : j.outcomes[f] \notin Good

JobsAreAccounted ==
  \A k \in Keys : jobs[k] # NoJob =>
    Within(jobs[k].preview, jobs[k].outcomes) /\ StatusFits(jobs[k])

ExecutionIsAccounted ==
  running # Idle =>
    /\ Within(jobs[running.key].preview, running.outcomes)
    /\ \A i \in jobs[running.key].preview.items :
         running.outcomes[i.finding] = "none" => i \in running.todo
    /\ \A i \in running.todo : running.outcomes[i.finding] = "none"
    /\ \A f \in Findings : jobs[running.key].outcomes[f] \in Good =>
         running.outcomes[f] = jobs[running.key].outcomes[f]
    /\ running.step = "create" => jobs[running.key].outcomes = running.outcomes

Account == JobsAreAccounted /\ ExecutionIsAccounted

LEMMA InitAccount == EvalInit => Account
  BY DEF EvalInit, Account, JobsAreAccounted, ExecutionIsAccounted

(* A job that is neither being executed nor written.                       *)
LEMMA Unfinished ==
  ASSUME NEW j, j.status \notin {"succeeded", "partial"}
  PROVE  StatusFits(j)
  BY DEF StatusFits

LEMMA JobAccounted ==
  ASSUME Inv, JobsAreAccounted, NEW k \in Keys, NEW j, jobs' = [jobs EXCEPT ![k] = j],
         Within(j.preview, j.outcomes), StatusFits(j)
  PROVE  JobsAreAccounted'
<1>1. jobs'[k] = j /\ \A h \in Keys \ {k} : jobs'[h] = jobs[h]  BY DEF Inv, Types
<1> SUFFICES ASSUME NEW h \in Keys, jobs'[h] # NoJob
             PROVE  Within(jobs'[h].preview, jobs'[h].outcomes) /\ StatusFits(jobs'[h])
  BY DEF JobsAreAccounted, Within, StatusFits
<1>2. CASE h = k  BY <1>1, <1>2
<1>3. CASE h # k  BY <1>1, <1>3 DEF JobsAreAccounted
<1> QED  BY <1>2, <1>3

LEMMA StartAccount == ASSUME Inv, Account, NEW k \in Keys, Start(k) PROVE Account'
<1> DEFINE current == CurrentPreview(jobs[k].preview.groups)
<1>1. jobs[k] \in JobRows /\ jobs[k] # NoJob /\ running = Idle
  BY DEF Start, Executable, Inv, Types
<1>2. Within(jobs[k].preview, jobs[k].outcomes)  BY <1>1 DEF Account, JobsAreAccounted
<1>3. PICK s \in {"failed", "running"} :
        /\ jobs' = [jobs EXCEPT ![k].status = s]
        /\ s = "failed" => running' = running
        /\ s = "running" =>
             /\ current = jobs[k].preview
             /\ running' = [step |-> "create", key |-> k, outcomes |-> jobs[k].outcomes,
                            todo |-> {i \in current.items :
                                        jobs[k].outcomes[i.finding] = "none"}]
  BY DEF Start
<1> DEFINE j == [jobs[k] EXCEPT !.status = s]
<1>4. /\ j.status = s /\ j.preview = jobs[k].preview /\ j.outcomes = jobs[k].outcomes
  BY <1>1, JobWithStatus DEF Pending
<1>5. jobs' = [jobs EXCEPT ![k] = j]  BY <1>3
<1> HIDE DEF j, current
<1>6. JobsAreAccounted'
  BY <1>2, <1>4, <1>5, Unfinished, JobAccounted DEF Account
<1>7. jobs'[k] = j  BY <1>5 DEF Inv, Types
<1>8. CASE s = "failed"
  BY <1>1, <1>3, <1>6, <1>8 DEF Account, ExecutionIsAccounted
<1>9. CASE s = "running"
  <2>1. /\ running'.step = "create" /\ running'.key = k /\ running'.outcomes = jobs[k].outcomes
        /\ running'.todo = {i \in jobs[k].preview.items :
                              jobs[k].outcomes[i.finding] = "none"}
    BY <1>3, <1>9
  <2>2. Within(jobs'[k].preview, running'.outcomes)  BY <1>2, <1>4, <1>7, <2>1
  <2>3. ExecutionIsAccounted'
    BY <1>4, <1>7, <2>1, <2>2 DEF ExecutionIsAccounted, Within
  <2> QED  BY <1>6, <2>3 DEF Account
<1> QED  BY <1>3, <1>8, <1>9

(* The remaining items have different findings: each is what the active    *)
(* analysis says of its finding.                                           *)
LEMMA CreateItemAccount == ASSUME Inv, Account, CreateItem PROVE Account'
<1> DEFINE k == running.key
<1>1. running # Idle  BY StatusesDiffer DEF CreateItem
<1>2. /\ running \in Executions /\ k \in Keys /\ running.outcomes \in ItemOutcomes
      /\ jobs[k] # NoJob /\ jobs' = jobs
  BY <1>1, ExecutionTyped DEF CreateItem
<1>3. PICK i \in running.todo, o \in Good \cup {"failed"} : Remember(i, o)
  BY DEF CreateItem, Outcome, Good
<1>4. /\ i \in Items /\ i \in jobs[k].preview.items
      /\ \A x \in running.todo : x \in Items /\ activeEvidence[x.finding] = x.evidence
  BY <1>1, <1>2 DEF Executions, Inv, MemoryIsTrue
<1>5. /\ running' \in [step : {"persist"}, key : {k}, outcomes : ItemOutcomes, todo : SUBSET Items]
      /\ running'.outcomes = [running.outcomes EXCEPT ![i.finding] = o]
      /\ running'.todo = running.todo \ {i}
  <2>1. [running.outcomes EXCEPT ![i.finding] = o] \in ItemOutcomes
    BY <1>2, <1>4 DEF ItemOutcomes, Good, Items
  <2> QED  BY <1>2, <1>3, <2>1 DEF Remember, Executions
<1>6. \A f \in Findings : running'.outcomes[f] = IF f = i.finding THEN o ELSE running.outcomes[f]
  BY <1>2, <1>5 DEF ItemOutcomes
<1>7. \A x \in running.todo : x.finding = i.finding => x = i
  BY <1>4 DEF Items
<1>8. i.finding \in Findings /\ \A x \in running.todo : x.finding \in Findings
  BY <1>4 DEF Items
<1>9. running.outcomes[i.finding] = "none" /\ jobs[k].outcomes = running.outcomes
  BY <1>1 DEF CreateItem, Account, ExecutionIsAccounted
<1>10. Within(jobs'[k].preview, running'.outcomes)
  BY <1>1, <1>2, <1>4, <1>6 DEF Account, ExecutionIsAccounted, Within
<1>11. \A x \in jobs'[k].preview.items : running'.outcomes[x.finding] = "none" => x \in running'.todo
  <2> SUFFICES ASSUME NEW x \in jobs[k].preview.items, running'.outcomes[x.finding] = "none"
               PROVE  x \in running'.todo
    BY <1>2
  <2>1. x.finding \in Findings
    BY <1>2 DEF Inv, Types, JobRows, Previews, Items
  <2>2. x.finding # i.finding  BY <1>6, <2>1 DEF Good
  <2> QED  BY <1>1, <1>5, <1>6, <2>1, <2>2 DEF Account, ExecutionIsAccounted
<1>12. \A x \in running'.todo : running'.outcomes[x.finding] = "none"
  BY <1>1, <1>5, <1>6, <1>7, <1>8 DEF Account, ExecutionIsAccounted
<1>13. \A f \in Findings : jobs'[k].outcomes[f] \in Good => running'.outcomes[f] = jobs'[k].outcomes[f]
  BY <1>2, <1>6, <1>9 DEF Good
<1>14. running'.key = k /\ running'.step # "create"  BY <1>5
<1>15. ExecutionIsAccounted'
  BY <1>10, <1>11, <1>12, <1>13, <1>14 DEF ExecutionIsAccounted, Within
<1>16. JobsAreAccounted'  BY <1>2 DEF Account, JobsAreAccounted, Within, StatusFits
<1> QED  BY <1>15, <1>16 DEF Account

LEMMA PersistOutcomeAccount == ASSUME Inv, Account, PersistOutcome PROVE Account'
<1> DEFINE k == running.key
           j == [jobs[k] EXCEPT !.outcomes = running.outcomes]
<1>1. running # Idle  BY StatusesDiffer DEF PersistOutcome
<1>2. /\ running \in Executions /\ k \in Keys /\ running.outcomes \in ItemOutcomes
      /\ jobs[k] \in JobRows /\ jobs[k] # NoJob /\ jobs[k].status = "running"
  BY <1>1, ExecutionTyped
<1>3. j.preview = jobs[k].preview /\ j.outcomes = running.outcomes /\ j.status = "running"
  BY <1>2, JobWithOutcomes
<1>4. jobs' = [jobs EXCEPT ![k] = j]  BY DEF PersistOutcome
<1>5. running'.key = k /\ running'.outcomes = running.outcomes /\ running'.todo = running.todo
  BY <1>2 DEF PersistOutcome, Executions
<1> HIDE DEF j
<1>6. Within(j.preview, j.outcomes)  BY <1>1, <1>3 DEF Account, ExecutionIsAccounted
<1>7. JobsAreAccounted'  BY <1>2, <1>3, <1>4, <1>6, Unfinished, JobAccounted DEF Account
<1>8. jobs'[k] = j  BY <1>2, <1>4 DEF Inv, Types
<1>9. ExecutionIsAccounted'
  BY <1>1, <1>3, <1>5, <1>8 DEF Account, ExecutionIsAccounted, Within
<1> QED  BY <1>7, <1>9 DEF Account

(* Nothing is left to do, so every previewed finding has an outcome.       *)
LEMMA FinishAccount == ASSUME Inv, Account, FinishJob PROVE Account'
<1> DEFINE k == running.key
           outcomes == running.outcomes
           previewed == {i.finding : i \in jobs[k].preview.items}
           done == {f \in Findings : outcomes[f] # "none"}
<1>1. running # Idle  BY StatusesDiffer DEF FinishJob
<1>2. k \in Keys /\ jobs[k] \in JobRows /\ jobs[k] # NoJob /\ outcomes \in ItemOutcomes
  BY <1>1, ExecutionTyped
<1>3. jobs[k].outcomes = outcomes /\ Within(jobs[k].preview, outcomes)
  BY <1>1 DEF FinishJob, Account, ExecutionIsAccounted
<1>4. previewed \subseteq Findings
  BY <1>2 DEF JobRows, Previews, Items
<1>5. \A f \in previewed : outcomes[f] # "none"
  BY <1>1 DEF FinishJob, Account, ExecutionIsAccounted
<1>6. done = previewed  BY <1>3, <1>4, <1>5 DEF Within
<1>7. \A f \in Findings : outcomes[f] \in {"none", "failed"} \/ outcomes[f] \in Good
  BY <1>2 DEF ItemOutcomes
<1> DEFINE s == FinalStatus(outcomes)
           j == [jobs[k] EXCEPT !.status = s]
<1>8. /\ s \in {"succeeded", "partial", "failed"}
      /\ s = "succeeded" => \A f \in done : outcomes[f] # "failed"
      /\ s = "partial" => /\ \E f \in done : outcomes[f] = "failed"
                          /\ \E f \in done : outcomes[f] # "failed"
  <2> DEFINE failures == {f \in done : outcomes[f] = "failed"}
  <2>1. s = IF failures = {} THEN "succeeded" ELSE IF failures = done THEN "failed" ELSE "partial"
    BY DEF FinalStatus
  <2>2. CASE failures = {}  BY <2>1, <2>2
  <2>3. CASE failures # {} /\ failures = done  BY <2>1, <2>3
  <2>4. CASE failures # {} /\ failures # done
    BY <2>1, <2>4
  <2> QED  BY <2>2, <2>3, <2>4
<1>9. /\ s = "succeeded" => \A f \in previewed : outcomes[f] \in Good
      /\ s = "partial" => /\ \E f \in previewed : outcomes[f] \in Good
                          /\ \E f \in previewed : outcomes[f] \notin Good
  <2> HIDE DEF done, s, outcomes, previewed
  <2>1. \A f \in previewed : outcomes[f] = "failed" \/ outcomes[f] \in Good
    BY <1>4, <1>5, <1>7
  <2>2. "failed" \notin Good  BY DEF Good
  <2> QED  BY <1>6, <1>8, <2>1, <2>2
<1>10. j.preview = jobs[k].preview /\ j.outcomes = outcomes /\ j.status = s
  <2> HIDE DEF s
  <2> QED  BY <1>2, <1>3, <1>8, JobWithStatus
<1>11. jobs' = [jobs EXCEPT ![k] = j] /\ running' = Idle  BY DEF FinishJob
<1>12. StatusFits(j)
  <2> HIDE DEF s, j, outcomes
  <2> QED  BY <1>5, <1>9, <1>10 DEF StatusFits
<1> HIDE DEF j, s, outcomes, done, previewed
<1>13. JobsAreAccounted'
  BY <1>2, <1>3, <1>10, <1>11, <1>12, JobAccounted DEF Account
<1> QED  BY <1>11, <1>13 DEF Account, ExecutionIsAccounted

LEMMA CancelBatchAccount == ASSUME Inv, Account, NEW k \in Keys, CancelBatch(k) PROVE Account'
<1> DEFINE j == [jobs[k] EXCEPT !.status = "cancelled"]
<1>1. jobs[k] \in JobRows /\ jobs[k] # NoJob /\ running' = Idle
  BY DEF CancelBatch, Executable, Inv, Types
<1>2. j.status = "cancelled" /\ j.preview = jobs[k].preview /\ j.outcomes = jobs[k].outcomes
  BY <1>1, JobWithStatus
<1>3. jobs' = [jobs EXCEPT ![k] = j]  BY DEF CancelBatch
<1> HIDE DEF j
<1>4. Within(j.preview, j.outcomes)  BY <1>1, <1>2 DEF Account, JobsAreAccounted
<1>5. JobsAreAccounted'  BY <1>2, <1>3, <1>4, Unfinished, JobAccounted DEF Account
<1> QED  BY <1>1, <1>5 DEF Account, ExecutionIsAccounted

LEMMA RetryBatchAccount == ASSUME Inv, Account, NEW k \in Keys, RetryBatch(k) PROVE Account'
<1> DEFINE o == Kept(jobs[k].outcomes)
           stepped == [jobs[k] EXCEPT !.status = "queued"]
           j == [stepped EXCEPT !.outcomes = o]
<1>1. jobs[k] \in JobRows /\ jobs[k] # NoJob /\ running' = Idle
  BY DEF RetryBatch, Inv, Types
<1>2. o \in ItemOutcomes /\ \A f \in Findings : o[f] # "none" => jobs[k].outcomes[f] # "none"
  BY <1>1 DEF Kept, JobRows, ItemOutcomes, Good
<1>3. stepped \in JobRows /\ stepped.preview = jobs[k].preview /\ stepped.status = "queued"
  BY <1>1, JobWithStatus DEF Pending
<1>4. j.status = "queued" /\ j.preview = jobs[k].preview /\ j.outcomes = o
  <2> HIDE DEF stepped, o
  <2> QED  BY <1>2, <1>3, JobWithOutcomes
<1>5. jobs' = [jobs EXCEPT ![k] = j]  BY <1>1 DEF RetryBatch, JobRows
<1> HIDE DEF j, o, stepped
<1>6. Within(j.preview, j.outcomes)
  BY <1>1, <1>2, <1>4 DEF Account, JobsAreAccounted, Within
<1>7. JobsAreAccounted'  BY <1>4, <1>5, <1>6, Unfinished, JobAccounted DEF Account
<1> QED  BY <1>1, <1>7 DEF Account, ExecutionIsAccounted

LEMMA QueueBatchAccount == ASSUME Inv, Account, NEW k \in Keys, QueueBatch(k) PROVE Account'
<1>1. PICK groups \in SUBSET Groups :
        jobs' = [jobs EXCEPT ![k] = [status |-> "queued", preview |-> CurrentPreview(groups),
                                     outcomes |-> NoOutcomes]]
  BY DEF QueueBatch
<1> DEFINE j == [status |-> "queued", preview |-> CurrentPreview(groups),
                 outcomes |-> NoOutcomes]
<1>2. j.status = "queued" /\ j.outcomes = NoOutcomes  OBVIOUS
<1> HIDE DEF j
<1>3. Within(j.preview, j.outcomes)  BY <1>2 DEF Within, NoOutcomes
<1>4. JobsAreAccounted'  BY <1>1, <1>2, <1>3, Unfinished, JobAccounted DEF Account, j
<1> QED  BY <1>4 DEF QueueBatch, Account, ExecutionIsAccounted

LEMMA NextAccount == ASSUME Inv, Account, [EvalNext]_evalVars PROVE Account'
<1>1. CASE UNCHANGED <<jobs, running>>
  BY <1>1 DEF Account, JobsAreAccounted, ExecutionIsAccounted, Within, StatusFits
<1>2. CASE Interrupt
  BY <1>2 DEF Interrupt, Account, JobsAreAccounted, ExecutionIsAccounted, Within, StatusFits
<1>3. CASE Execute
  BY <1>3, CreateItemAccount, PersistOutcomeAccount, FinishAccount DEF Execute
<1>4. CASE \E k \in Keys : Command(k)
  BY <1>4, QueueBatchAccount, StartAccount, CancelBatchAccount, RetryBatchAccount DEF Command
<1> QED  BY <1>1, <1>2, <1>3, <1>4 DEF EvalNext, evalVars, Reanalyze, CreateSingle, ReviewCase

LEMMA AccountHolds == EvalSpec => [](Inv /\ Account)
<1>1. EvalInit => Inv /\ Account  BY InitInv, InitAccount
<1>2. Inv /\ Account /\ [EvalNext]_evalVars => Inv' /\ Account'  BY NextInv, NextAccount
<1> QED  BY <1>1, <1>2, PTL DEF EvalSpec

Counted == changes \in Nat /\ clicks \in Nat /\ disturbances \in Nat

LEMMA CountersStayTyped == EvalSpec => []Counted
<1>1. EvalInit => Counted  BY DEF EvalInit, Counted
<1>2. ASSUME Counted, [EvalNext]_evalVars PROVE Counted'
  <2>1. CASE Reanalyze  BY <1>2, <2>1 DEF Reanalyze, Counted
  <2>2. CASE CreateSingle \/ ReviewCase
    BY <1>2, <2>2 DEF CreateSingle, ReviewCase, Click, Counted
  <2>3. CASE Execute
    BY <1>2, <2>3 DEF Execute, CreateItem, PersistOutcome, FinishJob, Disturbed, Counted
  <2>4. CASE Interrupt  BY <1>2, <2>4 DEF Interrupt, Disturbed, Counted
  <2>5. CASE \E k \in Keys : Command(k)
    BY <1>2, <2>5 DEF Command, QueueBatch, Start, CancelBatch, RetryBatch, Click, Counted
  <2>6. CASE UNCHANGED evalVars  BY <1>2, <2>6 DEF evalVars, Counted
  <2> QED  BY <1>2, <2>1, <2>2, <2>3, <2>4, <2>5, <2>6 DEF EvalNext
<1> QED  BY <1>1, <1>2, PTL DEF EvalSpec

(* The status of every job is true of its outcomes, and others see a job   *)
(* that is being executed as running.                                      *)
THEOREM StatusStaysTrue == EvalSpec => [](EvalTypeOK /\ FinalStatusIsTrue)
<1>1. Inv /\ Account /\ Counted => EvalTypeOK /\ FinalStatusIsTrue
  BY DEF Inv, Types, Account, JobsAreAccounted, StatusFits, EvalTypeOK, FinalStatusIsTrue,
     Counted
<1> QED  BY <1>1, AccountHolds, CountersStayTyped, PTL

(* A job reports what it did, item by item and as a whole, others see it   *)
(* as running while it is executed, and it did what was previewed.         *)
THEOREM JobsStayTrue == EvalSpec => []JobsAreTrue
  BY OutcomesStayTrue, JobsMakeWhatWasPreviewed, StatusStaysTrue, PTL DEF JobsAreTrue

-----------------------------------------------------------------------------
(* What a step may do to a job that is there, in terms of its rows and of  *)
(* the cases it made.                                                      *)
KeepsJob(k) ==
  /\ jobs'[k] # NoJob /\ jobs'[k].preview = jobs[k].preview
  /\ \A f \in Findings : jobs[k].outcomes[f] \in Good =>
       jobs'[k].outcomes[f] = jobs[k].outcomes[f]
  /\ JobIsOver(k) => /\ MadeBy(k)' = MadeBy(k)
                     /\ jobs'[k].status \in {jobs[k].status, "queued"}

(* The row of h is rewritten and no case is made.                          *)
LEMMA RewriteKeeps ==
  ASSUME Inv, NEW h \in Keys, jobs[h] # NoJob, NEW j \in JobRows,
         jobs' = [jobs EXCEPT ![h] = j], records' = records,
         j.preview = jobs[h].preview,
         \A f \in Findings : jobs[h].outcomes[f] \in Good => j.outcomes[f] = jobs[h].outcomes[f],
         jobs[h].status \notin Pending => j.status \in {jobs[h].status, "queued"},
         NEW k \in Keys, jobs[k] # NoJob
  PROVE  KeepsJob(k)
<1>1. j # NoJob  BY DEF JobRows, NoJob
<1>2. jobs'[k] = IF k = h THEN j ELSE jobs[k]  BY DEF Inv, Types
<1>3. MadeBy(k)' = MadeBy(k)  BY DEF MadeBy
<1> QED  BY <1>1, <1>2, <1>3 DEF KeepsJob, JobIsOver

(* No row is written, and a job that is over makes no case.                *)
LEMMA RecordsKeep ==
  ASSUME jobs' = jobs, NEW k \in Keys, jobs[k] # NoJob,
         JobIsOver(k) => MadeBy(k)' = MadeBy(k)
  PROVE  KeepsJob(k)
  BY DEF KeepsJob

LEMMA MakesForAnother ==
  ASSUME NEW f, NEW by, AddRecord(f, by), NEW k \in Keys, k # by
  PROVE  MadeBy(k)' = MadeBy(k)
<1> DEFINE new == [finding |-> f, evidence |-> activeEvidence[f], by |-> by, state |-> "pending"]
<1>1. records' = records \/ records' = records \cup {new}  BY DEF AddRecord
<1>2. new.by = by  OBVIOUS
<1> HIDE DEF new
<1>3. {x \in records' : x.by = k} = {x \in records : x.by = k}  BY <1>1, <1>2
<1> QED  BY <1>3 DEF MadeBy

LEMMA ReviewMakesNothing ==
  ASSUME Inv, ReviewCase, NEW k \in Keys
  PROVE  MadeBy(k)' = MadeBy(k)
<1>1. PICK r \in records, s \in {"deferred", "accepted", "rejected"} :
        records' = (records \ {r}) \cup {[r EXCEPT !.state = s]}
  BY DEF ReviewCase
<1> DEFINE new == [r EXCEPT !.state = s]
<1>2. new.finding = r.finding /\ new.by = r.by  BY <1>1 DEF Inv, Types, Records
<1>3. records' = (records \ {r}) \cup {new}  BY <1>1
<1> HIDE DEF new
<1> QED  BY <1>2, <1>3 DEF MadeBy

LEMMA ExecuteKeeps ==
  ASSUME Inv, Account, Execute, NEW k \in Keys, jobs[k] # NoJob
  PROVE  KeepsJob(k)
<1> DEFINE h == running.key
<1>1. running # Idle  BY StatusesDiffer DEF Execute, CreateItem, PersistOutcome, FinishJob
<1>2. /\ h \in Keys /\ jobs[h] \in JobRows /\ jobs[h] # NoJob /\ jobs[h].status = "running"
      /\ running.outcomes \in ItemOutcomes
  BY <1>1, ExecutionTyped
<1>3. CASE CreateItem
  <2>1. JobIsOver(k) => k # h  BY <1>2 DEF JobIsOver, Pending
  <2>2. JobIsOver(k) => MadeBy(k)' = MadeBy(k)
    BY <1>3, <2>1, MakesForAnother DEF CreateItem, MadeBy
  <2> QED  BY <1>3, <2>2, RecordsKeep DEF CreateItem
<1>4. CASE PersistOutcome
  <2> DEFINE j == [jobs[h] EXCEPT !.outcomes = running.outcomes]
  <2>1. j \in JobRows /\ j.preview = jobs[h].preview /\ j.outcomes = running.outcomes
        /\ j.status = "running"
    BY <1>2, JobWithOutcomes
  <2>2. jobs' = [jobs EXCEPT ![h] = j] /\ records' = records  BY <1>4 DEF PersistOutcome
  <2>3. \A f \in Findings : jobs[h].outcomes[f] \in Good => j.outcomes[f] = jobs[h].outcomes[f]
    BY <1>1, <2>1 DEF Account, ExecutionIsAccounted
  <2> HIDE DEF j, h
  <2> QED  BY <1>2, <2>1, <2>2, <2>3, RewriteKeeps DEF Pending
<1>5. CASE FinishJob
  <2> DEFINE s == FinalStatus(running.outcomes)
             j == [jobs[h] EXCEPT !.status = s]
  <2>1. s \in {"succeeded", "partial", "failed"}  BY DEF FinalStatus
  <2>2. jobs' = [jobs EXCEPT ![h] = j] /\ records' = records  BY <1>5 DEF FinishJob
  <2>3. j \in JobRows /\ j.preview = jobs[h].preview /\ j.outcomes = jobs[h].outcomes
    <3> HIDE DEF s
    <3> QED  BY <1>2, <2>1, JobWithStatus
  <2> HIDE DEF j, h
  <2> QED  BY <1>2, <2>2, <2>3, RewriteKeeps DEF Pending
<1> QED  BY <1>3, <1>4, <1>5 DEF Execute

LEMMA CommandKeeps ==
  ASSUME Inv, NEW h \in Keys, Command(h), NEW k \in Keys, jobs[k] # NoJob
  PROVE  KeepsJob(k)
<1>1. CASE QueueBatch(h)
  <2>1. k # h /\ jobs'[k] = jobs[k] /\ records' = records
    BY <1>1 DEF QueueBatch, Inv, Types
  <2>2. MadeBy(k)' = MadeBy(k)  BY <2>1 DEF MadeBy
  <2> QED  BY <2>1, <2>2 DEF KeepsJob
<1>2. CASE Start(h) \/ CancelBatch(h)
  <2>1. jobs[h] \in JobRows /\ jobs[h] # NoJob /\ jobs[h].status \in Pending /\ records' = records
    BY <1>2 DEF Start, CancelBatch, Executable, Inv, Types
  <2>2. PICK s \in {"failed", "running", "cancelled"} : jobs' = [jobs EXCEPT ![h].status = s]
    BY <1>2 DEF Start, CancelBatch
  <2> DEFINE j == [jobs[h] EXCEPT !.status = s]
  <2>3. j \in JobRows /\ j.preview = jobs[h].preview /\ j.outcomes = jobs[h].outcomes
    BY <2>1, JobWithStatus DEF Pending
  <2>4. jobs' = [jobs EXCEPT ![h] = j]  BY <2>2
  <2> HIDE DEF j
  <2> QED  BY <2>1, <2>3, <2>4, RewriteKeeps
<1>3. CASE RetryBatch(h)
  <2> DEFINE o == Kept(jobs[h].outcomes)
             stepped == [jobs[h] EXCEPT !.status = "queued"]
             j == [stepped EXCEPT !.outcomes = o]
  <2>1. jobs[h] \in JobRows /\ jobs[h] # NoJob /\ records' = records
    BY <1>3 DEF RetryBatch, Inv, Types
  <2>2. o \in ItemOutcomes
        /\ \A f \in Findings : jobs[h].outcomes[f] \in Good => o[f] = jobs[h].outcomes[f]
    BY <2>1 DEF Kept, JobRows, ItemOutcomes, Good
  <2>3. stepped \in JobRows /\ stepped.preview = jobs[h].preview /\ stepped.status = "queued"
    BY <2>1, JobWithStatus DEF Pending
  <2>4. j \in JobRows /\ j.status = "queued" /\ j.preview = jobs[h].preview /\ j.outcomes = o
    <3> HIDE DEF stepped, o
    <3> QED  BY <2>2, <2>3, JobWithOutcomes
  <2>5. jobs' = [jobs EXCEPT ![h] = j]  BY <1>3, <2>1 DEF RetryBatch, JobRows
  <2> HIDE DEF j, o, stepped
  <2> QED  BY <2>1, <2>2, <2>4, <2>5, RewriteKeeps
<1> QED  BY <1>1, <1>2, <1>3 DEF Command

LEMMA NextKeeps ==
  ASSUME Inv, Account, [EvalNext]_evalVars, NEW k \in Keys, jobs[k] # NoJob
  PROVE  KeepsJob(k)
<1>1. CASE UNCHANGED <<jobs, records>>
  <2>1. MadeBy(k)' = MadeBy(k)  BY <1>1 DEF MadeBy
  <2> QED  BY <1>1, <2>1, RecordsKeep
<1>2. CASE CreateSingle
  <2>1. k # User  BY EvalAssumption
  <2>2. MadeBy(k)' = MadeBy(k)  BY <1>2, <2>1, MakesForAnother DEF CreateSingle
  <2> QED  BY <1>2, <2>2, RecordsKeep DEF CreateSingle
<1>3. CASE ReviewCase
  BY <1>3, ReviewMakesNothing, RecordsKeep DEF ReviewCase
<1>4. CASE Execute  BY <1>4, ExecuteKeeps
<1>5. CASE \E h \in Keys : Command(h)  BY <1>5, CommandKeeps
<1> QED  BY <1>1, <1>2, <1>3, <1>4, <1>5 DEF EvalNext, evalVars, Reanalyze, Interrupt

(* No step takes back a good outcome or unbinds a key from its preview,    *)
(* and a job that is over makes no case until it is retried.               *)
THEOREM WorkStaysKept == EvalSpec => WorkIsKept
<1>1. Inv /\ Account /\ [EvalNext]_evalVars =>
        [\A k \in Keys : jobs[k] # NoJob =>
           /\ jobs'[k] # NoJob /\ jobs'[k].preview = jobs[k].preview
           /\ \A f \in Findings : jobs[k].outcomes[f] \in Good =>
                jobs'[k].outcomes[f] = jobs[k].outcomes[f]
           /\ JobIsOver(k) => /\ MadeBy(k)' = MadeBy(k)
                              /\ jobs'[k].status \in {jobs[k].status, "queued"}]_evalVars
  BY NextKeeps DEF KeepsJob
<1> QED  BY <1>1, AccountHolds, PTL DEF EvalSpec, WorkIsKept

=============================================================================

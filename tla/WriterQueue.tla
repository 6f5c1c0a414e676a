---------------------------- MODULE WriterQueue ----------------------------
(***************************************************************************)
(* The threads around the workspace writer of perseval-service.            *)
(*                                                                         *)
(* One writer thread owns every mutation of the workspace and serves a     *)
(* bounded command channel.  Exporter requests are admitted against a byte *)
(* budget and sent without blocking; interface callers send without        *)
(* blocking too; background workers block, both on a full channel and on   *)
(* the answer.  The writer in turn feeds the candidate worker through a    *)
(* second bounded channel, so the two wait on each other unless one of     *)
(* them gives way.  Shutdown stops the workers first, the writer last.     *)
(*                                                                         *)
(* A request is one call of submit_blocking, a job one eval batch together *)
(* with the interface call that queues it.  What a command writes to the   *)
(* store is reduced to the journal and to the set of pending jobs; sizes   *)
(* stand for the spans and bytes that the limits count.                    *)
(***************************************************************************)
EXTENDS Integers, Sequences, FiniteSets, FiniteSetsExt

CONSTANTS
  Requests,        \* exporter requests
  Size,            \* size of each request
  Jobs,            \* eval batches
  Restored,        \* jobs a previous process left pending
  Workers,         \* background threads that issue writer commands
  QueueBatches,    \* stream.queue_batches: capacity of the command channel
  QueueBytes,      \* stream.queue_bytes: the admission budget
  MicrobatchSize,  \* stream.microbatch_spans and _bytes
  PageRows,        \* stream.projection_retry_page
  CandidateSlots,  \* capacity of the candidate channel (64 in the code)
  MaxFaults        \* bound on the store errors

ASSUME QueueAssumption ==
  /\ IsFiniteSet(Requests)
  /\ Size \in [Requests -> Nat]
  /\ Restored \subseteq Jobs
  /\ QueueBatches \in Nat \ {0}
  /\ PageRows \in Nat \ {0}
  /\ {QueueBytes, MicrobatchSize, CandidateSlots, MaxFaults} \subseteq Nat

VARIABLES
  queue,          \* the command channel
  queuedBytes,    \* WriterShared.queued_bytes
  queuedBatches,  \* WriterShared.queued_batches
  shuttingDown,   \* shutting_down, with the two flags the workers watch
  request,        \* where each submit_blocking call is, or its answer
  caller,         \* where each create_eval_batch call is, or its answer
  worker,         \* where each background thread is
  candidate,      \* where the candidate worker is
  candidates,     \* the candidate channel
  polled,         \* jobs the candidate worker still has to execute
  closer,         \* where LiveTraceService::shutdown is
  writer,         \* where the writer thread is in its loop
  collected,      \* size of the microbatch so far
  retryDue,       \* the next projection attempt is due
  journal,        \* requests whose journal row is committed
  unprojected,    \* journal rows not projected yet, in sequence order
  pending,        \* jobs the store lists as queued or running
  faults          \* store errors so far

admissionVars == <<queuedBytes, queuedBatches, request>>
workerVars == <<worker, candidate, candidates, polled>>
storeVars == <<journal, unprojected, pending, faults>>
loopVars == <<writer, collected, retryDue>>
vars == <<queue, queuedBytes, queuedBatches, shuttingDown, request, caller, worker,
          candidate, candidates, polled, closer, writer, collected, retryDue,
          journal, unprojected, pending, faults>>

-----------------------------------------------------------------------------
(* Commands.                                                               *)

Ingest(r) == [op |-> "ingest", by |-> r]
Create(j) == [op |-> "create", by |-> j]
Work(w) == [op |-> "work", by |-> w]
Execute(j) == [op |-> "execute", by |-> j]
Shutdown == [op |-> "shutdown", by |-> "closer"]

Commands ==
  [op : {"ingest"}, by : Requests] \cup [op : {"create", "execute"}, by : Jobs]
    \cup [op : {"work"}, by : Workers] \cup {Shutdown}

Queued(c) == \E i \in DOMAIN queue : queue[i] = c

(* The receiver is dropped with the writer thread.                         *)
Room == Len(queue) < QueueBatches /\ writer # "stopped"

Answers == {"accepted", "backpressured", "shutting_down", "unavailable"}

TotalSize(s) == MapThenSumSet(LAMBDA i : Size[s[i]], DOMAIN s)

Init ==
  /\ queue = <<>> /\ queuedBytes = 0 /\ queuedBatches = 0 /\ shuttingDown = FALSE
  /\ request = [r \in Requests |-> "new"]
  /\ caller = [j \in Jobs |-> IF j \in Restored THEN "created" ELSE "new"]
  /\ worker = [w \in Workers |-> "loop"]
  /\ candidate = "loop" /\ candidates = <<>> /\ polled = {}
  /\ closer = "none"
  /\ writer = "idle" /\ collected = 0 /\ retryDue = TRUE
  /\ journal = {} /\ unprojected = <<>> /\ pending = Restored /\ faults = 0

-----------------------------------------------------------------------------
(* submit_blocking, run by a thread of its own per request.                *)

Answer(r, a) == request' = [request EXCEPT ![r] = a]

Check(r) ==
  /\ request[r] = "new"
  /\ Answer(r, IF shuttingDown THEN "shutting_down" ELSE "checked")
  /\ UNCHANGED <<queue, queuedBytes, queuedBatches, shuttingDown, caller, workerVars,
                 closer, loopVars, storeVars>>

(* The compare-and-swap of reserve_bytes, once it succeeds or gives up.    *)
Reserve(r) ==
  /\ request[r] = "checked"
  /\ IF queuedBytes + Size[r] > QueueBytes
     THEN Answer(r, "backpressured") /\ UNCHANGED queuedBytes
     ELSE Answer(r, "reserved") /\ queuedBytes' = queuedBytes + Size[r]
  /\ UNCHANGED <<queue, queuedBatches, shuttingDown, caller, workerVars, closer,
                 loopVars, storeVars>>

Count(r) ==
  /\ request[r] = "reserved"
  /\ queuedBatches' = queuedBatches + 1
  /\ Answer(r, "counted")
  /\ UNCHANGED <<queue, queuedBytes, shuttingDown, caller, workerVars, closer,
                 loopVars, storeVars>>

EnqueueKeepsBudget(r) ==
  /\ request[r] = "counted"
  /\ IF Room
     THEN /\ queue' = Append(queue, Ingest(r))
          /\ Answer(r, "waiting")
     ELSE /\ Answer(r, "backpressured")
          /\ UNCHANGED queue
  /\ UNCHANGED <<queuedBytes, queuedBatches>>
  /\ UNCHANGED <<shuttingDown, caller, workerVars, closer, loopVars, storeVars>>
Enqueue(r) ==
  /\ request[r] = "counted"
  /\ IF Room
     THEN /\ queue' = Append(queue, Ingest(r))
          /\ Answer(r, "waiting")
          /\ UNCHANGED <<queuedBytes, queuedBatches>>
     ELSE /\ Answer(r, "backpressured")
          /\ queuedBytes' = queuedBytes - Size[r]
          /\ queuedBatches' = queuedBatches - 1
          /\ UNCHANGED queue
  /\ UNCHANGED <<shuttingDown, caller, workerVars, closer, loopVars, storeVars>>

(* create_eval_batch of the interface: sent without blocking.              *)
Call(j) ==
  /\ caller[j] = "new"
  /\ IF Room
     THEN queue' = Append(queue, Create(j)) /\ caller' = [caller EXCEPT ![j] = "waiting"]
     ELSE caller' = [caller EXCEPT ![j] = "unavailable"] /\ UNCHANGED queue
  /\ UNCHANGED <<shuttingDown, admissionVars, workerVars, closer, loopVars, storeVars>>

-----------------------------------------------------------------------------
(* Background workers: WorkspaceWriterHandle.request blocks until there is *)
(* room, then until the answer.                                            *)

WorkerLoops(w) ==
  /\ worker[w] = "loop"
  /\ worker' = [worker EXCEPT ![w] = IF shuttingDown THEN "done" ELSE "sending"]
  /\ UNCHANGED <<queue, admissionVars, shuttingDown, caller, candidate, candidates,
                 polled, closer, loopVars, storeVars>>

WorkerSends(w) ==
  /\ worker[w] = "sending"
  /\ \/ /\ Room
        /\ queue' = Append(queue, Work(w))
        /\ worker' = [worker EXCEPT ![w] = "waiting"]
     \/ /\ writer = "stopped"
        /\ worker' = [worker EXCEPT ![w] = "loop"]
        /\ UNCHANGED queue
  /\ UNCHANGED <<admissionVars, shuttingDown, caller, candidate, candidates, polled,
                 closer, loopVars, storeVars>>

(* The candidate worker executes the jobs it is told of and, when its      *)
(* channel stays empty, those the store lists as pending.                  *)
CandidateLoopsTrustsChannel ==
  /\ candidate = "loop"
  /\ \/ /\ shuttingDown
        /\ candidate' = "done"
        /\ UNCHANGED <<candidates, polled>>
     \/ /\ ~shuttingDown /\ candidates # <<>>
        /\ candidate' = "sending" /\ polled' = {Head(candidates)}
        /\ candidates' = Tail(candidates)
     \/ /\ ~shuttingDown /\ candidates = <<>>
        /\ candidate' = "polling" /\ polled' = pending \cap Restored
        /\ UNCHANGED candidates
  /\ UNCHANGED <<queue, admissionVars, shuttingDown, caller, worker, closer, loopVars,
                 storeVars>>
CandidateLoops ==
  /\ candidate = "loop"
  /\ \/ /\ shuttingDown
        /\ candidate' = "done"
        /\ UNCHANGED <<candidates, polled>>
     \/ /\ ~shuttingDown /\ candidates # <<>>
        /\ candidate' = "sending" /\ polled' = {Head(candidates)}
        /\ candidates' = Tail(candidates)
     \/ /\ ~shuttingDown /\ candidates = <<>>
        /\ candidate' = "polling" /\ polled' = pending
        /\ UNCHANGED candidates
  /\ UNCHANGED <<queue, admissionVars, shuttingDown, caller, worker, closer, loopVars,
                 storeVars>>
CandidatePolls ==
  /\ candidate = "polling"
  /\ IF polled = {} \/ shuttingDown
     THEN candidate' = "loop" /\ polled' = {}
     ELSE candidate' = "sending" /\ UNCHANGED polled
  /\ UNCHANGED <<queue, admissionVars, shuttingDown, caller, worker, candidates, closer,
                 loopVars, storeVars>>

CandidateSends ==
  /\ candidate = "sending"
  /\ \E j \in polled :
       /\ polled' = polled \ {j}
       /\ \/ Room /\ queue' = Append(queue, Execute(j)) /\ candidate' = "waiting"
          \/ writer = "stopped" /\ candidate' = "polling" /\ UNCHANGED queue
  /\ UNCHANGED <<admissionVars, shuttingDown, caller, worker, candidates, closer,
                 loopVars, storeVars>>

-----------------------------------------------------------------------------
(* The writer loop.                                                        *)

Receiving ==
  /\ queue # <<>>
  /\ writer = "idle" \/ (writer = "collecting" /\ collected < MicrobatchSize)

(* A command other than an ingest leads to the end of the loop body, or    *)
(* back to the microbatch it interrupted.                                  *)
Resume == writer' = IF writer = "idle" THEN "tail" ELSE "collecting"

(* journal_ingest: the row is durable before the sender is answered.       *)
Journal(r) ==
  /\ Receiving /\ Head(queue) = Ingest(r)
  /\ queue' = Tail(queue)
  /\ queuedBytes' = queuedBytes - Size[r]
  /\ queuedBatches' = queuedBatches - 1
  /\ writer' = "collecting"
  /\ \/ /\ journal' = journal \cup {r}
        /\ unprojected' = Append(unprojected, r)
        /\ Answer(r, "accepted")
        /\ collected' = collected + Size[r]
        /\ UNCHANGED faults
     \/ /\ faults < MaxFaults
        /\ faults' = faults + 1
        /\ Answer(r, "unavailable")
        /\ UNCHANGED <<journal, unprojected, collected>>
  /\ UNCHANGED <<shuttingDown, caller, workerVars, closer, retryDue, pending>>

(* CreateEvalBatch: the job is stored, the candidate worker is told unless *)
(* its channel is full.                                                    *)
QueueJobWaits(j) ==
  /\ Receiving /\ Head(queue) = Create(j)
  /\ Len(candidates) < CandidateSlots
  /\ queue' = Tail(queue)
  /\ \/ /\ pending' = pending \cup {j}
        /\ caller' = [caller EXCEPT ![j] = "created"]
        /\ candidates' = Append(candidates, j)
     \/ /\ caller' = [caller EXCEPT ![j] = "refused"]
        /\ UNCHANGED <<pending, candidates>>
  /\ Resume
  /\ UNCHANGED <<admissionVars, shuttingDown, worker, candidate, polled, closer,
                 collected, retryDue, journal, unprojected, faults>>
QueueJob(j) ==
  /\ Receiving /\ Head(queue) = Create(j)
  /\ queue' = Tail(queue)
  /\ \/ /\ pending' = pending \cup {j}
        /\ caller' = [caller EXCEPT ![j] = "created"]
        /\ candidates' = IF Len(candidates) < CandidateSlots
                         THEN Append(candidates, j) ELSE candidates
     \/ /\ caller' = [caller EXCEPT ![j] = "refused"]
        /\ UNCHANGED <<pending, candidates>>
  /\ Resume
  /\ UNCHANGED <<admissionVars, shuttingDown, worker, candidate, polled, closer,
                 collected, retryDue, journal, unprojected, faults>>

(* ExecuteCandidateJob: runs the whole job, or fails and leaves it.        *)
RunJob(j) ==
  /\ Receiving /\ Head(queue) = Execute(j)
  /\ queue' = Tail(queue)
  /\ candidate' = "polling"
  /\ \/ pending' = pending \ {j} /\ UNCHANGED faults
     \/ faults < MaxFaults /\ faults' = faults + 1 /\ UNCHANGED pending
  /\ Resume
  /\ UNCHANGED <<admissionVars, shuttingDown, caller, worker, candidates, polled, closer,
                 collected, retryDue, journal, unprojected>>

(* Any command of the analysis, cohort or topology worker.                 *)
Serve(w) ==
  /\ Receiving /\ Head(queue) = Work(w)
  /\ queue' = Tail(queue)
  /\ worker' = [worker EXCEPT ![w] = "loop"]
  /\ Resume
  /\ UNCHANGED <<admissionVars, shuttingDown, caller, candidate, candidates, polled,
                 closer, collected, retryDue, storeVars>>

(* Shutdown leaves the loop at once.  The commands behind it are dropped   *)
(* with the receiver, which their senders see as a failed recv.            *)
Stop ==
  /\ Receiving /\ Head(queue) = Shutdown
  /\ writer' = "stopped"
  /\ queue' = <<>>
  /\ request' = [r \in Requests |->
                   IF Queued(Ingest(r)) THEN "unavailable" ELSE request[r]]
  /\ caller' = [j \in Jobs |-> IF Queued(Create(j)) THEN "unavailable" ELSE caller[j]]
  /\ worker' = [w \in Workers |-> IF Queued(Work(w)) THEN "loop" ELSE worker[w]]
  /\ candidate' = IF \E j \in Jobs : Queued(Execute(j)) THEN "polling" ELSE candidate
  /\ UNCHANGED <<queuedBytes, queuedBatches, shuttingDown, candidates, polled, closer,
                 collected, retryDue, storeVars>>

(* Nothing arrived within the wait.                                        *)
Idle ==
  /\ writer = "idle" /\ queue = <<>>
  /\ writer' = "tail"
  /\ UNCHANGED <<queue, admissionVars, shuttingDown, caller, workerVars, closer,
                 collected, retryDue, storeVars>>

(* The microbatch is full or its deadline has passed.  New rows postpone   *)
(* the next projection.                                                    *)
EndMicrobatch ==
  /\ writer = "collecting"
  /\ writer' = "tail" /\ collected' = 0
  /\ retryDue' = (retryDue /\ collected = 0)
  /\ UNCHANGED <<queue, admissionVars, shuttingDown, caller, workerVars, closer,
                 storeVars>>

(* pending_projection_sequences: a page is cut at its limits, but never    *)
(* before its first row.                                                   *)
PageStrict ==
  {n \in 1..Len(unprojected) :
     n <= PageRows /\ TotalSize(SubSeq(unprojected, 1, n)) <= MicrobatchSize}
Page ==
  {n \in 1..Len(unprojected) :
     /\ n <= PageRows
     /\ n = 1 \/ TotalSize(SubSeq(unprojected, 1, n)) <= MicrobatchSize}

(* retry_pending_projections, at the end of the loop body.                 *)
Retry ==
  /\ writer = "tail" /\ writer' = "idle"
  /\ \/ ~retryDue /\ UNCHANGED <<retryDue, unprojected, faults>>
     \/ /\ retryDue /\ Page = {}
        /\ retryDue' = FALSE
        /\ UNCHANGED <<unprojected, faults>>
     \/ /\ retryDue /\ Page # {}
        /\ unprojected' = SubSeq(unprojected, Max(Page) + 1, Len(unprojected))
        /\ UNCHANGED <<retryDue, faults>>
     \/ /\ retryDue /\ Page # {} /\ faults < MaxFaults
        /\ retryDue' = FALSE /\ faults' = faults + 1
        /\ UNCHANGED unprojected
  /\ UNCHANGED <<queue, admissionVars, shuttingDown, caller, workerVars, closer,
                 collected, journal, pending>>

BackoffElapses ==
  /\ ~retryDue /\ writer # "stopped"
  /\ retryDue' = TRUE
  /\ UNCHANGED <<queue, admissionVars, shuttingDown, caller, workerVars, closer,
                 writer, collected, storeVars>>

-----------------------------------------------------------------------------
(* LiveTraceService::shutdown.                                             *)

BeginShutdown ==
  /\ closer = "none"
  /\ shuttingDown' = TRUE
  /\ closer' = "joining"
  /\ UNCHANGED <<queue, admissionVars, caller, workerVars, loopVars, storeVars>>

WorkersDone == candidate = "done" /\ \A w \in Workers : worker[w] = "done"

JoinNobody ==
  /\ closer = "joining"
  /\ closer' = "sending"
  /\ UNCHANGED <<queue, admissionVars, shuttingDown, caller, workerVars, loopVars,
                 storeVars>>
JoinWorkers ==
  /\ closer = "joining" /\ WorkersDone
  /\ closer' = "sending"
  /\ UNCHANGED <<queue, admissionVars, shuttingDown, caller, workerVars, loopVars,
                 storeVars>>

SendShutdown ==
  /\ closer = "sending" /\ Room
  /\ queue' = Append(queue, Shutdown)
  /\ closer' = "draining"
  /\ UNCHANGED <<admissionVars, shuttingDown, caller, workerVars, loopVars, storeVars>>

(* Whether or not the answer came within shutdown_drain_ms, the writer     *)
(* thread is joined.                                                       *)
JoinWriter ==
  /\ closer = "draining" /\ writer = "stopped"
  /\ closer' = "done"
  /\ UNCHANGED <<queue, admissionVars, shuttingDown, caller, workerVars, loopVars,
                 storeVars>>

(* The end of the process; only then may nothing more happen.              *)
Ended ==
  /\ closer = "done" /\ WorkersDone
  /\ \A r \in Requests : request[r] \in Answers
  /\ \A j \in Jobs : caller[j] \in {"created", "refused", "unavailable"}
  /\ UNCHANGED vars

-----------------------------------------------------------------------------
SubmitStep(r) == Reserve(r) \/ Count(r) \/ Enqueue(r)
CandidateStep == CandidateLoops \/ CandidatePolls \/ CandidateSends
WriterStep ==
  \/ \E r \in Requests : Journal(r)
  \/ \E j \in Jobs : QueueJob(j) \/ RunJob(j)
  \/ \E w \in Workers : Serve(w)
  \/ Stop \/ Idle \/ EndMicrobatch \/ Retry
CloserStep == JoinWorkers \/ SendShutdown \/ JoinWriter

Next ==
  \/ \E r \in Requests : Check(r) \/ SubmitStep(r)
  \/ \E j \in Jobs : Call(j)
  \/ \E w \in Workers : WorkerLoops(w) \/ WorkerSends(w)
  \/ CandidateStep
  \/ WriterStep
  \/ BackoffElapses
  \/ BeginShutdown
  \/ CloserStep
  \/ Ended

Spec == Init /\ [][Next]_vars

(* Threads are scheduled and timers fire.  A sender blocked on a full      *)
(* channel gets a slot in the end; a microbatch ends at its deadline, not  *)
(* only when it happens to be left.  Nobody has to submit, call or close.  *)
Fairness ==
  /\ \A r \in Requests : WF_vars(SubmitStep(r))
  /\ \A w \in Workers : WF_vars(WorkerLoops(w)) /\ SF_vars(WorkerSends(w))
  /\ WF_vars(CandidateLoops) /\ WF_vars(CandidatePolls) /\ SF_vars(CandidateSends)
  /\ WF_vars(WriterStep) /\ WF_vars(EndMicrobatch) /\ WF_vars(BackoffElapses)
  /\ WF_vars(CloserStep)

FairSpec == Spec /\ Fairness

-----------------------------------------------------------------------------
(* Properties.                                                             *)

(* The counters are unsigned: one decremented too often would wrap.        *)
TypeOK ==
  /\ queue \in Seq(Commands) /\ candidates \in Seq(Jobs) /\ unprojected \in Seq(Requests)
  /\ queuedBytes \in Nat /\ queuedBatches \in Nat /\ collected \in Nat /\ faults \in Nat
  /\ shuttingDown \in BOOLEAN /\ retryDue \in BOOLEAN
  /\ request \in [Requests -> {"new", "checked", "reserved", "counted", "waiting"} \cup Answers]
  /\ caller \in [Jobs -> {"new", "waiting", "created", "refused", "unavailable"}]
  /\ worker \in [Workers -> {"loop", "sending", "waiting", "done"}]
  /\ candidate \in {"loop", "polling", "sending", "waiting", "done"}
  /\ closer \in {"none", "joining", "sending", "draining", "done"}
  /\ writer \in {"idle", "collecting", "tail", "stopped"}
  /\ polled \subseteq Jobs /\ journal \subseteq Requests /\ pending \subseteq Jobs

(* A request is answered Ok exactly when its batch is in the journal:      *)
(* backpressure, shutdown, a journal error and a command dropped behind    *)
(* the shutdown all leave nothing that was not acknowledged, and nothing   *)
(* is acknowledged ahead of its row.                                       *)
AnswersAreTrue == \A r \in Requests : request[r] = "accepted" <=> r \in journal

(* Requests that hold part of the budget, and each byte they hold.         *)
Holding == {r \in Requests : request[r] \in {"reserved", "counted", "waiting"}}
Bytes(r) == {r} \X (1..Size[r])
Held == UNION {Bytes(r) : r \in Holding}
Counted == {r \in Requests : request[r] \in {"counted", "waiting"}}

(* As long as the writer runs, the two admission counters are exactly what *)
(* the requests in flight hold, whichever way each of them ends, and the   *)
(* bytes never exceed the budget: no path leaks or releases twice.         *)
BudgetIsExact ==
  /\ writer # "stopped" =>
       /\ queuedBytes = Cardinality(Held)
       /\ queuedBatches = Cardinality(Counted)
  /\ queuedBytes <= QueueBytes

(* The queue and its counters: the command channel and every thread are    *)
(* where their code can be, and the counters are exact.                    *)
QueueIsSound == TypeOK /\ BudgetIsExact

(* The writer stops only after every background producer has: none of      *)
(* their commands is ever dropped, none of them meets a closed channel.    *)
WriterOutlivesWorkers == writer = "stopped" => WorkersDone

(* Every answer is true, and nobody is left to ask a writer that is gone.  *)
WriterIsTrue == AnswersAreTrue /\ WriterOutlivesWorkers

(* Whoever started a call gets an answer, also one behind the shutdown,    *)
(* and shutdown ends: nobody waits on a thread that waits on him, also     *)
(* when the writer has a batch to hand over, the candidate channel is full *)
(* and its receiver waits for the writer.                                  *)
EveryoneIsAnswered ==
  /\ \A r \in Requests : []<>(request[r] \in Answers \cup {"new"})
  /\ \A j \in Jobs : []<>(caller[j] # "waiting")
  /\ []<>(closer \in {"none", "done"})

(* A pending eval batch is executed although the writer tells the          *)
(* candidate worker without waiting, drops the message when the channel is *)
(* full, and may fail to execute it: the worker finds it in the store.     *)
JobsAreExecuted == \A j \in Jobs : []<>(j \notin pending \/ shuttingDown)

(* A journaled batch is projected while the writer runs, also one larger   *)
(* than the limits of a page.                                              *)
JournaledIsProjected ==
  \A r \in Requests :
    []<>(r \in journal => (\A i \in DOMAIN unprojected : unprojected[i] # r) \/ shuttingDown)

=============================================================================

---------------------------- MODULE WriterProofs ----------------------------
(***************************************************************************)
(* Invariants of WriterQueue, proved for any requests, jobs, workers,      *)
(* capacities and number of store errors.                                  *)
(*                                                                         *)
(* They rest on what may sit in the command channel: a request at most     *)
(* once and only while its thread waits, a worker's command only while the *)
(* worker waits, the shutdown only after all workers are joined.           *)
(***************************************************************************)
EXTENDS WriterQueue, FiniteSetTheorems, WellFoundedInduction, TLAPS

Types ==
  /\ queue \in Seq(Commands)
  /\ request \in [Requests -> {"new", "checked", "reserved", "counted", "waiting"} \cup Answers]
  /\ worker \in [Workers -> {"loop", "sending", "waiting", "done"}]
  /\ journal \subseteq Requests

(* An ingest command stands for exactly one waiting submit_blocking.       *)
InFlight ==
  /\ \A r \in Requests : Queued(Ingest(r)) => request[r] = "waiting"
  /\ \A i, k \in DOMAIN queue : queue[i].op = "ingest" /\ queue[i] = queue[k] => i = k

(* A command of a worker stands for the worker waiting, which has but one  *)
(* in the channel: once it is served, there is none.                       *)
WorkersWait ==
  /\ \A w \in Workers : Queued(Work(w)) => worker[w] = "waiting"
  /\ \A j \in Jobs : Queued(Execute(j)) => candidate = "waiting"
  /\ \A i, k \in DOMAIN queue : queue[i].op = "work" /\ queue[i] = queue[k] => i = k
  /\ \A i, k \in DOMAIN queue : queue[i].op = "execute" /\ queue[k].op = "execute" => i = k

(* The shutdown is sent after the join, and only it stops the writer.      *)
Closing ==
  /\ closer \in {"sending", "draining", "done"} => WorkersDone
  /\ Queued(Shutdown) => closer \in {"draining", "done"}
  /\ writer = "stopped" => closer \in {"draining", "done"}

IInv == Types /\ InFlight /\ WorkersWait /\ Closing /\ AnswersAreTrue

(* The candidate worker only knows of jobs.                                *)
JobsTyped == polled \subseteq Jobs /\ candidates \in Seq(Jobs) /\ pending \subseteq Jobs

LEMMA InitIInv == Init => IInv
  BY DEF Init, IInv, Types, InFlight, WorkersWait, Closing, AnswersAreTrue, Queued,
         Answers, WorkersDone

-----------------------------------------------------------------------------
(* Sending appends one command, receiving takes the first.                 *)

LEMMA CommandsAreTyped ==
  /\ \A r \in Requests : Ingest(r) \in Commands
  /\ \A j \in Jobs : Create(j) \in Commands /\ Execute(j) \in Commands
  /\ \A w \in Workers : Work(w) \in Commands
  /\ Shutdown \in Commands
  BY DEF Ingest, Create, Execute, Work, Shutdown, Commands

LEMMA AfterSend ==
  ASSUME queue \in Seq(Commands), NEW c \in Commands, queue' = Append(queue, c)
  PROVE  /\ queue' \in Seq(Commands)
         /\ \A d : Queued(d)' => Queued(d) \/ d = c
         /\ \A i \in DOMAIN queue' :
              (i \in DOMAIN queue /\ queue'[i] = queue[i]) \/ (i = Len(queue) + 1 /\ queue'[i] = c)
  BY DEF Queued

LEMMA AfterReceive ==
  ASSUME queue \in Seq(Commands), queue # <<>>, queue' = Tail(queue)
  PROVE  /\ queue' \in Seq(Commands)
         /\ \A d : Queued(d)' => Queued(d)
         /\ \A i \in DOMAIN queue' : i + 1 \in DOMAIN queue /\ queue'[i] = queue[i + 1] /\ i + 1 # 1
         /\ Queued(Head(queue)) /\ 1 \in DOMAIN queue /\ Head(queue) = queue[1]
<1>1. queue' \in Seq(Commands) /\ Len(queue') = Len(queue) - 1 /\ Len(queue) \in Nat \ {0}
  BY SMT
<1>2. \A i \in 1..Len(queue') : queue'[i] = queue[i + 1]
  BY <1>1, SMT
<1>3. \A i \in DOMAIN queue' : i + 1 \in DOMAIN queue /\ queue'[i] = queue[i + 1] /\ i + 1 # 1
  BY <1>1, <1>2, SMT
<1>4. Queued(Head(queue)) /\ 1 \in DOMAIN queue /\ Head(queue) = queue[1]
  BY <1>1, SMT DEF Queued
<1> QED BY <1>1, <1>3, <1>4 DEF Queued

(* A step that leaves the channel and the waiting threads alone.           *)
LEMMA ChannelKept ==
  ASSUME IInv, UNCHANGED <<queue, journal>>,
         request' \in [Requests -> {"new", "checked", "reserved", "counted", "waiting"} \cup Answers],
         worker' \in [Workers -> {"loop", "sending", "waiting", "done"}],
         \A r \in Requests : request[r] = "waiting" => request'[r] = "waiting",
         \A r \in Requests : request[r] = "accepted" <=> request'[r] = "accepted",
         \A w \in Workers : worker[w] = "waiting" => worker'[w] = "waiting",
         candidate = "waiting" => candidate' = "waiting"
  PROVE  Types' /\ InFlight' /\ WorkersWait' /\ AnswersAreTrue'
  BY DEF IInv, Types, InFlight, WorkersWait, AnswersAreTrue, Queued

(* The bystanders of a step: what a closing service depends on is intact.  *)
LEMMA ClosingKept ==
  ASSUME IInv, UNCHANGED <<worker, candidate, closer>>,
         Queued(Shutdown)' => Queued(Shutdown),
         writer' = "stopped" => writer = "stopped"
  PROVE  Closing'
  BY DEF IInv, Closing, WorkersDone, Queued

-----------------------------------------------------------------------------
(* One step per action.                                                    *)

LEMMA SubmitKeeps ==
  ASSUME IInv, NEW r \in Requests, Check(r) \/ Reserve(r) \/ Count(r)
  PROVE  IInv'
<1>1. UNCHANGED <<queue, journal, worker, candidate, closer, writer>>
  BY DEF Check, Reserve, Count, workerVars, loopVars, storeVars
<1>2. /\ request[r] \in {"new", "checked", "reserved"}
      /\ \E a \in {"shutting_down", "checked", "backpressured", "reserved", "counted"} :
           request' = [request EXCEPT ![r] = a]
  BY DEF Check, Reserve, Count, Answer
<1>3. Types' /\ InFlight' /\ WorkersWait' /\ AnswersAreTrue'
  BY <1>1, <1>2, ChannelKept DEF IInv, Types, Answers
<1>4. Closing'
  BY <1>1, ClosingKept DEF Queued
<1> QED BY <1>3, <1>4 DEF IInv

LEMMA EnqueueKeeps ==
  ASSUME IInv, NEW r \in Requests, Enqueue(r)
  PROVE  IInv'
<1>1. UNCHANGED <<journal, worker, candidate, closer, writer>> /\ request[r] = "counted"
  BY DEF Enqueue, workerVars, loopVars, storeVars
<1>2. CASE Room
  <2>1. queue' = Append(queue, Ingest(r)) /\ request' = [request EXCEPT ![r] = "waiting"]
    BY <1>2 DEF Enqueue, Answer
  <2>2. /\ queue \in Seq(Commands) /\ Ingest(r) \in Commands
    BY CommandsAreTyped DEF IInv, Types
  <2>3. /\ queue' \in Seq(Commands)
        /\ \A d : Queued(d)' => Queued(d) \/ d = Ingest(r)
        /\ \A i \in DOMAIN queue' :
             \/ i \in DOMAIN queue /\ queue'[i] = queue[i]
             \/ i = Len(queue) + 1 /\ queue'[i] = Ingest(r)
    BY <2>1, <2>2, AfterSend
  <2>4. ~Queued(Ingest(r))
    BY <1>1 DEF IInv, InFlight
  <2>5. Types'
    BY <1>1, <2>1, <2>3 DEF IInv, Types
  <2>6. InFlight'
    BY <1>1, <2>1, <2>3, <2>4 DEF IInv, Types, InFlight, Queued, Ingest
  <2>7. WorkersWait'
    BY <1>1, <2>3 DEF IInv, WorkersWait, Ingest, Work, Execute
  <2>8. AnswersAreTrue'
    BY <1>1, <2>1 DEF IInv, Types, AnswersAreTrue
  <2>9. Closing'
    BY <1>1, <2>3, ClosingKept DEF Ingest, Shutdown
  <2> QED BY <2>5, <2>6, <2>7, <2>8, <2>9 DEF IInv
<1>3. CASE ~Room
  <2>1. UNCHANGED queue /\ request' = [request EXCEPT ![r] = "backpressured"]
    BY <1>3 DEF Enqueue, Answer
  <2>2. Types' /\ InFlight' /\ WorkersWait' /\ AnswersAreTrue'
    BY <1>1, <2>1, ChannelKept DEF IInv, Types, Answers
  <2> QED BY <1>1, <2>1, <2>2, ClosingKept DEF IInv, Queued
<1> QED BY <1>2, <1>3

(* A command that is no ingest, sent by a thread that then waits for it.   *)
LEMMA SendKeeps ==
  ASSUME IInv, NEW c \in Commands, c.op # "ingest", queue' = Append(queue, c),
         UNCHANGED <<request, journal>>,
         worker' \in [Workers -> {"loop", "sending", "waiting", "done"}],
         \A w \in Workers : worker[w] = "waiting" \/ c = Work(w) => worker'[w] = "waiting",
         \A j \in Jobs : candidate = "waiting" \/ c = Execute(j) => candidate' = "waiting",
         c.op = "work" => ~Queued(c),
         c.op = "execute" => \A i \in DOMAIN queue : queue[i].op # "execute"
  PROVE  Types' /\ InFlight' /\ WorkersWait' /\ AnswersAreTrue'
<1>1. /\ queue' \in Seq(Commands)
      /\ \A d : Queued(d)' => Queued(d) \/ d = c
      /\ \A i \in DOMAIN queue' :
           (i \in DOMAIN queue /\ queue'[i] = queue[i]) \/ (i = Len(queue) + 1 /\ queue'[i] = c)
  BY AfterSend DEF IInv, Types
<1>2. Types' /\ AnswersAreTrue'
  BY <1>1 DEF IInv, Types, AnswersAreTrue
<1>3. InFlight'
  BY <1>1 DEF IInv, InFlight, Ingest
<1>4. WorkersWait'
  <2>1. /\ \A w \in Workers : Queued(Work(w))' => worker'[w] = "waiting"
        /\ \A j \in Jobs : Queued(Execute(j))' => candidate' = "waiting"
    BY <1>1 DEF IInv, WorkersWait
  <2>2. \A i, k \in DOMAIN queue' : queue'[i].op = "work" /\ queue'[i] = queue'[k] => i = k
    BY <1>1 DEF IInv, WorkersWait, Queued
  <2>3. \A i, k \in DOMAIN queue' :
           queue'[i].op = "execute" /\ queue'[k].op = "execute" => i = k
    BY <1>1 DEF IInv, WorkersWait
  <2> QED BY <2>1, <2>2, <2>3 DEF WorkersWait
<1> QED BY <1>2, <1>3, <1>4

LEMMA CallKeeps ==
  ASSUME IInv, NEW j \in Jobs, Call(j)
  PROVE  IInv'
<1>1. UNCHANGED <<request, journal, worker, candidate, closer, writer>>
  BY DEF Call, admissionVars, workerVars, loopVars, storeVars
<1>2. CASE Room
  <2>1. queue' = Append(queue, Create(j)) /\ Create(j) \in Commands
    BY <1>2, CommandsAreTyped DEF Call
  <2>2. Types' /\ InFlight' /\ WorkersWait' /\ AnswersAreTrue'
    BY <1>1, <2>1, SendKeeps DEF IInv, Types, Create, Work, Execute
  <2>3. Queued(Shutdown)' => Queued(Shutdown)
    BY <2>1, AfterSend DEF IInv, Types, Create, Shutdown
  <2> QED BY <1>1, <2>2, <2>3, ClosingKept DEF IInv
<1>3. CASE ~Room
  <2>1. UNCHANGED queue
    BY <1>3 DEF Call
  <2>2. Types' /\ InFlight' /\ WorkersWait' /\ AnswersAreTrue'
    BY <1>1, <2>1, ChannelKept DEF IInv, Types
  <2> QED BY <1>1, <2>1, <2>2, ClosingKept DEF IInv, Queued
<1> QED BY <1>2, <1>3

LEMMA WorkerKeeps ==
  ASSUME IInv, NEW w \in Workers, WorkerLoops(w) \/ WorkerSends(w)
  PROVE  IInv'
<1>1. UNCHANGED <<request, journal, candidate, closer, writer>>
  BY DEF WorkerLoops, WorkerSends, admissionVars, loopVars, storeVars
<1>2. worker[w] \in {"loop", "sending"} /\ ~WorkersDone
  BY DEF WorkerLoops, WorkerSends, WorkersDone
<1>3. PICK a \in {"done", "sending", "waiting", "loop"} : worker' = [worker EXCEPT ![w] = a]
  BY DEF WorkerLoops, WorkerSends
<1>4. closer \notin {"sending", "draining", "done"} /\ ~Queued(Shutdown) /\ writer # "stopped"
  BY <1>2 DEF IInv, Closing
<1>5. CASE UNCHANGED queue
  <2>1. Types' /\ InFlight' /\ WorkersWait' /\ AnswersAreTrue'
    BY <1>1, <1>2, <1>3, <1>5, ChannelKept DEF IInv, Types
  <2>2. Closing'
    BY <1>1, <1>4, <1>5 DEF Closing, Queued
  <2> QED BY <2>1, <2>2 DEF IInv
<1>6. CASE queue' = Append(queue, Work(w)) /\ worker' = [worker EXCEPT ![w] = "waiting"]
  <2>1. Work(w) \in Commands /\ Work(w).op = "work" /\ ~Queued(Work(w))
    BY <1>2, CommandsAreTyped DEF IInv, WorkersWait, Work
  <2>2. Types' /\ InFlight' /\ WorkersWait' /\ AnswersAreTrue'
    BY <1>1, <1>6, <2>1, SendKeeps DEF IInv, Types, Work, Execute
  <2>3. ~Queued(Shutdown)'
    BY <1>4, <1>6, <2>1, AfterSend DEF IInv, Types, Work, Shutdown
  <2>4. Closing'
    BY <1>1, <1>4, <2>3 DEF Closing
  <2> QED BY <2>2, <2>4 DEF IInv
<1> QED BY <1>5, <1>6 DEF WorkerLoops, WorkerSends

LEMMA CandidateKeeps ==
  ASSUME IInv, JobsTyped, CandidateStep
  PROVE  IInv'
<1>1. UNCHANGED <<request, journal, worker, closer, writer>>
  BY DEF CandidateStep, CandidateLoops, CandidatePolls, CandidateSends, admissionVars,
         loopVars, storeVars
<1>2. candidate \in {"loop", "polling", "sending"} /\ ~WorkersDone
  BY DEF CandidateStep, CandidateLoops, CandidatePolls, CandidateSends, WorkersDone
<1>3. closer \notin {"sending", "draining", "done"} /\ ~Queued(Shutdown) /\ writer # "stopped"
  BY <1>2 DEF IInv, Closing
<1>4. CASE UNCHANGED queue
  <2>1. Types' /\ InFlight' /\ WorkersWait' /\ AnswersAreTrue'
    BY <1>1, <1>2, <1>4, ChannelKept DEF IInv, Types
  <2>2. Closing'
    BY <1>1, <1>3, <1>4 DEF Closing, Queued
  <2> QED BY <2>1, <2>2 DEF IInv
<1>5. CASE \E j \in Jobs : queue' = Append(queue, Execute(j)) /\ candidate' = "waiting"
  <2>1. PICK j \in Jobs : queue' = Append(queue, Execute(j)) /\ candidate' = "waiting"
    BY <1>5
  <2>2. /\ Execute(j) \in Commands /\ Execute(j).op = "execute"
        /\ \A i \in DOMAIN queue : queue[i].op # "execute"
    <3>1. ASSUME NEW i \in DOMAIN queue, queue[i].op = "execute"
          PROVE  FALSE
      <4>1. queue[i] \in Commands
        BY DEF IInv, Types
      <4>2. \E k \in Jobs : queue[i] = Execute(k)
        BY <3>1, <4>1 DEF Commands, Shutdown, Execute
      <4> QED BY <1>2, <4>2 DEF IInv, WorkersWait, Queued
    <3> QED BY <3>1, CommandsAreTyped DEF Execute
  <2>3. Types' /\ InFlight' /\ WorkersWait' /\ AnswersAreTrue'
    BY <1>1, <2>1, <2>2, SendKeeps DEF IInv, Types, Work, Execute
  <2>4. ~Queued(Shutdown)'
    BY <1>3, <2>1, <2>2, AfterSend DEF IInv, Types, Execute, Shutdown
  <2>5. Closing'
    BY <1>1, <1>3, <2>4 DEF Closing
  <2> QED BY <2>3, <2>5 DEF IInv
<1>6. CASE CandidateSends
  BY <1>4, <1>5, <1>6 DEF CandidateSends, JobsTyped
<1> QED BY <1>4, <1>6 DEF CandidateStep, CandidateLoops, CandidatePolls

-----------------------------------------------------------------------------
(* The writer.                                                             *)

(* Taking a command that is no ingest and no shutdown.                     *)
LEMMA ReceiveKeeps ==
  ASSUME IInv, queue # <<>>, queue' = Tail(queue),
         UNCHANGED <<request, journal, closer>>,
         writer' # "stopped",
         worker' \in [Workers -> {"loop", "sending", "waiting", "done"}],
         \A w \in Workers : worker'[w] = worker[w] \/ Head(queue) = Work(w),
         candidate' = candidate \/ \E j \in Jobs : Head(queue) = Execute(j),
         \A w \in Workers : Queued(Work(w))' => worker'[w] = "waiting",
         \A j \in Jobs : Queued(Execute(j))' => candidate' = "waiting"
  PROVE  IInv'
<1>1. /\ queue' \in Seq(Commands)
      /\ \A d : Queued(d)' => Queued(d)
      /\ \A i \in DOMAIN queue' : i + 1 \in DOMAIN queue /\ queue'[i] = queue[i + 1]
      /\ Queued(Head(queue))
  BY AfterReceive DEF IInv, Types
<1>2. Types' /\ AnswersAreTrue'
  BY <1>1 DEF IInv, Types, AnswersAreTrue
<1>3. InFlight'
  BY <1>1 DEF IInv, Types, InFlight
<1>4. WorkersWait'
  BY <1>1 DEF IInv, Types, WorkersWait
<1>5. WorkersDone => WorkersDone'
  BY <1>1 DEF IInv, WorkersWait, WorkersDone
<1>6. Closing'
  BY <1>1, <1>5 DEF IInv, Closing
<1> QED BY <1>2, <1>3, <1>4, <1>6 DEF IInv

LEMMA JournalKeeps ==
  ASSUME IInv, NEW r \in Requests, Journal(r)
  PROVE  IInv'
<1>1. /\ queue # <<>> /\ Head(queue) = Ingest(r) /\ queue' = Tail(queue)
      /\ UNCHANGED <<worker, candidate, closer>> /\ writer' = "collecting"
  BY DEF Journal, Receiving, workerVars
<1>2. /\ queue' \in Seq(Commands)
      /\ \A d : Queued(d)' => Queued(d)
      /\ \A i \in DOMAIN queue' : i + 1 \in DOMAIN queue /\ queue'[i] = queue[i + 1] /\ i + 1 # 1
      /\ Queued(Ingest(r)) /\ 1 \in DOMAIN queue /\ Ingest(r) = queue[1]
  BY <1>1, AfterReceive DEF IInv, Types
<1>3. request[r] = "waiting" /\ r \notin journal
  BY <1>2 DEF IInv, InFlight, AnswersAreTrue
<1>4. ~Queued(Ingest(r))'
  <2>1. SUFFICES ASSUME NEW i \in DOMAIN queue', queue'[i] = Ingest(r)
                 PROVE  FALSE
    BY DEF Queued
  <2>2. queue[i + 1] = queue[1] /\ queue[1].op = "ingest"
    BY <1>2, <2>1 DEF Ingest
  <2> QED BY <1>2, <2>2 DEF IInv, InFlight
<1>5. \/ journal' = journal \cup {r} /\ request' = [request EXCEPT ![r] = "accepted"]
      \/ journal' = journal /\ request' = [request EXCEPT ![r] = "unavailable"]
  BY DEF Journal, Answer
<1>6. Types'
  BY <1>1, <1>2, <1>5 DEF IInv, Types, Answers
<1>7. InFlight'
  <2>1. \A x \in Requests : x # r => request'[x] = request[x]
    BY <1>5 DEF IInv, Types
  <2>2. \A x \in Requests : Queued(Ingest(x))' => request'[x] = "waiting"
    BY <1>2, <1>4, <2>1 DEF IInv, InFlight
  <2>3. \A i, k \in DOMAIN queue' : queue'[i].op = "ingest" /\ queue'[i] = queue'[k] => i = k
    BY <1>2 DEF IInv, Types, InFlight
  <2> QED BY <2>2, <2>3 DEF InFlight
<1>8. WorkersWait'
  BY <1>1, <1>2 DEF IInv, Types, WorkersWait
<1>9. AnswersAreTrue'
  BY <1>3, <1>5 DEF IInv, Types, AnswersAreTrue
<1>10. Closing'
  BY <1>1, <1>2, ClosingKept
<1> QED BY <1>6, <1>7, <1>8, <1>9, <1>10 DEF IInv

LEMMA QueueJobKeeps ==
  ASSUME IInv, NEW j \in Jobs, QueueJob(j)
  PROVE  IInv'
<1>1. /\ queue # <<>> /\ Head(queue) = Create(j) /\ queue' = Tail(queue) /\ writer' # "stopped"
      /\ UNCHANGED <<request, journal, worker, candidate, closer>>
  BY DEF QueueJob, Receiving, Resume, admissionVars
<1>2. \A d : Queued(d)' => Queued(d)
  BY <1>1, AfterReceive DEF IInv, Types
<1> QED BY <1>1, <1>2, ReceiveKeeps DEF IInv, Types, WorkersWait

LEMMA RunJobKeeps ==
  ASSUME IInv, NEW j \in Jobs, RunJob(j)
  PROVE  IInv'
<1>1. /\ queue # <<>> /\ Head(queue) = Execute(j) /\ queue' = Tail(queue) /\ writer' # "stopped"
      /\ UNCHANGED <<request, journal, worker, closer>>
  BY DEF RunJob, Receiving, Resume, admissionVars
<1>2. /\ \A d : Queued(d)' => Queued(d)
      /\ \A i \in DOMAIN queue' : i + 1 \in DOMAIN queue /\ queue'[i] = queue[i + 1] /\ i + 1 # 1
      /\ 1 \in DOMAIN queue /\ queue[1] = Execute(j)
  BY <1>1, AfterReceive DEF IInv, Types
<1>3. \A k \in Jobs : ~Queued(Execute(k))'
  <2>1. SUFFICES ASSUME NEW k \in Jobs, NEW i \in DOMAIN queue', queue'[i] = Execute(k)
                 PROVE  FALSE
    BY DEF Queued
  <2>2. queue[i + 1].op = "execute" /\ queue[1].op = "execute"
    BY <1>2, <2>1 DEF Execute
  <2> QED BY <1>2, <2>2 DEF IInv, WorkersWait
<1>4. \A w \in Workers : Queued(Work(w))' => worker'[w] = "waiting"
  BY <1>1, <1>2 DEF IInv, WorkersWait
<1>5. worker' \in [Workers -> {"loop", "sending", "waiting", "done"}]
  BY <1>1 DEF IInv, Types
<1> QED BY <1>1, <1>3, <1>4, <1>5, ReceiveKeeps

LEMMA ServeKeeps ==
  ASSUME IInv, NEW w \in Workers, Serve(w)
  PROVE  IInv'
<1>1. /\ queue # <<>> /\ Head(queue) = Work(w) /\ queue' = Tail(queue) /\ writer' # "stopped"
      /\ UNCHANGED <<request, journal, candidate, closer>>
      /\ worker' = [worker EXCEPT ![w] = "loop"]
  BY DEF Serve, Receiving, Resume, admissionVars, storeVars
<1>2. /\ \A d : Queued(d)' => Queued(d)
      /\ \A i \in DOMAIN queue' : i + 1 \in DOMAIN queue /\ queue'[i] = queue[i + 1] /\ i + 1 # 1
      /\ 1 \in DOMAIN queue /\ queue[1] = Work(w)
  BY <1>1, AfterReceive DEF IInv, Types
<1>3. ~Queued(Work(w))'
  <2>1. SUFFICES ASSUME NEW i \in DOMAIN queue', queue'[i] = Work(w)
                 PROVE  FALSE
    BY DEF Queued
  <2>2. queue[1].op = "work" /\ queue[1] = queue[i + 1]
    BY <1>2, <2>1 DEF Work
  <2> QED BY <1>2, <2>2 DEF IInv, WorkersWait
<1>4. /\ worker' \in [Workers -> {"loop", "sending", "waiting", "done"}]
      /\ \A v \in Workers : v # w => worker'[v] = worker[v]
  BY <1>1 DEF IInv, Types
<1>5. \A v \in Workers : Queued(Work(v))' => worker'[v] = "waiting"
  BY <1>2, <1>3, <1>4 DEF IInv, WorkersWait
<1>6. \A j \in Jobs : Queued(Execute(j))' => candidate' = "waiting"
  BY <1>1, <1>2 DEF IInv, WorkersWait
<1> QED BY <1>1, <1>4, <1>5, <1>6, ReceiveKeeps

(* The commands behind the shutdown are ingests and interface calls only:  *)
(* every worker is done, so none of them has a command there.              *)
LEMMA StopKeeps ==
  ASSUME IInv, Stop
  PROVE  IInv'
<1>1. queue # <<>> /\ queue' = <<>> /\ UNCHANGED <<journal, closer>> /\ Head(queue) = Shutdown
  BY DEF Stop, Receiving, storeVars
<1>2. Queued(Shutdown)
  <2>1. 1 \in DOMAIN queue /\ Head(queue) = queue[1]
    BY <1>1 DEF IInv, Types
  <2> QED BY <1>1, <2>1 DEF Queued
<1>3. closer \in {"draining", "done"} /\ WorkersDone
  BY <1>2 DEF IInv, Closing
<1>4. (\A w \in Workers : ~Queued(Work(w))) /\ (\A j \in Jobs : ~Queued(Execute(j)))
  BY <1>3 DEF IInv, WorkersWait, WorkersDone
<1>5. UNCHANGED <<worker, candidate>>
  BY <1>4 DEF Stop, IInv, Types
<1>6. \A d : ~Queued(d)'
  BY <1>1 DEF Queued
<1>7. \A r \in Requests : request'[r] = IF Queued(Ingest(r)) THEN "unavailable" ELSE request[r]
  BY DEF Stop
<1>8. Types'
  <2>1. request' \in [Requests -> {"new", "checked", "reserved", "counted", "waiting"} \cup Answers]
    BY DEF Stop, IInv, Types, Answers
  <2> QED BY <1>1, <1>5, <2>1 DEF IInv, Types
<1>9. AnswersAreTrue'
  BY <1>1, <1>7 DEF IInv, InFlight, AnswersAreTrue
<1>10. InFlight' /\ WorkersWait'
  BY <1>1, <1>6 DEF InFlight, WorkersWait
<1>11. Closing'
  BY <1>1, <1>3, <1>5, <1>6 DEF Closing, WorkersDone
<1> QED BY <1>8, <1>9, <1>10, <1>11 DEF IInv

LEMMA LoopKeeps ==
  ASSUME IInv, Idle \/ EndMicrobatch \/ Retry \/ BackoffElapses
  PROVE  IInv'
<1>1. /\ UNCHANGED <<queue, request, worker, candidate, closer, journal>>
      /\ writer' = "stopped" => writer = "stopped"
  BY DEF Idle, EndMicrobatch, Retry, BackoffElapses, admissionVars, workerVars, storeVars
<1>2. Types' /\ InFlight' /\ WorkersWait' /\ AnswersAreTrue'
  BY <1>1, ChannelKept DEF IInv, Types
<1> QED BY <1>1, <1>2, ClosingKept DEF IInv, Queued

-----------------------------------------------------------------------------
(* Shutdown.                                                               *)

LEMMA CloserKeeps ==
  ASSUME IInv, BeginShutdown \/ CloserStep
  PROVE  IInv'
<1>1. UNCHANGED <<request, worker, candidate, journal, writer>>
  BY DEF BeginShutdown, CloserStep, JoinWorkers, SendShutdown, JoinWriter, admissionVars,
         workerVars, loopVars, storeVars
<1>2. CASE BeginShutdown \/ JoinWorkers \/ JoinWriter
  <2>1. UNCHANGED queue
    BY <1>2 DEF BeginShutdown, JoinWorkers, JoinWriter
  <2>2. Types' /\ InFlight' /\ WorkersWait' /\ AnswersAreTrue'
    BY <1>1, <2>1, ChannelKept DEF IInv, Types
  <2>3. Closing'
    BY <1>1, <1>2, <2>1 DEF IInv, Closing, WorkersDone, Queued, BeginShutdown, JoinWorkers,
                            JoinWriter
  <2> QED BY <2>2, <2>3 DEF IInv
<1>3. CASE SendShutdown
  <2>1. queue' = Append(queue, Shutdown) /\ closer = "sending" /\ closer' = "draining"
    BY <1>3 DEF SendShutdown
  <2>2. Shutdown \in Commands /\ Shutdown.op = "shutdown"
    BY CommandsAreTyped DEF Shutdown
  <2>3. Types' /\ InFlight' /\ WorkersWait' /\ AnswersAreTrue'
    BY <1>1, <2>1, <2>2, SendKeeps DEF IInv, Types, Work, Execute
  <2>4. Closing'
    BY <1>1, <2>1 DEF IInv, Closing, WorkersDone
  <2> QED BY <2>3, <2>4 DEF IInv
<1> QED BY <1>2, <1>3 DEF CloserStep

-----------------------------------------------------------------------------
(* Which jobs the candidate worker may be told of.                         *)

LEMMA JobsStayTyped ==
  ASSUME JobsTyped, [Next]_vars
  PROVE  JobsTyped'
<1>1. CASE UNCHANGED <<polled, candidates, pending>>
  BY <1>1 DEF JobsTyped
<1>2. CASE CandidateStep
  BY <1>2 DEF CandidateStep, CandidateLoops, CandidatePolls, CandidateSends, storeVars, JobsTyped
<1>3. ASSUME NEW j \in Jobs, QueueJob(j)
      PROVE  JobsTyped'
  BY <1>3 DEF QueueJob, JobsTyped
<1>4. ASSUME NEW j \in Jobs, RunJob(j)
      PROVE  JobsTyped'
  BY <1>4 DEF RunJob, JobsTyped
<1>5. ASSUME NEW r \in Requests, Check(r) \/ SubmitStep(r) \/ Journal(r)
      PROVE  UNCHANGED <<polled, candidates, pending>>
  BY <1>5 DEF Check, SubmitStep, Reserve, Count, Enqueue, Journal, workerVars, storeVars
<1>6. ASSUME NEW j \in Jobs, Call(j)
      PROVE  UNCHANGED <<polled, candidates, pending>>
  BY <1>6 DEF Call, workerVars, storeVars
<1>7. ASSUME NEW w \in Workers, WorkerLoops(w) \/ WorkerSends(w) \/ Serve(w)
      PROVE  UNCHANGED <<polled, candidates, pending>>
  BY <1>7 DEF WorkerLoops, WorkerSends, Serve, storeVars
<1>8. ASSUME Stop \/ Idle \/ EndMicrobatch \/ Retry \/ BackoffElapses
      PROVE  UNCHANGED <<polled, candidates, pending>>
  BY <1>8 DEF Stop, Idle, EndMicrobatch, Retry, BackoffElapses, workerVars, storeVars
<1>9. ASSUME BeginShutdown \/ CloserStep
      PROVE  UNCHANGED <<polled, candidates, pending>>
  BY <1>9 DEF BeginShutdown, CloserStep, JoinWorkers, SendShutdown, JoinWriter, workerVars,
              storeVars
<1>10. CASE Ended \/ UNCHANGED vars
  BY <1>10, <1>1 DEF Ended, vars
<1> QED BY <1>1, <1>2, <1>3, <1>4, <1>5, <1>6, <1>7, <1>8, <1>9, <1>10 DEF Next, WriterStep

LEMMA NextKeeps ==
  ASSUME IInv, JobsTyped, [Next]_vars
  PROVE  IInv'
<1>1. ASSUME NEW r \in Requests, Check(r) \/ SubmitStep(r) \/ Journal(r)
      PROVE  IInv'
  BY <1>1, SubmitKeeps, EnqueueKeeps, JournalKeeps DEF SubmitStep
<1>2. ASSUME NEW j \in Jobs, Call(j) \/ QueueJob(j) \/ RunJob(j)
      PROVE  IInv'
  BY <1>2, CallKeeps, QueueJobKeeps, RunJobKeeps
<1>3. ASSUME NEW w \in Workers, WorkerLoops(w) \/ WorkerSends(w) \/ Serve(w)
      PROVE  IInv'
  BY <1>3, WorkerKeeps, ServeKeeps
<1>4. CASE CandidateStep
  BY <1>4, CandidateKeeps
<1>5. CASE Stop \/ Idle \/ EndMicrobatch \/ Retry \/ BackoffElapses
  BY <1>5, StopKeeps, LoopKeeps
<1>6. CASE BeginShutdown \/ CloserStep
  BY <1>6, CloserKeeps
<1>7. CASE Ended \/ UNCHANGED vars
  <2>1. UNCHANGED <<queue, request, worker, candidate, closer, journal, writer>>
    BY <1>7 DEF Ended, vars
  <2>2. Types' /\ InFlight' /\ WorkersWait' /\ AnswersAreTrue'
    BY <2>1, ChannelKept DEF IInv, Types
  <2> QED BY <2>1, <2>2, ClosingKept DEF IInv, Queued
<1> QED BY <1>1, <1>2, <1>3, <1>4, <1>5, <1>6, <1>7 DEF Next, WriterStep

LEMMA Invariant == Spec => [](IInv /\ JobsTyped)
<1>1. Init => IInv /\ JobsTyped
  BY InitIInv, QueueAssumption DEF Init, JobsTyped
<1>2. IInv /\ JobsTyped /\ [Next]_vars => IInv' /\ JobsTyped'
  BY NextKeeps, JobsStayTyped
<1> QED BY <1>1, <1>2, PTL DEF Spec

-----------------------------------------------------------------------------
(* A request is answered Ok exactly when its batch is journaled: no        *)
(* interleaving of exporters, backpressure, store errors and shutdown      *)
(* acknowledges a batch that is not durable or denies one that is.         *)
THEOREM AnswersMatchJournal == Spec => []AnswersAreTrue
<1>1. IInv => AnswersAreTrue
  BY DEF IInv
<1> QED BY <1>1, Invariant, PTL

(* The writer thread ends only after every background producer has ended,  *)
(* so the drain never drops a worker's command.                            *)
THEOREM WriterStopsLast == Spec => []WriterOutlivesWorkers
<1>1. IInv => WriterOutlivesWorkers
  BY DEF IInv, Closing, WriterOutlivesWorkers
<1> QED BY <1>1, Invariant, PTL

-----------------------------------------------------------------------------
(* Every answer is true, and the writer stops after its last producer.     *)
THEOREM WriterStaysTrue == Spec => []WriterIsTrue
  BY AnswersMatchJournal, WriterStopsLast, PTL DEF WriterIsTrue

-----------------------------------------------------------------------------
(* The admission budget.  The counters are exact while the writer runs;    *)
(* afterwards the dropped requests stay counted, and a request that finds  *)
(* the channel closed gives back what it took.                             *)

Threads ==
  /\ unprojected \in Seq(Requests) /\ collected \in Nat /\ faults \in Nat
  /\ shuttingDown \in BOOLEAN /\ retryDue \in BOOLEAN
  /\ caller \in [Jobs -> {"new", "waiting", "created", "refused", "unavailable"}]
  /\ candidate \in {"loop", "polling", "sending", "waiting", "done"}
  /\ closer \in {"none", "joining", "sending", "draining", "done"}
  /\ writer \in {"idle", "collecting", "tail", "stopped"}

Budget ==
  /\ queuedBytes \in Nat /\ queuedBatches \in Nat /\ queuedBytes =< QueueBytes
  /\ Cardinality(Held) =< queuedBytes /\ Cardinality(Counted) =< queuedBatches
  /\ writer # "stopped" => /\ queuedBytes = Cardinality(Held)
                           /\ queuedBatches = Cardinality(Counted)

(* What a set of requests holds.                                           *)
HeldBy(S) == UNION {Bytes(r) : r \in S}

LEMMA HeldIsFinite ==
  ASSUME NEW S \in SUBSET Requests
  PROVE  /\ IsFiniteSet(S) /\ Cardinality(S) \in Nat
         /\ IsFiniteSet(HeldBy(S)) /\ Cardinality(HeldBy(S)) \in Nat
<1>1. IsFiniteSet(S)
  BY QueueAssumption, FS_Subset
<1>2. \A r \in S : IsFiniteSet(Bytes(r))
  <2> SUFFICES ASSUME NEW r \in S PROVE IsFiniteSet(Bytes(r))
    OBVIOUS
  <2>1. 1 \in Int /\ Size[r] \in Int
    BY QueueAssumption
  <2>2. IsFiniteSet(1..Size[r]) /\ IsFiniteSet({r})
    BY <2>1, FS_Interval, FS_Singleton
  <2> QED BY <2>2, FS_Product DEF Bytes
<1> DEFINE bytes == [r \in S |-> Bytes(r)]
           T == {bytes[r] : r \in S}
<1>3. IsFiniteSet(T)
  <2>1. bytes \in Surjection(S, T)
    BY DEF Surjection
  <2> HIDE DEF bytes, T
  <2> QED BY <1>1, <2>1, FS_Surjection
<1>4. \A X \in T : IsFiniteSet(X)
  BY <1>2
<1>5. IsFiniteSet(UNION T)
  <2> HIDE DEF T
  <2> QED BY <1>3, <1>4, FS_UNION
<1>6. HeldBy(S) = UNION T
  BY DEF HeldBy
<1>7. Cardinality(S) \in Nat /\ Cardinality(UNION T) \in Nat
  BY <1>1, <1>5, FS_CardinalityType
<1> QED
  BY <1>1, <1>5, <1>6, <1>7

LEMMA OneMoreHolds ==
  ASSUME NEW S \in SUBSET Requests, NEW r \in Requests, r \notin S
  PROVE  /\ Cardinality(S \cup {r}) = Cardinality(S) + 1
         /\ Cardinality(HeldBy(S \cup {r})) = Cardinality(HeldBy(S)) + Size[r]
<1>1. IsFiniteSet(S) /\ IsFiniteSet(HeldBy(S)) /\ Cardinality(HeldBy(S)) \in Nat
  BY HeldIsFinite
<1>2. HeldBy(S \cup {r}) = HeldBy(S) \cup Bytes(r)
  BY DEF HeldBy
<1>3. HeldBy(S) \cap Bytes(r) = {}
  BY DEF HeldBy, Bytes
<1>4. IsFiniteSet(Bytes(r)) /\ Cardinality(Bytes(r)) = Size[r]
  <2>1. 1 \in Int /\ Size[r] \in Nat
    BY QueueAssumption
  <2>2. IsFiniteSet(1..Size[r]) /\ Cardinality(1..Size[r]) = Size[r]
    <3> DEFINE n == Size[r]
    <3>1. 1 \in Int /\ n \in Int
      BY <2>1
    <3> HIDE DEF n
    <3>2. /\ IsFiniteSet(1..n)
          /\ Cardinality(1..n) = IF 1 > n THEN 0 ELSE n - 1 + 1
      BY ONLY <3>1, FS_Interval, Zenon
    <3>3. Size[r] = n
      BY DEF n
    <3> QED BY ONLY <2>1, <3>2, <3>3
  <2>3. IsFiniteSet({r}) /\ Cardinality({r}) = 1
    BY FS_Singleton
  <2>4. IsFiniteSet(Bytes(r)) /\ Cardinality(Bytes(r)) = Cardinality({r}) * Cardinality(1..Size[r])
    BY <2>2, <2>3, FS_Product DEF Bytes
  <2> QED BY <2>1, <2>2, <2>3, <2>4
<1>5. /\ Cardinality(HeldBy(S) \cap Bytes(r)) = 0
      /\ Cardinality(HeldBy(S) \cup Bytes(r))
           = Cardinality(HeldBy(S)) + Cardinality(Bytes(r)) - Cardinality(HeldBy(S) \cap Bytes(r))
  BY <1>1, <1>3, <1>4, FS_Union, FS_EmptySet
<1>6. Size[r] \in Nat
  BY QueueAssumption
<1>7. Cardinality(S \cup {r}) = Cardinality(S) + 1
  BY <1>1, FS_AddElement
<1>8. Cardinality(HeldBy(S) \cup Bytes(r)) = Cardinality(HeldBy(S)) + Size[r]
  <2> DEFINE h == Cardinality(HeldBy(S))
             n == Cardinality(HeldBy(S) \cup Bytes(r))
  <2>1. h \in Nat /\ Size[r] \in Nat /\ n = h + Size[r] - 0
    BY <1>1, <1>4, <1>5, <1>6
  <2> HIDE DEF h, n
  <2>2. n = h + Size[r]
    BY <2>1
  <2> QED BY <2>2 DEF h, n
<1> QED
  BY <1>2, <1>7, <1>8

(* Who holds after a request has moved on.                                 *)
HoldingStates == {"reserved", "counted", "waiting"}
CountedStates == {"counted", "waiting"}
RequestStates == {"new", "checked", "reserved", "counted", "waiting"} \cup Answers

LEMMA StatesAre ==
  /\ \A a \in {"new", "checked"} \cup Answers :
       a \in RequestStates /\ a \notin HoldingStates /\ a \notin CountedStates
  /\ "reserved" \in RequestStates /\ "reserved" \in HoldingStates /\ "reserved" \notin CountedStates
  /\ \A a \in {"counted", "waiting"} :
       a \in RequestStates /\ a \in HoldingStates /\ a \in CountedStates
  BY DEF HoldingStates, CountedStates, RequestStates, Answers

LEMMA HeldAfter ==
  ASSUME Types, NEW r \in Requests, NEW a \in RequestStates,
         request' = [request EXCEPT ![r] = a]
  PROVE  /\ Cardinality(Held) \in Nat /\ Cardinality(Counted) \in Nat /\ Size[r] \in Nat
         /\ Cardinality(Held') \in Nat /\ Cardinality(Counted') \in Nat
         /\ (a \in HoldingStates <=> request[r] \in HoldingStates) =>
              Cardinality(Held') = Cardinality(Held)
         /\ a \in HoldingStates /\ request[r] \notin HoldingStates =>
              Cardinality(Held') = Cardinality(Held) + Size[r]
         /\ a \notin HoldingStates /\ request[r] \in HoldingStates =>
              Cardinality(Held) = Cardinality(Held') + Size[r]
         /\ (a \in CountedStates <=> request[r] \in CountedStates) =>
              Cardinality(Counted') = Cardinality(Counted)
         /\ a \in CountedStates /\ request[r] \notin CountedStates =>
              Cardinality(Counted') = Cardinality(Counted) + 1
         /\ a \notin CountedStates /\ request[r] \in CountedStates =>
              Cardinality(Counted) = Cardinality(Counted') + 1
<1> DEFINE holds(x) == x \in HoldingStates
           counts(x) == x \in CountedStates
<1>1. Held = HeldBy(Holding) /\ Held' = HeldBy(Holding')
  BY DEF Held, HeldBy, Bytes
<1>2. /\ request'[r] = a /\ \A x \in Requests : x # r => request'[x] = request[x]
      /\ Holding \in SUBSET Requests /\ Holding' \in SUBSET Requests
      /\ Counted \in SUBSET Requests /\ Counted' \in SUBSET Requests
  BY DEF Types, Holding, Counted, RequestStates
<1>3. /\ r \in Holding <=> holds(request[r])
      /\ r \in Holding' <=> holds(a)
      /\ r \in Counted <=> counts(request[r])
      /\ r \in Counted' <=> counts(a)
      /\ \A x \in Requests : x # r => (x \in Holding <=> x \in Holding')
                                      /\ (x \in Counted <=> x \in Counted')
  BY <1>2 DEF Holding, Counted, HoldingStates, CountedStates
<1>4. /\ Cardinality(HeldBy(Holding)) \in Nat /\ Cardinality(HeldBy(Holding')) \in Nat
      /\ Cardinality(Counted) \in Nat /\ Cardinality(Counted') \in Nat /\ Size[r] \in Nat
  BY <1>2, HeldIsFinite, QueueAssumption
<1>5. /\ holds(a) /\ holds(request[r]) => Holding' = Holding
      /\ ~holds(a) /\ ~holds(request[r]) => Holding' = Holding
      /\ counts(a) /\ counts(request[r]) => Counted' = Counted
      /\ ~counts(a) /\ ~counts(request[r]) => Counted' = Counted
  <2> HIDE DEF holds, counts
  <2> QED BY <1>2, <1>3
<1>6. /\ holds(a) /\ ~holds(request[r]) => r \notin Holding /\ Holding' = Holding \cup {r}
      /\ ~holds(a) /\ holds(request[r]) => r \notin Holding' /\ Holding = Holding' \cup {r}
      /\ counts(a) /\ ~counts(request[r]) => r \notin Counted /\ Counted' = Counted \cup {r}
      /\ ~counts(a) /\ counts(request[r]) => r \notin Counted' /\ Counted = Counted' \cup {r}
  <2> HIDE DEF holds, counts
  <2> QED BY <1>2, <1>3
<1>7. /\ holds(a) /\ ~holds(request[r]) =>
           Cardinality(HeldBy(Holding')) = Cardinality(HeldBy(Holding)) + Size[r]
      /\ ~holds(a) /\ holds(request[r]) =>
           Cardinality(HeldBy(Holding)) = Cardinality(HeldBy(Holding')) + Size[r]
  <2> HIDE DEF holds, counts
  <2> QED BY <1>2, <1>6, OneMoreHolds
<1>8. /\ counts(a) /\ ~counts(request[r]) => Cardinality(Counted') = Cardinality(Counted) + 1
      /\ ~counts(a) /\ counts(request[r]) => Cardinality(Counted) = Cardinality(Counted') + 1
  <2> HIDE DEF holds, counts
  <2> QED BY <1>2, <1>6, OneMoreHolds
<1> QED
  BY <1>1, <1>4, <1>5, <1>7, <1>8

(* A request that moves on, and what the counters do meanwhile.            *)
LEMMA RequestKeepsBudget ==
  ASSUME IInv, Budget, NEW r \in Requests,
         Check(r) \/ Reserve(r) \/ Count(r) \/ Enqueue(r) \/ Journal(r)
  PROVE  Budget'
<1>0. Types /\ QueueBytes \in Nat
  BY QueueAssumption DEF IInv
<1>1. CASE Check(r)
  <2>1. PICK a \in {"checked", "shutting_down"} : request' = [request EXCEPT ![r] = a]
    BY <1>1 DEF Check, Answer
  <2>2. UNCHANGED <<queuedBytes, queuedBatches, writer>> /\ request[r] = "new"
    BY <1>1 DEF Check, loopVars
  <2>3. Cardinality(Held') = Cardinality(Held) /\ Cardinality(Counted') = Cardinality(Counted)
    BY <1>0, <2>1, <2>2, StatesAre, HeldAfter DEF Answers
  <2> QED BY <2>2, <2>3 DEF Budget
<1>2. CASE Reserve(r)
  <2>1. UNCHANGED <<queuedBatches, writer>> /\ request[r] = "checked"
    BY <1>2 DEF Reserve, loopVars
  <2>2. CASE queuedBytes + Size[r] > QueueBytes
    <3>1. request' = [request EXCEPT ![r] = "backpressured"] /\ UNCHANGED queuedBytes
      BY <1>2, <2>2 DEF Reserve, Answer
    <3>2. Cardinality(Held') = Cardinality(Held) /\ Cardinality(Counted') = Cardinality(Counted)
      BY <1>0, <2>1, <3>1, StatesAre, HeldAfter DEF Answers
    <3> QED BY <2>1, <3>1, <3>2 DEF Budget
  <2>3. CASE ~(queuedBytes + Size[r] > QueueBytes)
    <3>1. request' = [request EXCEPT ![r] = "reserved"] /\ queuedBytes' = queuedBytes + Size[r]
      BY <1>2, <2>3 DEF Reserve, Answer
    <3>2. /\ Cardinality(Held') = Cardinality(Held) + Size[r] /\ Cardinality(Held) \in Nat
          /\ Cardinality(Counted') = Cardinality(Counted) /\ Size[r] \in Nat
      BY <1>0, <2>1, <3>1, StatesAre, HeldAfter
    <3> QED BY <1>0, <2>1, <2>3, <3>1, <3>2 DEF Budget
  <2> QED BY <2>2, <2>3
<1>3. CASE Count(r)
  <2>1. /\ UNCHANGED <<queuedBytes, writer>> /\ request[r] = "reserved"
        /\ request' = [request EXCEPT ![r] = "counted"] /\ queuedBatches' = queuedBatches + 1
    BY <1>3 DEF Count, loopVars, Answer
  <2>2. /\ Cardinality(Held') = Cardinality(Held) /\ Cardinality(Counted) \in Nat
        /\ Cardinality(Counted') = Cardinality(Counted) + 1
    BY <1>0, <2>1, StatesAre, HeldAfter
  <2> QED BY <2>1, <2>2 DEF Budget
<1>4. CASE Enqueue(r)
  <2>1. UNCHANGED writer /\ request[r] = "counted"
    BY <1>4 DEF Enqueue, loopVars
  <2>2. CASE Room
    <3>1. /\ request' = [request EXCEPT ![r] = "waiting"]
          /\ UNCHANGED <<queuedBytes, queuedBatches>>
      BY <1>4, <2>2 DEF Enqueue, Answer
    <3>2. Cardinality(Held') = Cardinality(Held) /\ Cardinality(Counted') = Cardinality(Counted)
      BY <1>0, <2>1, <3>1, StatesAre, HeldAfter
    <3> QED BY <2>1, <3>1, <3>2 DEF Budget
  <2>3. CASE ~Room
    <3>1. /\ request' = [request EXCEPT ![r] = "backpressured"]
          /\ queuedBytes' = queuedBytes - Size[r] /\ queuedBatches' = queuedBatches - 1
      BY <1>4, <2>3 DEF Enqueue, Answer
    <3>2. /\ Cardinality(Held) = Cardinality(Held') + Size[r] /\ Cardinality(Held') \in Nat
          /\ Cardinality(Counted) = Cardinality(Counted') + 1 /\ Cardinality(Counted') \in Nat
          /\ Size[r] \in Nat
      BY <1>0, <2>1, <3>1, StatesAre, HeldAfter DEF Answers
    <3> QED BY <1>0, <2>1, <3>1, <3>2 DEF Budget
  <2> QED BY <2>2, <2>3
<1>5. CASE Journal(r)
  <2>1. /\ queue # <<>> /\ Head(queue) = Ingest(r) /\ queue' = Tail(queue)
        /\ queuedBytes' = queuedBytes - Size[r] /\ queuedBatches' = queuedBatches - 1
        /\ writer # "stopped" /\ writer' # "stopped"
    BY <1>5 DEF Journal, Receiving
  <2>2. request[r] = "waiting"
    BY <1>0, <2>1, AfterReceive DEF IInv, InFlight, Types
  <2>3. PICK a \in {"accepted", "unavailable"} : request' = [request EXCEPT ![r] = a]
    BY <1>5 DEF Journal, Answer
  <2>4. /\ Cardinality(Held) = Cardinality(Held') + Size[r] /\ Cardinality(Held') \in Nat
        /\ Cardinality(Counted) = Cardinality(Counted') + 1 /\ Cardinality(Counted') \in Nat
        /\ Size[r] \in Nat
    BY <1>0, <2>2, <2>3, StatesAre, HeldAfter DEF Answers
  <2> QED BY <1>0, <2>1, <2>4 DEF Budget
<1> QED
  BY <1>1, <1>2, <1>3, <1>4, <1>5

(* What is dropped with the channel holds nothing any more.                *)
LEMMA StopKeepsBudget ==
  ASSUME IInv, Budget, Stop
  PROVE  Budget'
<1>1. /\ UNCHANGED <<queuedBytes, queuedBatches>> /\ writer' = "stopped"
      /\ \A r \in Requests : request'[r] = request[r] \/ request'[r] = "unavailable"
  BY DEF Stop
<1>2. /\ Held = HeldBy(Holding) /\ Held' = HeldBy(Holding')
      /\ Holding \in SUBSET Requests /\ Holding' \in SUBSET Holding
      /\ Counted \in SUBSET Requests /\ Counted' \in SUBSET Counted
  BY <1>1 DEF Held, HeldBy, Bytes, Holding, Counted
<1>3. IsFiniteSet(HeldBy(Holding)) /\ IsFiniteSet(Counted)
  BY <1>2, HeldIsFinite
<1>4. HeldBy(Holding') \in SUBSET HeldBy(Holding)
  BY <1>2 DEF HeldBy
<1>5. /\ Cardinality(HeldBy(Holding')) =< Cardinality(HeldBy(Holding))
      /\ Cardinality(Counted') =< Cardinality(Counted)
      /\ Cardinality(HeldBy(Holding)) \in Nat /\ Cardinality(HeldBy(Holding')) \in Nat
      /\ Cardinality(Counted) \in Nat /\ Cardinality(Counted') \in Nat
  BY <1>2, <1>3, <1>4, FS_Subset, FS_CardinalityType
<1>6. QueueBytes \in Nat
  BY QueueAssumption
<1> QED
  BY <1>1, <1>2, <1>5, <1>6 DEF Budget

LEMMA BudgetNext ==
  ASSUME IInv, Budget, [Next]_vars
  PROVE  Budget'
<1>1. CASE UNCHANGED admissionVars /\ (writer' = "stopped" <=> writer = "stopped")
  BY <1>1 DEF Budget, Held, Holding, Bytes, Counted, admissionVars
<1>2. ASSUME NEW r \in Requests, Check(r) \/ SubmitStep(r) \/ Journal(r)
      PROVE  Budget'
  BY <1>2, RequestKeepsBudget DEF SubmitStep
<1>3. CASE Stop
  BY <1>3, StopKeepsBudget
<1>4. ASSUME NEW j \in Jobs, Call(j) \/ QueueJob(j) \/ RunJob(j)
      PROVE  UNCHANGED admissionVars /\ (writer' = "stopped" <=> writer = "stopped")
  BY <1>4 DEF Call, QueueJob, RunJob, Receiving, Resume, loopVars
<1>5. ASSUME NEW w \in Workers, WorkerLoops(w) \/ WorkerSends(w) \/ Serve(w)
      PROVE  UNCHANGED admissionVars /\ (writer' = "stopped" <=> writer = "stopped")
  BY <1>5 DEF WorkerLoops, WorkerSends, Serve, Receiving, Resume, loopVars
<1>6. ASSUME CandidateStep \/ Idle \/ EndMicrobatch \/ Retry \/ BackoffElapses
      PROVE  UNCHANGED admissionVars /\ (writer' = "stopped" <=> writer = "stopped")
  BY <1>6 DEF CandidateStep, CandidateLoops, CandidatePolls, CandidateSends, Idle, EndMicrobatch,
              Retry, BackoffElapses, loopVars
<1>7. ASSUME BeginShutdown \/ CloserStep \/ Ended \/ UNCHANGED vars
      PROVE  UNCHANGED admissionVars /\ (writer' = "stopped" <=> writer = "stopped")
  BY <1>7 DEF BeginShutdown, CloserStep, JoinWorkers, SendShutdown, JoinWriter, Ended, vars,
              loopVars, admissionVars
<1> QED
  BY <1>1, <1>2, <1>3, <1>4, <1>5, <1>6, <1>7 DEF Next, WriterStep

-----------------------------------------------------------------------------
(* Where the threads are.                                                  *)

(* A page of the journal has a last row.                                   *)
LEMMA PageHasLast ==
  ASSUME unprojected \in Seq(Requests), Page # {}
  PROVE  Max(Page) \in 1..Len(unprojected)
<1> DEFINE n == Len(unprojected)
           T == {x..n : x \in Page}
           R == StrictSubsetOrdering(Nat)
<1>0. n \in Nat /\ Page \subseteq 1..n
  BY DEF Page
<1>1. T \subseteq FiniteSubsetsOf(Nat) /\ T # {}
  <2>1. ASSUME NEW x \in Page PROVE x..n \in FiniteSubsetsOf(Nat)
    <3>1. x \in Int /\ n \in Int /\ x..n \subseteq Nat
      BY <1>0
    <3> QED BY <3>1, FS_Interval DEF FiniteSubsetsOf
  <2> QED BY <2>1
<1>2. IsWellFoundedOn(R, FiniteSubsetsOf(Nat))
  BY FS_StrictSubsetOrderingWellFounded
<1>3. PICK X \in T : \A Y \in T : ~(<<Y, X>> \in R)
  <2> HIDE DEF T, R
  <2> QED BY <1>1, <1>2, WFMin
<1>4. PICK x \in Page : X = x..n
  OBVIOUS
<1>5. ASSUME NEW y \in Page, ~(x >= y) PROVE FALSE
  <2>1. y..n \in T /\ y..n \subseteq x..n /\ y..n # x..n /\ x..n \subseteq Nat
    <3>1. x \in Nat /\ y \in Nat /\ x =< n
      BY <1>0
    <3>2. x \in x..n /\ x \notin y..n
      BY <1>0, <1>5, <3>1
    <3> QED BY <1>0, <1>5, <3>1, <3>2
  <2> QED BY <1>3, <1>4, <2>1 DEF StrictSubsetOrdering
<1>6. \E z \in Page : \A y \in Page : z >= y
  BY <1>5
<1>7. Max(Page) \in Page
  BY <1>6 DEF Max
<1> QED
  BY <1>0, <1>7

LEMMA ThreadsNext ==
  ASSUME IInv, Threads, [Next]_vars
  PROVE  Threads'
<1>1. CASE UNCHANGED <<unprojected, collected, faults, shuttingDown, retryDue, caller, candidate,
                       closer, writer>>
  BY <1>1 DEF Threads
<1>2. ASSUME NEW r \in Requests, Check(r) \/ SubmitStep(r)
      PROVE  Threads'
  BY <1>1, <1>2 DEF Check, SubmitStep, Reserve, Count, Enqueue, workerVars, loopVars, storeVars
<1>3. ASSUME NEW r \in Requests, Journal(r)
      PROVE  Threads'
  <2>1. Size[r] \in Nat
    BY QueueAssumption
  <2>2. /\ UNCHANGED <<shuttingDown, caller, candidate, closer, retryDue>> /\ writer' = "collecting"
        /\ \/ /\ unprojected' = Append(unprojected, r) /\ collected' = collected + Size[r]
              /\ UNCHANGED faults
           \/ /\ faults' = faults + 1 /\ UNCHANGED <<unprojected, collected>>
    BY <1>3 DEF Journal, workerVars
  <2>3. unprojected' \in Seq(Requests) /\ collected' \in Nat /\ faults' \in Nat
    <3>1. unprojected \in Seq(Requests) /\ collected \in Nat /\ faults \in Nat
      BY DEF Threads
    <3>2. collected + Size[r] \in Nat /\ faults + 1 \in Nat
      BY <2>1, <3>1
    <3>3. Append(unprojected, r) \in Seq(Requests)
      BY <3>1
    <3> QED BY <2>2, <3>1, <3>2, <3>3, Zenon
  <2> QED BY <2>2, <2>3 DEF Threads
<1>4. ASSUME NEW j \in Jobs, Call(j)
      PROVE  Threads'
  BY <1>4 DEF Call, Threads, workerVars, loopVars, storeVars
<1>5. ASSUME NEW j \in Jobs, QueueJob(j)
      PROVE  Threads'
  BY <1>5 DEF QueueJob, Resume, Threads
<1>6. ASSUME NEW j \in Jobs, RunJob(j)
      PROVE  Threads'
  BY <1>6 DEF RunJob, Resume, Threads
<1>7. ASSUME NEW w \in Workers, WorkerLoops(w) \/ WorkerSends(w)
      PROVE  Threads'
  BY <1>1, <1>7 DEF WorkerLoops, WorkerSends, loopVars, storeVars
<1>8. ASSUME NEW w \in Workers, Serve(w)
      PROVE  Threads'
  BY <1>8 DEF Serve, Resume, Threads, storeVars
<1>9. CASE CandidateStep
  BY <1>9 DEF CandidateStep, CandidateLoops, CandidatePolls, CandidateSends, Threads, loopVars,
              storeVars
<1>10. CASE Stop
  <2>1. /\ UNCHANGED <<unprojected, collected, faults, shuttingDown, retryDue, closer>>
        /\ writer' = "stopped" /\ candidate' \in {"polling", candidate}
        /\ caller' \in [Jobs -> {"new", "waiting", "created", "refused", "unavailable"}]
    BY <1>10 DEF Stop, Threads, storeVars
  <2> QED BY <2>1 DEF Threads
<1>11. CASE Idle \/ EndMicrobatch \/ BackoffElapses
  <2>1. /\ UNCHANGED <<unprojected, faults, shuttingDown, caller, candidate, closer>>
        /\ writer' \in {"tail", writer} /\ collected' \in {0, collected}
        /\ retryDue' = retryDue \/ retryDue' = TRUE \/ retryDue' = (retryDue /\ collected = 0)
    BY <1>11 DEF Idle, EndMicrobatch, BackoffElapses, workerVars, storeVars
  <2>2. collected' \in Nat
    BY <2>1 DEF Threads
  <2>3. retryDue' \in BOOLEAN
    BY <2>1, Zenon DEF Threads
  <2> QED BY <2>1, <2>2, <2>3 DEF Threads
<1>12. CASE Retry
  <2>1. /\ UNCHANGED <<collected, shuttingDown, caller, candidate, closer>> /\ writer' = "idle"
        /\ faults' \in {faults, faults + 1} /\ retryDue' \in {retryDue, FALSE}
        /\ \/ UNCHANGED unprojected
           \/ /\ Page # {}
              /\ unprojected' = SubSeq(unprojected, Max(Page) + 1, Len(unprojected))
    BY <1>12 DEF Retry, workerVars
  <2>4. faults' \in Nat /\ retryDue' \in BOOLEAN
    <3>1. faults \in Nat /\ retryDue \in BOOLEAN
      BY DEF Threads
    <3>2. faults' \in Nat
      BY <2>1, <3>1
    <3>3. retryDue' \in BOOLEAN
      BY <2>1, <3>1
    <3> QED BY <3>2, <3>3
  <2>2. CASE UNCHANGED unprojected
    BY <2>1, <2>2, <2>4 DEF Threads
  <2>3. CASE Page # {} /\ unprojected' = SubSeq(unprojected, Max(Page) + 1, Len(unprojected))
    <3> DEFINE m == Max(Page)
    <3>1. unprojected \in Seq(Requests) /\ m \in 1..Len(unprojected)
      BY <2>3, PageHasLast DEF Threads
    <3>2. SubSeq(unprojected, m + 1, Len(unprojected)) \in Seq(Requests)
      <4> HIDE DEF m
      <4> QED BY <3>1
    <3> QED BY <2>1, <2>3, <2>4, <3>2 DEF Threads
  <2> QED BY <2>1, <2>2, <2>3
<1>13. CASE BeginShutdown \/ CloserStep
  BY <1>13 DEF BeginShutdown, CloserStep, JoinWorkers, SendShutdown, JoinWriter, Threads,
               workerVars, loopVars, storeVars
<1>14. CASE Ended \/ UNCHANGED vars
  BY <1>1, <1>14 DEF Ended, vars
<1> QED
  BY <1>2, <1>3, <1>4, <1>5, <1>6, <1>7, <1>8, <1>9, <1>10, <1>11, <1>12, <1>13, <1>14
     DEF Next, WriterStep

(* The unsigned counters never wrap, never exceed the budget, and are what *)
(* the requests in flight hold: backpressure, a full channel, a store      *)
(* error and the drain at shutdown leak nothing and release nothing twice. *)
THEOREM QueueStaysSound == Spec => []QueueIsSound
<1>1. Init => Threads /\ Budget
  <2> SUFFICES ASSUME Init PROVE Threads /\ Budget
    OBVIOUS
  <2>1. Holding = {} /\ Counted = {}
    BY DEF Init, Holding, Counted
  <2>2. Cardinality(Held) = 0 /\ Cardinality(Counted) = 0
    BY <2>1, FS_EmptySet DEF Held
  <2>3. Budget
    BY <2>2, QueueAssumption DEF Init, Budget
  <2>4. <<>> \in Seq(Requests)
    OBVIOUS
  <2>5. Threads
    BY <2>4 DEF Init, Threads
  <2> QED BY <2>3, <2>5
<1>2. IInv /\ Threads /\ Budget /\ [Next]_vars => Threads' /\ Budget'
  BY ThreadsNext, BudgetNext
<1>3. IInv /\ JobsTyped /\ Threads /\ Budget => QueueIsSound
  BY DEF IInv, Types, JobsTyped, Threads, Budget, QueueIsSound, TypeOK, BudgetIsExact
<1> QED
  BY <1>1, <1>2, <1>3, Invariant, PTL DEF Spec

=============================================================================

---------------------------- MODULE DerivedProofs ----------------------------
(***************************************************************************)
(* What the background workers derive from finalized revisions, proved:    *)
(* FindingsAreAssigned of CohortQueue and TreesAreTrue of Topology.        *)
(*                                                                         *)
(* Cohorts, for every set of traces, projects and texts, every size of the *)
(* queue and of the history, and any number of analyses, failures and      *)
(* restarts.  The property says where every active finding is; what makes  *)
(* it inductive is how the worker's hands fit the store: an append goes to *)
(* the project of its trace while that has an active model, a fit has read *)
(* findings of its own project only, and those it has not read are excused *)
(* or still to be sent, since its commit replaces the model that had them. *)
(*                                                                         *)
(* Trees, for every finite set of spans, any batches, size of a chunk and  *)
(* number of revisions, failures and restarts.  First the pure part: the   *)
(* walk up from a span ends, so the depths of a topology form trees, the   *)
(* walk down from the roots lists each span once with what is below it,    *)
(* and the stored projection is therefore complete.  Then the invariant:   *)
(* columns are those of the projection wherever there are any, the worker  *)
(* has only rows of it left to write, and an index or the rows a reader    *)
(* holds lack at most the batch whose update is under way.                 *)
(***************************************************************************)
EXTENDS CohortQueue, Topology, FiniteSetTheorems, SequenceTheorems, WellFoundedInduction, TLAPS

-----------------------------------------------------------------------------
(* Cohorts.                                                                *)

Findings == [trace : Traces, analysis : Nat, text : Texts]
Jobs == [kind : {"assignment"}, of : Traces] \cup [kind : {"rebuild"}, of : Projects \cup {All}]
ModelRows ==
  [id : [Texts -> Nat], assigned : SUBSET Findings, baseline : Nat, grown : Nat]

Assignment(t) == [kind |-> "assignment", of |-> t]

(* Where the worker can be, and what it then has in its hands.             *)
AtWork ==
  \/ worker \in {Waiting, Top}
  \/ \E t \in Traces : worker = [at |-> "assigning", trace |-> t]
  \/ \E p \in Projects, f \in Findings :
       /\ worker = [at |-> "appending", project |-> p, finding |-> f]
       /\ ProjectOf[f.trace] = p /\ active[p] # Nothing
  \/ \E R \in SUBSET Projects : worker = [at |-> "rebuilding", rest |-> R]
  \/ \E R \in SUBSET Projects, p \in Projects :
       worker = [at |-> "settled", project |-> p, rest |-> R]
  \/ \E R \in SUBSET Projects, p \in Projects, F \in SUBSET Findings :
       /\ worker = [at |-> "fitting", project |-> p, rest |-> R, findings |-> F]
       /\ IsFiniteSet(F) /\ \A f \in F : ProjectOf[f.trace] = p

Typed ==
  /\ finding \in [Traces -> Findings \cup {Nothing}]
  /\ \A t \in Traces : finding[t] # Nothing => finding[t].trace = t
  /\ analysis \in [Traces -> {"open", "pending", "settled", "stranded"}]
  /\ committed \in Traces \cup {Nothing}
  /\ queue \in Seq(Jobs) /\ Len(queue) <= Capacity
  /\ dirty \in SUBSET Projects /\ changes \in Nat

(* The models s of a project of which a is active.                         *)
Sound(s, a) ==
  /\ s \in Seq(ModelRows) /\ Len(s) <= History
  /\ a # Nothing => \E k \in 1..Len(s) : s[k].id = a
  /\ \A j, k \in 1..Len(s) : s[j].id = s[k].id => j = k
  /\ \A k \in 1..Len(s) : /\ IsFiniteSet(s[k].assigned)
                          /\ Cardinality(s[k].assigned) = s[k].baseline + s[k].grown

ModelsAreSound ==
  /\ models = [p \in Projects |-> models[p]] /\ active = [p \in Projects |-> active[p]]
  /\ \A p \in Projects : Sound(models[p], active[p])

(* The active model a of s has the finding f.                              *)
Holds(s, a, f) == \E k \in 1..Len(s) : s[k].id = a /\ f \in s[k].assigned

(* A queue has a request for a rebuild of p, for an assignment of t.       *)
Wants(q, p) == \E k \in 1..Len(q) : q[k].kind = "rebuild" /\ q[k].of \in {p, All}
Assigns(q, t) == \E k \in 1..Len(q) : q[k] = Assignment(t)

(* The worker has still to begin with the rebuild of p, has just begun.    *)
Remembered(p) == rebuildAll \/ p \in dirty \/ Wants(queue, p)
Begun(p) ==
  \/ worker.at \in {"rebuilding", "settled", "fitting"} /\ p \in worker.rest
  \/ worker.at = "settled" /\ worker.project = p

(* The assignment of t has still to begin, has begun.                      *)
Sent(t) == committed = t \/ Assigns(queue, t)
InHand(t) ==
  \/ worker.at = "assigning" /\ worker.trace = t
  \/ worker.at = "appending" /\ worker.finding = finding[t]
  \/ worker.at = "fitting" /\ finding[t] \in worker.findings

Held(t) ==
  /\ active[ProjectOf[t]] # Nothing
  /\ Holds(models[ProjectOf[t]], active[ProjectOf[t]], finding[t])

Found(t) ==
  \/ Held(t) \/ Sent(t) \/ InHand(t)
  \/ Remembered(ProjectOf[t]) \/ Begun(ProjectOf[t]) \/ t \in excused

Counts(t) == finding[t] # Nothing /\ ProjectOf[t] # Unassigned
AllFound == \A t \in Traces : Counts(t) => Found(t)

(* While a project is fitted, a finding that the fit has not read is still *)
(* to be sent, unless the fit left it out: whatever it replaces, it comes. *)
FitIsCurrent ==
  worker.at = "fitting" =>
    \A t \in Traces : Counts(t) /\ ProjectOf[t] = worker.project =>
      finding[t] \in worker.findings \/ Sent(t) \/ Remembered(ProjectOf[t]) \/ t \in excused

IInv == AtWork /\ Typed /\ ModelsAreSound /\ AllFound /\ FitIsCurrent

-----------------------------------------------------------------------------
(* The channel of the worker.                                              *)

LEMMA QueueGrows ==
  ASSUME NEW q \in Seq(Jobs), NEW j \in Jobs
  PROVE  /\ Append(q, j) \in Seq(Jobs) /\ Len(Append(q, j)) = Len(q) + 1
         /\ \A p : Wants(q, p) => Wants(Append(q, j), p)
         /\ \A t : Assigns(q, t) => Assigns(Append(q, j), t)
         /\ \A t : j = Assignment(t) => Assigns(Append(q, j), t)
<1> HIDE DEF Jobs
<1>1. /\ Append(q, j) \in Seq(Jobs) /\ Len(Append(q, j)) = Len(q) + 1 /\ Len(q) \in Nat
      /\ \A k \in 1..Len(q) : Append(q, j)[k] = q[k]
      /\ Append(q, j)[Len(q) + 1] = j
  OBVIOUS
<1> DEFINE r == Append(q, j)
<1> HIDE DEF r
<1>2. /\ Len(r) = Len(q) + 1 /\ \A k \in 1..Len(q) : r[k] = q[k]
      /\ r[Len(q) + 1] = j
  BY <1>1 DEF r
<1>3. /\ \A k \in 1..Len(q) : k \in 1..Len(r)
      /\ Len(q) + 1 \in 1..Len(r)
  BY <1>1, <1>2
<1>4. \A p : Wants(q, p) => Wants(r, p)
  BY <1>2, <1>3 DEF Wants
<1>5. \A t : Assigns(q, t) => Assigns(r, t)
  BY <1>2, <1>3 DEF Assigns
<1>6. \A t : j = Assignment(t) => Assigns(r, t)
  BY <1>2, <1>3 DEF Assigns
<1> QED  BY <1>1, <1>4, <1>5, <1>6 DEF r

LEMMA QueueShrinks ==
  ASSUME NEW q \in Seq(Jobs), q # <<>>
  PROVE  /\ Tail(q) \in Seq(Jobs) /\ Len(Tail(q)) = Len(q) - 1 /\ Head(q) \in Jobs
         /\ \A p : Wants(q, p) =>
              Wants(Tail(q), p) \/ (Head(q).kind = "rebuild" /\ Head(q).of \in {p, All})
         /\ \A t : Assigns(q, t) => Assigns(Tail(q), t) \/ Head(q) = Assignment(t)
<1> HIDE DEF Jobs
<1>1. /\ Tail(q) \in Seq(Jobs) /\ Len(Tail(q)) = Len(q) - 1 /\ Len(q) \in Nat \ {0}
      /\ Head(q) \in Jobs /\ Head(q) = q[1]
      /\ \A k \in 1..Len(q) - 1 : Tail(q)[k] = q[k + 1]
  OBVIOUS
<1> DEFINE r == Tail(q)
<1> HIDE DEF r
<1>2. Len(r) = Len(q) - 1 /\ \A k \in 1..Len(r) : r[k] = q[k + 1]
  BY <1>1 DEF r
<1>3. \A k \in 1..Len(q) : k = 1 \/ (k - 1 \in 1..Len(r) /\ r[k - 1] = q[k])
  <2> SUFFICES ASSUME NEW k \in 1..Len(q), k # 1
               PROVE  k - 1 \in 1..Len(r) /\ r[k - 1] = q[k]
    OBVIOUS
  <2>1. k - 1 \in 1..Len(r) /\ (k - 1) + 1 = k
    BY <1>1, <1>2
  <2> QED  BY <1>2, <2>1
<1>4. \A p : Wants(q, p) => Wants(r, p) \/ (q[1].kind = "rebuild" /\ q[1].of \in {p, All})
  BY <1>3 DEF Wants
<1>5. \A t : Assigns(q, t) => Assigns(r, t) \/ q[1] = Assignment(t)
  BY <1>3 DEF Assigns
<1> QED  BY <1>1, <1>4, <1>5 DEF r

(* A request is in the channel afterwards, or everything is to be rebuilt. *)
LEMMA SubmitKeeps ==
  ASSUME Typed, NEW job \in Jobs, Submit(job)
  PROVE  /\ queue' \in Seq(Jobs) /\ Len(queue') <= Capacity
         /\ \A p : Wants(queue, p) => Wants(queue', p)
         /\ \A t : Assigns(queue, t) => Assigns(queue', t)
         /\ rebuildAll => rebuildAll'
         /\ \A t : job = Assignment(t) => Assigns(queue', t) \/ rebuildAll'
<1>1. queue \in Seq(Jobs) /\ Len(queue) \in Nat /\ Len(queue) <= Capacity /\ Capacity \in Nat
  BY CohortAssumption DEF Typed
<1>2. CASE Len(queue) < Capacity
  <2>1. queue' = Append(queue, job) /\ rebuildAll' = rebuildAll
    BY <1>2 DEF Submit
  <2>2. Len(queue) + 1 <= Capacity
    BY <1>1, <1>2
  <2> QED  BY <1>1, <2>1, <2>2, QueueGrows
<1>3. CASE ~(Len(queue) < Capacity)
  <2>1. queue' = queue /\ rebuildAll' = TRUE
    BY <1>3 DEF Submit
  <2> QED  BY <1>1, <2>1
<1> QED  BY <1>2, <1>3

(* A project with an active finding becomes dirty, or all are excused.     *)
LEMMA DirtyAllFinds ==
  ASSUME Typed, DirtyAll
  PROVE  /\ dirty' \in SUBSET Projects
         /\ dirty \subseteq dirty'
         /\ \A t \in Traces : Counts(t) => ProjectOf[t] \in dirty' \/ t \in excused'
         /\ excused' = excused \/ excused' = Traces
<1>1. dirty \in SUBSET Projects
  BY DEF Typed
<1>2. \A t \in Traces : ProjectOf[t] \in Projects \cup {Unassigned}
  BY CohortAssumption
<1>3. CASE dirty' = dirty \cup ActiveFindingProjects /\ UNCHANGED <<excused, failures>>
  <2>1. \A t \in Traces : Counts(t) => ProjectOf[t] \in ActiveFindingProjects
    <3> SUFFICES ASSUME NEW t \in Traces, Counts(t) PROVE ProjectOf[t] \in ActiveFindingProjects
      OBVIOUS
    <3>1. finding[t] \in FindingsOf(ProjectOf[t])
      BY DEF Counts, FindingsOf
    <3> QED  BY <1>2, <3>1 DEF Counts, ActiveFindingProjects
  <2> QED  BY <1>1, <1>3, <2>1 DEF ActiveFindingProjects
<1>4. CASE excused' = Traces /\ dirty' = dirty
  BY <1>1, <1>2, <1>4 DEF Counts
<1> QED  BY <1>3, <1>4 DEF DirtyAll

-----------------------------------------------------------------------------
(* The steps that change neither models nor active ones.                   *)

LEMMA ModelsStay ==
  ASSUME ModelsAreSound, models' = models, active' = active
  PROVE  /\ ModelsAreSound'
         /\ \A t \in Traces : finding'[t] = finding[t] /\ Held(t) => Held(t)'
BY DEF ModelsAreSound, Held

LEMMA QueueIdle ==
  ASSUME worker \in {Waiting, Top}
  PROVE  /\ \A t : ~InHand(t)
         /\ \A p : ~Begun(p)
         /\ worker.at # "fitting"
BY DEF Waiting, Top, InHand, Begun

(* Analyses and requests: the worker stays where it is, nothing that was   *)
(* asked of it gets lost, and what is new is on its way.                   *)
LEMMA InputKeeps ==
  ASSUME IInv, UNCHANGED <<cohortStore, worker, dirty>>,
         \A t \in Traces : t \in excused => t \in excused' \/ Sent(t)',
         \A p : Wants(queue, p) => Wants(queue', p),
         rebuildAll => rebuildAll',
         \A t \in Traces : finding'[t] = finding[t] \/ Sent(t)',
         \A t \in Traces : Sent(t) => Sent(t)' \/ rebuildAll'
  PROVE  AtWork' /\ ModelsAreSound' /\ AllFound' /\ FitIsCurrent'
<1>1. /\ AtWork /\ ModelsAreSound /\ AllFound /\ FitIsCurrent
      /\ models' = models /\ active' = active /\ worker' = worker /\ dirty' = dirty
      /\ \A t \in Traces : t \in excused => t \in excused' \/ Sent(t)'
  BY DEF IInv, cohortStore
<1>2. AtWork'
  BY <1>1 DEF AtWork
<1>3. \A p : Remembered(p) => Remembered(p)'
  BY <1>1 DEF Remembered
<1>4. \A t \in Traces : Sent(t) => Sent(t)' \/ Remembered(ProjectOf[t])'
  BY DEF Remembered
<1>5. ASSUME NEW t \in Traces, Counts(t)' PROVE Found(t)'
  <2>1. CASE Sent(t)'
    BY <2>1 DEF Found
  <2>2. CASE ~Sent(t)' /\ finding'[t] = finding[t]
    <3>1. Found(t)
      BY <1>1, <1>5, <2>2 DEF AllFound, Counts
    <3>2. CASE Held(t)
      BY <1>1, <2>2, <3>2, ModelsStay DEF Found
    <3>3. CASE Sent(t)
      BY <1>4, <3>3 DEF Found
    <3>4. CASE InHand(t)
      BY <1>1, <2>2, <3>4 DEF Found, InHand
    <3>5. CASE Remembered(ProjectOf[t])
      BY <1>3, <3>5 DEF Found
    <3>6. CASE Begun(ProjectOf[t])
      BY <1>1, <3>6 DEF Found, Begun
    <3>7. CASE t \in excused
      BY <1>1, <3>7 DEF Found
    <3> QED  BY <3>1, <3>2, <3>3, <3>4, <3>5, <3>6, <3>7 DEF Found
  <2> QED  BY <2>1, <2>2
<1>6. ASSUME worker'.at = "fitting", NEW t \in Traces, Counts(t)', ProjectOf[t] = worker'.project
      PROVE  \/ finding'[t] \in worker'.findings \/ Sent(t)' \/ Remembered(ProjectOf[t])'
             \/ t \in excused'
  <2>1. CASE ~Sent(t)' /\ finding'[t] = finding[t]
    <3>1. Counts(t)
      BY <1>6, <2>1 DEF Counts
    <3>2. finding[t] \in worker.findings \/ Sent(t) \/ Remembered(ProjectOf[t]) \/ t \in excused
      BY <1>1, <1>6, <3>1 DEF FitIsCurrent
    <3> QED  BY <1>1, <1>3, <1>4, <1>6, <2>1, <3>2
  <2> QED  BY <2>1
<1>7. AllFound'
  BY <1>5 DEF AllFound
<1>8. FitIsCurrent'
  BY <1>6 DEF FitIsCurrent
<1> QED  BY <1>1, <1>2, <1>7, <1>8, ModelsStay

(* The worker goes on, and keeps what it was asked for.                    *)
LEMMA WorkerKeeps ==
  ASSUME IInv, UNCHANGED <<finding, cohortStore>>, worker'.at # "fitting",
         \A t \in Traces :
           /\ Counts(t)
           /\ \/ Sent(t) \/ InHand(t)
              \/ Remembered(ProjectOf[t]) \/ Begun(ProjectOf[t]) \/ t \in excused
           => Found(t)'
  PROVE  ModelsAreSound' /\ AllFound' /\ FitIsCurrent'
<1>1. /\ ModelsAreSound /\ AllFound
      /\ models' = models /\ active' = active /\ finding' = finding
  BY DEF IInv, cohortStore
<1>2. ASSUME NEW t \in Traces, Counts(t)' PROVE Found(t)'
  <2>1. Counts(t) /\ Found(t)
    BY <1>1, <1>2 DEF AllFound, Counts
  <2>2. CASE Held(t)
    BY <1>1, <2>2, ModelsStay DEF Found
  <2> QED  BY <2>1, <2>2 DEF Found
<1>3. AllFound'
  BY <1>2 DEF AllFound
<1> QED  BY <1>1, <1>3, ModelsStay DEF FitIsCurrent

LEMMA AnalysesKept ==
  ASSUME IInv, NEW t \in Traces,
         \/ TraceGoesOn(t) \/ TraceFinalized(t) \/ AnalysisCommitted(t)
         \/ AnalysisFailed(t) \/ AnalysisStrands(t)
  PROVE  IInv'
<1>1. Typed /\ Nothing \notin Traces
  BY CohortAssumption DEF IInv
<1>2. UNCHANGED <<cohortStore, worker, dirty, queue, rebuildAll>>
  BY DEF TraceGoesOn, TraceFinalized, AnalysisCommitted, AnalysisFailed, AnalysisStrands
<1>3. Typed'
  <2>1. CASE \/ TraceGoesOn(t) \/ TraceFinalized(t) \/ AnalysisFailed(t) \/ AnalysisStrands(t)
    BY <1>1, <2>1 DEF TraceGoesOn, TraceFinalized, AnalysisFailed, AnalysisStrands, Typed
  <2>2. CASE AnalysisCommitted(t)
    <3>1. PICK x \in Texts \cup {Nothing} : finding' = [finding EXCEPT ![t] =
            IF x = Nothing THEN Nothing ELSE [trace |-> t, analysis |-> changes, text |-> x]]
      BY <2>2 DEF AnalysisCommitted
    <3>2. x # Nothing => [trace |-> t, analysis |-> changes, text |-> x] \in Findings
      BY <1>1, <3>1 DEF Findings, Typed
    <3>3. /\ finding' \in [Traces -> Findings \cup {Nothing}]
          /\ \A u \in Traces : finding'[u] # Nothing => finding'[u].trace = u
      BY <1>1, <3>1, <3>2 DEF Typed
    <3> QED  BY <1>1, <1>2, <2>2, <3>3 DEF AnalysisCommitted, Typed
  <2> QED  BY <2>1, <2>2
<1>4. \A u \in Traces : finding'[u] = finding[u] \/ Sent(u)'
  <2>1. CASE AnalysisCommitted(t)
    <3>1. PICK e : finding' = [finding EXCEPT ![t] = e]
      BY <2>1 DEF AnalysisCommitted
    <3>2. committed' = t
      BY <2>1 DEF AnalysisCommitted
    <3> QED  BY <1>1, <3>1, <3>2 DEF Sent, Typed
  <2> QED  BY <2>1 DEF TraceGoesOn, TraceFinalized, AnalysisFailed, AnalysisStrands
<1>5. \A u \in Traces : Sent(u) => Sent(u)'
  <2>1. committed' = committed \/ committed = Nothing
    BY DEF TraceGoesOn, TraceFinalized, AnalysisCommitted, AnalysisFailed, AnalysisStrands
  <2> QED  BY <1>1, <1>2, <2>1 DEF Sent
<1>6. (\A p : Wants(queue, p) => Wants(queue', p)) /\ (rebuildAll => rebuildAll')
  BY <1>2
<1>7. \A u \in Traces : u \in excused => u \in excused' \/ Sent(u)'
  <2>1. CASE AnalysisCommitted(t)
    BY <2>1 DEF AnalysisCommitted, Sent
  <2> QED  BY <2>1 DEF TraceGoesOn, TraceFinalized, AnalysisFailed, AnalysisStrands
<1> HIDE DEF Typed
<1>8. AtWork' /\ ModelsAreSound' /\ AllFound' /\ FitIsCurrent'
  BY <1>2, <1>4, <1>5, <1>6, <1>7, InputKeeps
<1> QED  BY <1>3, <1>8 DEF IInv

LEMMA RequestsKept ==
  ASSUME IInv, AssignTrace \/ \E p \in Projects \cup {All} : RequestRebuild(p)
  PROVE  IInv'
<1>1. Typed
  BY DEF IInv
<1>2. PICK job \in Jobs :
        /\ Submit(job)
        /\ \/ committed' = committed
           \/ /\ committed' = Nothing /\ committed \in Traces
              /\ job = Assignment(committed)
  <2>1. CASE AssignTrace
    <3>1. committed \in Traces /\ Assignment(committed) \in Jobs
      BY <1>1, <2>1 DEF AssignTrace, Typed, Jobs, Assignment
    <3> QED  BY <2>1, <3>1 DEF AssignTrace, Assignment
  <2>2. ASSUME NEW p \in Projects \cup {All}, RequestRebuild(p)
        PROVE  /\ [kind |-> "rebuild", of |-> p] \in Jobs
               /\ Submit([kind |-> "rebuild", of |-> p]) /\ committed' = committed
    BY <2>2 DEF RequestRebuild, Jobs, cohortInput
  <2> QED  BY <2>1, <2>2
<1>3. /\ UNCHANGED <<cohortStore, worker, dirty, excused, finding, analysis>>
      /\ changes' \in Nat
  <2>1. /\ UNCHANGED <<cohortStore, worker, dirty, excused, finding, analysis>>
        /\ changes' = changes \/ changes' = changes + 1
    BY DEF AssignTrace, RequestRebuild, cohortInput
  <2> QED  BY <1>1, <2>1 DEF Typed
<1>4. /\ queue' \in Seq(Jobs) /\ Len(queue') <= Capacity
      /\ \A p : Wants(queue, p) => Wants(queue', p)
      /\ \A t : Assigns(queue, t) => Assigns(queue', t)
      /\ rebuildAll => rebuildAll'
      /\ \A t : job = Assignment(t) => Assigns(queue', t) \/ rebuildAll'
  BY <1>1, <1>2, SubmitKeeps
<1>5. Typed'
  BY <1>1, <1>2, <1>3, <1>4 DEF Typed
<1>6. \A t \in Traces : Sent(t) => Sent(t)' \/ rebuildAll'
  BY <1>2, <1>4 DEF Sent
<1>7. AtWork' /\ ModelsAreSound' /\ AllFound' /\ FitIsCurrent'
  BY <1>3, <1>4, <1>6, InputKeeps
<1> QED  BY <1>5, <1>7 DEF IInv

LEMMA AtRest ==
  ASSUME worker' \in {Waiting, Top}
  PROVE  AtWork' /\ worker'.at # "fitting"
BY DEF AtWork, Waiting, Top

LEMMA TakeRebuildAllKept == ASSUME IInv, TakeRebuildAll PROVE IInv'
<1>1. /\ Typed /\ worker = Top /\ worker' = Waiting
      /\ UNCHANGED <<finding, cohortStore, committed, analysis, queue, changes>>
  BY DEF IInv, TakeRebuildAll, cohortInput
<1>2. /\ dirty' \in SUBSET Projects /\ dirty \subseteq dirty'
      /\ excused' = excused \/ excused' = Traces
  BY <1>1, DirtyAllFinds DEF TakeRebuildAll, Typed
<1>3. \A t \in Traces : Counts(t) /\ rebuildAll => ProjectOf[t] \in dirty' \/ t \in excused'
  BY <1>1, DirtyAllFinds DEF TakeRebuildAll
<1>4. \A t \in Traces : Counts(t) => ProjectOf[t] \in Projects
  BY CohortAssumption DEF Counts
<1>5. ASSUME NEW t \in Traces, Counts(t),
             \/ Sent(t) \/ InHand(t)
             \/ Remembered(ProjectOf[t]) \/ Begun(ProjectOf[t]) \/ t \in excused
      PROVE  Found(t)'
  <2>1. ~InHand(t) /\ ~Begun(ProjectOf[t])
    BY <1>1, QueueIdle
  <2>2. CASE Sent(t)
    BY <1>1, <2>2 DEF Found, Sent
  <2>3. CASE Remembered(ProjectOf[t])
    BY <1>1, <1>2, <1>3, <1>5, <2>3 DEF Remembered, Found
  <2>4. CASE t \in excused
    BY <1>2, <1>4, <1>5, <2>4 DEF Found
  <2> QED  BY <1>5, <2>1, <2>2, <2>3, <2>4
<1>6. Typed'
  BY <1>1, <1>2 DEF Typed
<1>7. AtWork' /\ worker'.at # "fitting"
  BY <1>1, AtRest
<1>8. ModelsAreSound' /\ AllFound' /\ FitIsCurrent'
  BY <1>1, <1>5, <1>7, WorkerKeeps
<1> QED  BY <1>6, <1>7, <1>8 DEF IInv

LEMMA ReceiveRebuildKept == ASSUME IInv, ReceiveRebuild PROVE IInv'
<1>1. /\ Typed /\ worker = Waiting /\ worker' = Top /\ queue' = Tail(queue)
      /\ UNCHANGED <<finding, cohortStore, committed, analysis, rebuildAll, changes>>
      /\ queue \in Seq(Jobs) /\ queue # <<>> /\ Head(queue).kind = "rebuild"
      /\ Len(queue) <= Capacity /\ dirty \in SUBSET Projects
  BY DEF IInv, ReceiveRebuild, cohortInput, Typed
<1>2. /\ Tail(queue) \in Seq(Jobs) /\ Len(Tail(queue)) = Len(queue) - 1 /\ Head(queue) \in Jobs
      /\ \A p : Wants(queue, p) => Wants(Tail(queue), p) \/ Head(queue).of \in {p, All}
      /\ \A t : Assigns(queue, t) => Assigns(Tail(queue), t) \/ Head(queue) = Assignment(t)
  BY <1>1, QueueShrinks
<1>3. \A t : Head(queue) # Assignment(t)
  BY <1>1 DEF Assignment
<1>4. Head(queue).of \in Projects \cup {All}
  BY <1>1, <1>2 DEF Jobs
<1>5. /\ dirty' \in SUBSET Projects /\ dirty \subseteq dirty'
      /\ excused' = excused \/ excused' = Traces
  <2>1. CASE Head(queue).of = All
    BY <1>1, <2>1, DirtyAllFinds DEF ReceiveRebuild
  <2>2. CASE Head(queue).of # All
    BY <1>1, <1>4, <2>2 DEF ReceiveRebuild
  <2> QED  BY <2>1, <2>2
<1>6. \A t \in Traces : Counts(t) /\ Head(queue).of \in {ProjectOf[t], All} =>
        ProjectOf[t] \in dirty' \/ t \in excused'
  <2>1. CASE Head(queue).of = All
    BY <1>1, <2>1, DirtyAllFinds DEF ReceiveRebuild
  <2>2. CASE Head(queue).of # All
    BY <2>2 DEF ReceiveRebuild
  <2> QED  BY <2>1, <2>2
<1>7. \A t \in Traces : Counts(t) => ProjectOf[t] \in Projects
  BY CohortAssumption DEF Counts
<1>8. ASSUME NEW t \in Traces, Counts(t),
             \/ Sent(t) \/ InHand(t)
             \/ Remembered(ProjectOf[t]) \/ Begun(ProjectOf[t]) \/ t \in excused
      PROVE  Found(t)'
  <2>1. ~InHand(t) /\ ~Begun(ProjectOf[t])
    BY <1>1, QueueIdle
  <2>2. CASE Sent(t)
    BY <1>1, <1>2, <1>3, <2>2 DEF Found, Sent
  <2>3. CASE Remembered(ProjectOf[t])
    BY <1>1, <1>2, <1>5, <1>6, <1>8, <2>3 DEF Remembered, Found
  <2>4. CASE t \in excused
    BY <1>5, <1>7, <1>8, <2>4 DEF Found
  <2> QED  BY <1>8, <2>1, <2>2, <2>3, <2>4
<1>9. Typed'
  <2>1. Len(Tail(queue)) <= Capacity
    BY <1>1, <1>2, CohortAssumption
  <2> QED  BY <1>1, <1>2, <1>5, <2>1 DEF Typed
<1>10. AtWork' /\ worker'.at # "fitting"
  BY <1>1, AtRest
<1>11. ModelsAreSound' /\ AllFound' /\ FitIsCurrent'
  BY <1>1, <1>8, <1>10, WorkerKeeps
<1> QED  BY <1>9, <1>10, <1>11 DEF IInv

LEMMA ReceiveAssignmentKept == ASSUME IInv, ReceiveAssignment PROVE IInv'
<1>1. /\ Typed /\ worker = Waiting /\ queue' = Tail(queue)
      /\ worker' = [at |-> "assigning", trace |-> Head(queue).of]
      /\ UNCHANGED <<finding, cohortStore, committed, analysis, rebuildAll, dirty, excused, changes>>
      /\ queue \in Seq(Jobs) /\ queue # <<>> /\ Head(queue).kind = "assignment"
      /\ Len(queue) <= Capacity
  BY DEF IInv, ReceiveAssignment, cohortInput, Typed
<1>2. /\ Tail(queue) \in Seq(Jobs) /\ Len(Tail(queue)) = Len(queue) - 1 /\ Head(queue) \in Jobs
      /\ \A p : Wants(queue, p) => Wants(Tail(queue), p)
      /\ \A t : Assigns(queue, t) => Assigns(Tail(queue), t) \/ Head(queue) = Assignment(t)
  BY <1>1, QueueShrinks
<1>3. Head(queue).of \in Traces /\ \A t : Head(queue) = Assignment(t) => Head(queue).of = t
  BY <1>1, <1>2 DEF Jobs, Assignment
<1>4. \A t \in Traces : Head(queue).of = t => InHand(t)'
  BY <1>1 DEF InHand
<1>5. ASSUME NEW t \in Traces, Counts(t),
             \/ Sent(t) \/ InHand(t)
             \/ Remembered(ProjectOf[t]) \/ Begun(ProjectOf[t]) \/ t \in excused
      PROVE  Found(t)'
  <2>1. ~InHand(t) /\ ~Begun(ProjectOf[t])
    BY <1>1, QueueIdle
  <2>2. CASE Sent(t)
    BY <1>1, <1>2, <1>3, <1>4, <2>2 DEF Found, Sent
  <2>3. CASE Remembered(ProjectOf[t])
    BY <1>1, <1>2, <2>3 DEF Remembered, Found
  <2>4. CASE t \in excused
    BY <1>1, <2>4 DEF Found
  <2> QED  BY <1>5, <2>1, <2>2, <2>3, <2>4
<1>6. Typed'
  <2>1. Len(Tail(queue)) <= Capacity
    BY <1>1, <1>2, CohortAssumption
  <2> QED  BY <1>1, <1>2, <2>1 DEF Typed
<1>7. AtWork' /\ worker'.at # "fitting"
  BY <1>1, <1>3 DEF AtWork
<1>8. ModelsAreSound' /\ AllFound' /\ FitIsCurrent'
  BY <1>1, <1>5, <1>7, WorkerKeeps
<1> QED  BY <1>6, <1>7, <1>8 DEF IInv

LEMMA ReadFindingsKept == ASSUME IInv, ReadFindings PROVE IInv'
<1>1. /\ Typed /\ AtWork /\ worker.at = "assigning"
      /\ UNCHANGED <<finding, cohortStore, committed, analysis, queue, rebuildAll, excused, changes>>
  BY DEF IInv, ReadFindings, cohortInput
<1>2. PICK u \in Traces : worker = [at |-> "assigning", trace |-> u]
  BY <1>1 DEF AtWork, Waiting, Top
<1>3. /\ worker.trace = u /\ ProjectOf[u] \in Projects \cup {Unassigned} /\ Unassigned \notin Projects
      /\ finding[u] \in Findings \cup {Nothing}
      /\ finding[u] # Nothing => finding[u].trace = u
  BY <1>1, <1>2, CohortAssumption DEF Typed
<1>4. /\ dirty' \in SUBSET Projects /\ dirty \subseteq dirty'
      /\ AtWork' /\ worker'.at # "fitting"
      /\ Counts(u) => InHand(u)' \/ Remembered(ProjectOf[u])'
  <2> DEFINE p == ProjectOf[u]
             f == finding[u]
  <2>1. CASE p = Unassigned \/ f = Nothing \/ active[p] = Nothing
    <3>1. worker' = Top /\ dirty' = IF p = Unassigned THEN dirty ELSE dirty \cup {p}
      BY <1>3, <2>1 DEF ReadFindings
    <3>2. dirty' \in SUBSET Projects /\ dirty \subseteq dirty' /\ (p # Unassigned => p \in dirty')
      BY <1>1, <1>3, <3>1 DEF Typed
    <3> QED  BY <3>1, <3>2, AtRest DEF Counts, Remembered
  <2>2. CASE p # Unassigned /\ f # Nothing /\ active[p] # Nothing
    <3>1. worker' = [at |-> "appending", project |-> p, finding |-> f] /\ dirty' = dirty
      BY <1>3, <2>2 DEF ReadFindings
    <3>2. p \in Projects /\ f \in Findings /\ ProjectOf[f.trace] = p /\ active'[p] # Nothing
      BY <1>1, <1>3, <2>2 DEF cohortStore
    <3>3. AtWork'
      BY <3>1, <3>2 DEF AtWork
    <3> QED  BY <1>1, <3>1, <3>3 DEF InHand, Typed
  <2> QED  BY <2>1, <2>2
<1>5. ASSUME NEW t \in Traces, Counts(t),
             \/ Sent(t) \/ InHand(t)
             \/ Remembered(ProjectOf[t]) \/ Begun(ProjectOf[t]) \/ t \in excused
      PROVE  Found(t)'
  <2>1. ~Begun(ProjectOf[t]) /\ (InHand(t) => t = u)
    BY <1>2 DEF Begun, InHand
  <2>2. CASE Sent(t)
    BY <1>1, <2>2 DEF Found, Sent
  <2>3. CASE InHand(t)
    BY <1>4, <1>5, <2>1, <2>3 DEF Found
  <2>4. CASE Remembered(ProjectOf[t])
    BY <1>1, <1>4, <2>4 DEF Remembered, Found
  <2>5. CASE t \in excused
    BY <1>1, <2>5 DEF Found
  <2> QED  BY <1>5, <2>1, <2>2, <2>3, <2>4, <2>5
<1>6. Typed'
  BY <1>1, <1>4 DEF Typed
<1>7. ModelsAreSound' /\ AllFound' /\ FitIsCurrent'
  BY <1>1, <1>4, <1>5, WorkerKeeps
<1> QED  BY <1>4, <1>6, <1>7 DEF IInv

LEMMA AssignmentFailsKept == ASSUME IInv, AssignmentFails PROVE IInv'
<1>1. /\ Typed /\ rebuildAll' = TRUE /\ worker' = Top
      /\ UNCHANGED <<finding, cohortStore, committed, analysis, queue, dirty, changes>>
  BY DEF IInv, AssignmentFails, cohortInput
<1>2. Typed'
  BY <1>1 DEF Typed
<1>3. AtWork' /\ worker'.at # "fitting"
  BY <1>1, AtRest
<1>4. \A t \in Traces : Found(t)'
  BY <1>1 DEF Found, Remembered
<1>5. ModelsAreSound' /\ AllFound' /\ FitIsCurrent'
  BY <1>1, <1>3, <1>4, WorkerKeeps
<1> QED  BY <1>2, <1>3, <1>5 DEF IInv

(* A process that starts again has a request for everything.               *)
LEMMA CohortRestartKept == ASSUME IInv, CohortRestart PROVE IInv'
<1> DEFINE all == [kind |-> "rebuild", of |-> All]
<1>1. /\ Typed /\ queue' = <<all>> /\ worker' = Top /\ committed' = Nothing /\ dirty' = {}
      /\ UNCHANGED <<finding, cohortStore, analysis, changes>>
  BY DEF IInv, CohortRestart
<1>2. all \in Jobs
  BY DEF Jobs
<1>3. <<all>> \in Seq(Jobs) /\ Len(<<all>>) = 1 /\ <<all>>[1] = all
  BY <1>2
<1>4. 1 <= Capacity
  BY CohortAssumption
<1>5. Typed'
  BY <1>1, <1>3, <1>4 DEF Typed
<1>6. AtWork' /\ worker'.at # "fitting"
  BY <1>1, AtRest
<1>7. \A p : Wants(queue', p)
  BY <1>1, <1>3 DEF Wants
<1>8. \A t \in Traces : Found(t)'
  BY <1>7 DEF Found, Remembered
<1>9. ModelsAreSound' /\ AllFound' /\ FitIsCurrent'
  BY <1>1, <1>6, <1>8, WorkerKeeps
<1> QED  BY <1>5, <1>6, <1>9 DEF IInv

(* Steps that only move a project between what is dirty and what the       *)
(* worker has begun.                                                       *)
LEMMA MovesKeep ==
  ASSUME IInv, UNCHANGED <<cohortInput, cohortStore, queue, rebuildAll, changes>>,
         \A t \in Traces : Counts(t) /\ InHand(t) => Remembered(ProjectOf[t])',
         \A p : Begun(p) \/ p \in dirty => p \in dirty' \/ Begun(p)',
         excused \subseteq excused', dirty' \in SUBSET Projects,
         AtWork', worker'.at # "fitting"
  PROVE  IInv'
<1>1. /\ Typed
      /\ UNCHANGED <<finding, committed, analysis, cohortStore, queue, rebuildAll, changes>>
  BY DEF IInv, cohortInput
<1>2. Typed'
  BY <1>1 DEF Typed
<1>3. ASSUME NEW t \in Traces, Counts(t),
             \/ Sent(t) \/ InHand(t)
             \/ Remembered(ProjectOf[t]) \/ Begun(ProjectOf[t]) \/ t \in excused
      PROVE  Found(t)'
  <2>1. CASE Sent(t)
    BY <1>1, <2>1 DEF Found, Sent
  <2>2. CASE InHand(t)
    BY <1>3, <2>2 DEF Found
  <2>3. CASE rebuildAll \/ Wants(queue, ProjectOf[t])
    BY <1>1, <2>3 DEF Remembered, Found
  <2>4. CASE Begun(ProjectOf[t]) \/ ProjectOf[t] \in dirty
    BY <2>4 DEF Remembered, Found
  <2>5. CASE t \in excused
    BY <2>5 DEF Found
  <2> QED  BY <1>3, <2>1, <2>2, <2>3, <2>4, <2>5 DEF Remembered
<1>4. ModelsAreSound' /\ AllFound' /\ FitIsCurrent'
  BY <1>1, <1>3, WorkerKeeps
<1> QED  BY <1>2, <1>4 DEF IInv

LEMMA RebuildStepsKept ==
  ASSUME IInv, TimeoutIdle \/ StartRebuild \/ CheckSettled \/ RebuildFails \/ RebuildEnds
  PROVE  IInv'
<1>1. /\ AtWork /\ Typed /\ dirty \in SUBSET Projects
      /\ UNCHANGED <<cohortInput, cohortStore, queue, rebuildAll, changes>>
      /\ excused' = excused
  BY DEF IInv, Typed, TimeoutIdle, StartRebuild, CheckSettled, RebuildFails, RebuildEnds
<1>2. CASE TimeoutIdle
  <2>1. worker = Waiting /\ worker' = Top /\ dirty' = dirty
    BY <1>2 DEF TimeoutIdle
  <2> QED  BY <1>1, <2>1, AtRest, QueueIdle, MovesKeep
<1>3. CASE StartRebuild
  <2>1. worker = Waiting /\ worker' = [at |-> "rebuilding", rest |-> dirty] /\ dirty' = {}
    BY <1>3 DEF StartRebuild
  <2>2. AtWork' /\ worker'.at # "fitting"
    BY <1>1, <2>1 DEF AtWork
  <2>3. \A p \in dirty : Begun(p)'
    BY <2>1 DEF Begun
  <2> QED  BY <1>1, <2>1, <2>2, <2>3, QueueIdle, MovesKeep
<1>4. CASE CheckSettled
  <2>1. PICK R \in SUBSET Projects : worker = [at |-> "rebuilding", rest |-> R]
    BY <1>1, <1>4 DEF CheckSettled, AtWork, Waiting, Top
  <2>2. PICK p \in R :
          \/ worker' = [at |-> "settled", project |-> p, rest |-> R \ {p}] /\ dirty' = dirty
          \/ worker' = [at |-> "rebuilding", rest |-> R \ {p}] /\ dirty' = dirty \cup {p}
    BY <1>4, <2>1 DEF CheckSettled
  <2>3. AtWork' /\ worker'.at # "fitting"
    BY <2>1, <2>2 DEF AtWork
  <2>4. \A q : Begun(q) => q \in R
    BY <2>1 DEF Begun
  <2>5. \A q \in R : q \in dirty' \/ Begun(q)'
    BY <2>2 DEF Begun
  <2>6. \A t : ~InHand(t)
    BY <2>1 DEF InHand
  <2>7. dirty' \in SUBSET Projects /\ dirty \subseteq dirty'
    BY <1>1, <2>1, <2>2
  <2> QED  BY <1>1, <2>3, <2>4, <2>5, <2>6, <2>7, MovesKeep
<1>5. CASE RebuildFails
  <2>1. PICK R \in SUBSET Projects, p \in Projects :
          /\ worker.at \in {"settled", "fitting"}
          /\ worker.rest = R /\ worker.project = p
          /\ worker.at = "fitting" => \A f \in worker.findings : ProjectOf[f.trace] = p
    BY <1>1, <1>5 DEF RebuildFails, AtWork, Waiting, Top
  <2>2. worker' = [at |-> "rebuilding", rest |-> R] /\ dirty' = dirty \cup {p}
    BY <1>5, <2>1 DEF RebuildFails
  <2>3. AtWork' /\ worker'.at # "fitting"
    BY <2>1, <2>2 DEF AtWork
  <2>4. \A q : Begun(q) => q \in dirty' \/ Begun(q)'
    BY <2>1, <2>2 DEF Begun
  <2>5. \A t \in Traces : Counts(t) /\ InHand(t) => Remembered(ProjectOf[t])'
    BY <1>1, <2>1, <2>2 DEF InHand, Remembered, Typed, Counts
  <2>6. dirty' \in SUBSET Projects /\ dirty \subseteq dirty'
    BY <1>1, <2>1, <2>2
  <2> QED  BY <1>1, <2>3, <2>4, <2>5, <2>6, MovesKeep
<1>6. CASE RebuildEnds
  <2>1. PICK R \in SUBSET Projects : worker = [at |-> "rebuilding", rest |-> R]
    BY <1>1, <1>6 DEF RebuildEnds, AtWork, Waiting, Top
  <2>2. worker' = Top /\ R = {} /\ dirty' = dirty
    BY <1>6, <2>1 DEF RebuildEnds
  <2>3. \A q : ~Begun(q)
    BY <2>1, <2>2 DEF Begun
  <2>4. \A t : ~InHand(t)
    BY <2>1 DEF InHand
  <2> QED  BY <1>1, <2>2, <2>3, <2>4, AtRest, MovesKeep
<1> QED  BY <1>2, <1>3, <1>4, <1>5, <1>6

-----------------------------------------------------------------------------
(* The models of a project.                                                *)

(* The active model is one place of the sequence.                          *)
LEMMA ActiveModel ==
  ASSUME ModelsAreSound, NEW p \in Projects, active[p] # Nothing
  PROVE  \E i \in 1..Len(models[p]) :
           /\ models[p][i].id = active[p] /\ Model(p) = models[p][i]
           /\ (CHOOSE k \in DOMAIN models[p] : models[p][k].id = active[p]) = i
<1> DEFINE s == models[p]
           a == active[p]
<1>1. /\ s \in Seq(ModelRows) /\ DOMAIN s = 1..Len(s)
      /\ \E k \in 1..Len(s) : s[k].id = a
      /\ \A j, k \in 1..Len(s) : s[j].id = s[k].id => j = k
  BY DEF ModelsAreSound, Sound
<1>2. Model(p) = CHOOSE m \in Range(s) : m.id = a
  BY DEF Model
<1> HIDE DEF s, a
<1>3. PICK i \in 1..Len(s) : s[i].id = a
  BY <1>1
<1>4. \A k \in DOMAIN s : s[k].id = a <=> k = i
  BY <1>1, <1>3
<1>5. (CHOOSE k \in DOMAIN s : s[k].id = a) = i
  BY <1>1, <1>3, <1>4
<1>6. /\ s[i] \in Range(s)
      /\ \A m \in Range(s) : m.id = a <=> m = s[i]
  BY <1>1, <1>3, <1>4 DEF Range
<1>7. Model(p) = s[i]
  BY <1>2, <1>3, <1>6
<1> QED  BY <1>3, <1>5, <1>7 DEF s, a

(* A model gets another finding.                                           *)
Grown(s, i, f) ==
  [s EXCEPT ![i] = [s[i] EXCEPT
     !.assigned = @ \cup {f},
     !.grown = IF f \notin s[i].assigned THEN s[i].grown + 1 ELSE s[i].grown]]

LEMMA SoundGrows ==
  ASSUME NEW s, NEW a, Sound(s, a), NEW i \in 1..Len(s), s[i].id = a, NEW f \in Findings
  PROVE  /\ Sound(Grown(s, i, f), a) /\ Holds(Grown(s, i, f), a, f)
         /\ \A h : Holds(s, a, h) => Holds(Grown(s, i, f), a, h)
<1> DEFINE g == IF f \notin s[i].assigned THEN s[i].grown + 1 ELSE s[i].grown
           row == [s[i] EXCEPT !.assigned = @ \cup {f}, !.grown = g]
           u == Grown(s, i, f)
<1>0. u = [s EXCEPT ![i] = row]
  BY DEF Grown
<1> HIDE DEF u
<1>1. /\ s \in Seq(ModelRows) /\ Len(s) <= History /\ s[i] \in ModelRows
      /\ \A j, k \in 1..Len(s) : s[j].id = s[k].id => j = k
      /\ \A k \in 1..Len(s) : /\ IsFiniteSet(s[k].assigned)
                              /\ Cardinality(s[k].assigned) = s[k].baseline + s[k].grown
  BY DEF Sound
<1>2. /\ row.id = s[i].id /\ row.assigned = s[i].assigned \cup {f}
      /\ row.baseline = s[i].baseline /\ row.grown = g
      /\ s[i].assigned \in SUBSET Findings
      /\ s[i].grown \in Nat /\ s[i].baseline \in Nat /\ g \in Nat
  BY <1>1 DEF ModelRows
<1>3. row \in ModelRows
  <2>1. s[i].assigned \cup {f} \in SUBSET Findings
    BY <1>2
  <2> QED  BY <1>1, <1>2, <2>1 DEF ModelRows
<1>4. /\ u \in Seq(ModelRows) /\ Len(u) = Len(s)
      /\ \A j \in 1..Len(s) : u[j] = IF j = i THEN row ELSE s[j]
  <2> HIDE DEF row
  <2> QED  BY <1>0, <1>1, <1>3, ExceptSeq
<1>5. /\ IsFiniteSet(row.assigned)
      /\ Cardinality(row.assigned) = row.baseline + row.grown
  <2> DEFINE A == s[i].assigned
             b == s[i].baseline
             n == s[i].grown
  <2>1. IsFiniteSet(A) /\ Cardinality(A) = b + n
    BY <1>1
  <2>2. /\ IsFiniteSet(A \cup {f})
        /\ Cardinality(A \cup {f}) = IF f \in A THEN Cardinality(A) ELSE Cardinality(A) + 1
    BY <2>1, FS_AddElement
  <2>3. b \in Nat /\ n \in Nat /\ g = IF f \notin A THEN n + 1 ELSE n
    BY <1>2
  <2> HIDE DEF A, b, n
  <2>4. Cardinality(A \cup {f}) = b + g
    BY <2>1, <2>2, <2>3
  <2> QED  BY <1>2, <2>2, <2>4 DEF A, b
<1>6. \A k \in 1..Len(u) : u[k].id = s[k].id /\ s[k].assigned \subseteq u[k].assigned
  BY <1>2, <1>4
<1>7. Holds(u, a, f) /\ \A h : Holds(s, a, h) => Holds(u, a, h)
  BY <1>2, <1>4, <1>6 DEF Holds
<1>8. \A k \in 1..Len(u) : /\ IsFiniteSet(u[k].assigned)
                           /\ Cardinality(u[k].assigned) = u[k].baseline + u[k].grown
  BY <1>1, <1>4, <1>5
<1>9. a # Nothing => \E k \in 1..Len(u) : u[k].id = a
  BY <1>4, <1>6
<1>10. \A j, k \in 1..Len(u) : u[j].id = u[k].id => j = k
  BY <1>1, <1>4, <1>6
<1>11. Sound(u, a)
  BY <1>1, <1>4, <1>8, <1>9, <1>10 DEF Sound
<1> QED  BY <1>7, <1>11 DEF u

(* A model of new texts comes last; the oldest beyond the history goes.    *)
LEMMA SoundAppends ==
  ASSUME NEW s, NEW a, Sound(s, a), NEW m \in ModelRows,
         IsFiniteSet(m.assigned), Cardinality(m.assigned) = m.baseline + m.grown,
         \A k \in 1..Len(s) : s[k].id # m.id,
         NEW u, u = IF Len(Append(s, m)) > History
                    THEN SubSeq(Append(s, m), Len(Append(s, m)) - History + 1,
                                Len(Append(s, m)))
                    ELSE Append(s, m)
  PROVE  /\ Sound(u, m.id)
         /\ \A f \in m.assigned : Holds(u, m.id, f)
<1> DEFINE r == Append(s, m)
           n == Len(r)
<1>1. /\ s \in Seq(ModelRows) /\ Len(s) \in Nat
      /\ \A j, k \in 1..Len(s) : s[j].id = s[k].id => j = k
      /\ \A k \in 1..Len(s) : /\ IsFiniteSet(s[k].assigned)
                              /\ Cardinality(s[k].assigned) = s[k].baseline + s[k].grown
  BY DEF Sound
<1>2. /\ r \in Seq(ModelRows) /\ n = Len(s) + 1 /\ r[n] = m
      /\ \A k \in 1..Len(s) : r[k] = s[k]
  BY <1>1, AppendProperties
<1>3. History \in Nat \ {0}
  BY CohortAssumption
<1> HIDE DEF r, n
<1>4. n \in Nat \ {0} /\ \A k \in 1..n : k = n \/ k \in 1..Len(s)
  BY <1>1, <1>2
<1>5. /\ \A j, k \in 1..n : r[j].id = r[k].id => j = k
      /\ \A k \in 1..n : /\ IsFiniteSet(r[k].assigned)
                         /\ Cardinality(r[k].assigned) = r[k].baseline + r[k].grown
  <2>1. \A j, k \in 1..n : r[j].id = r[k].id => j = k
    BY <1>1, <1>2, <1>4
  <2>2. ASSUME NEW k \in 1..n
        PROVE  IsFiniteSet(r[k].assigned) /\ Cardinality(r[k].assigned) = r[k].baseline + r[k].grown
    <3>1. CASE k = n
      BY <1>2, <3>1
    <3>2. CASE k # n
      <4>1. k \in 1..Len(s) /\ r[k] = s[k]
        BY <1>2, <1>4, <3>2
      <4> QED BY <1>1, <4>1
    <3> QED BY <3>1, <3>2
  <2> QED BY <2>1, <2>2
<1>6. PICK b \in 0..n - 1 : /\ u \in Seq(ModelRows) /\ Len(u) = n - b /\ Len(u) <= History
                            /\ \A k \in 1..n - b : u[k] = r[b + k]
  <2>1. CASE n > History
    <3> DEFINE lo == n - History + 1
               b == n - History
    <3>1. /\ lo \in Int /\ n \in Int /\ lo \in 1..n /\ lo <= n /\ n - lo + 1 = History
          /\ b \in 0..n - 1 /\ n - b = History /\ lo = b + 1
      BY <1>3, <1>4, <2>1
    <3>2. u = SubSeq(r, lo, n)
      BY <2>1 DEF r, n
    <3> HIDE DEF lo, b
    <3>3. \A k \in lo..n : r[k] \in ModelRows
      <4>1. \A k \in 1..n : r[k] \in ModelRows
        BY <1>2 DEF n
      <4>2. \A k \in lo..n : k \in 1..n
        BY <3>1
      <4> QED  BY <4>1, <4>2
    <3>4. /\ u \in Seq(ModelRows)
          /\ Len(u) = IF lo <= n THEN n - lo + 1 ELSE 0
          /\ \A k \in 1..n - lo + 1 : u[k] = r[lo + k - 1]
      <4> DEFINE v == SubSeq(r, lo, n)
      <4>1. lo \in Int /\ n \in Int
        BY <3>1
      <4>2. /\ v \in Seq(ModelRows)
            /\ Len(v) = IF lo <= n THEN n - lo + 1 ELSE 0
            /\ \A k \in 1..n - lo + 1 : v[k] = r[lo + k - 1]
        BY <3>3, <4>1, SubSeqProperties
      <4> HIDE DEF v
      <4> QED  BY <3>2, <4>2 DEF v
    <3>5. \A k \in 1..n - b : k \in 1..n - lo + 1 /\ lo + k - 1 = b + k
      BY <3>1
    <3>6. \A k \in 1..n - b : u[k] = r[b + k]
      BY <3>4, <3>5
    <3>7. Len(u) = n - b /\ Len(u) <= History
      BY <1>3, <3>1, <3>4
    <3> QED  BY <3>1, <3>4, <3>6, <3>7
  <2>2. CASE ~(n > History)
    <3>1. u = r
      BY <2>2 DEF r, n
    <3>2. 0 \in 0..n - 1 /\ n - 0 = n /\ n <= History
      BY <1>3, <1>4, <2>2
    <3>3. Len(u) = n
      BY <3>1 DEF n
    <3>4. \A k \in 1..n - 0 : u[k] = r[0 + k]
      <4>1. \A k \in 1..n - 0 : 0 + k = k
        BY <1>4
      <4> QED  BY <3>1, <4>1
    <3>5. Len(u) = n - 0 /\ Len(u) <= History
      BY <3>2, <3>3
    <3> QED  BY <1>2, <3>1, <3>2, <3>4, <3>5
  <2> QED  BY <2>1, <2>2
<1>7. \A k \in 1..Len(u) : b + k \in 1..n /\ u[k] = r[b + k]
  <2> SUFFICES ASSUME NEW k \in 1..Len(u) PROVE b + k \in 1..n /\ u[k] = r[b + k]
    OBVIOUS
  <2>1. k \in 1..n - b /\ b \in 0..n - 1 /\ n \in Nat
    BY <1>4, <1>6
  <2>2. b + k \in 1..n
    BY <2>1
  <2> QED  BY <1>6, <2>1, <2>2
<1>8. Len(u) \in 1..Len(u) /\ u[Len(u)] = m
  <2>1. Len(u) = n - b /\ n - b \in 1..Len(u)
    BY <1>4, <1>6
  <2>2. b + (n - b) = n
    BY <1>4, <1>6
  <2>3. u[n - b] = r[b + (n - b)]
    BY <1>7, <2>1
  <2> QED  BY <1>2, <2>1, <2>2, <2>3
<1>9. \A j, k \in 1..Len(u) : u[j].id = u[k].id => j = k
  <2> SUFFICES ASSUME NEW j \in 1..Len(u), NEW k \in 1..Len(u), u[j].id = u[k].id
               PROVE  j = k
    OBVIOUS
  <2>1. b + j \in 1..n /\ b + k \in 1..n /\ r[b + j].id = r[b + k].id
    BY <1>7
  <2>2. b + j = b + k
    BY <1>5, <2>1
  <2>3. j \in Int /\ k \in Int /\ b \in Int
    BY <1>4, <1>6
  <2> QED  BY <2>2, <2>3
<1>10. ASSUME NEW k \in 1..Len(u)
       PROVE  IsFiniteSet(u[k].assigned) /\ Cardinality(u[k].assigned) = u[k].baseline + u[k].grown
  <2>1. b + k \in 1..n /\ u[k] = r[b + k]
    BY <1>7
  <2> QED BY <1>5, <2>1
<1>11. Sound(u, m.id)
  BY <1>6, <1>8, <1>9, <1>10 DEF Sound
<1>12. \A f \in m.assigned : Holds(u, m.id, f)
  BY <1>8 DEF Holds
<1> QED  BY <1>11, <1>12

-----------------------------------------------------------------------------
(* The steps that read findings and write models.                          *)

LEMMA FindingsOfProject ==
  ASSUME Typed, NEW p \in Projects
  PROVE  /\ FindingsOf(p) \in SUBSET Findings /\ IsFiniteSet(FindingsOf(p))
         /\ \A f \in FindingsOf(p) : ProjectOf[f.trace] = p
         /\ \A t \in Traces : Counts(t) /\ ProjectOf[t] = p => finding[t] \in FindingsOf(p)
<1> DEFINE T == {t \in Traces : ProjectOf[t] = p}
           F == {finding[t] : t \in T}
           of == [t \in T |-> finding[t]]
<1>1. /\ FindingsOf(p) = F \ {Nothing}
      /\ \A t \in Traces : finding[t] \in Findings \cup {Nothing}
      /\ \A t \in Traces : finding[t] # Nothing => finding[t].trace = t
  BY DEF FindingsOf, Typed
<1>2. IsFiniteSet(T)
  BY CohortAssumption, FS_Subset
<1>3. of \in Surjection(T, F)
  BY DEF Surjection
<1>4. IsFiniteSet(F)
  <2> HIDE DEF T, F, of
  <2> QED  BY <1>2, <1>3, FS_Surjection
<1>5. IsFiniteSet(F \ {Nothing})
  <2> HIDE DEF F
  <2> QED  BY <1>4, FS_RemoveElement
<1>6. \A t \in Traces : Counts(t) /\ ProjectOf[t] = p => finding[t] \in FindingsOf(p)
  BY <1>1 DEF Counts
<1> QED  BY <1>1, <1>5, <1>6

LEMMA IdentityType ==
  ASSUME NEW F, IsFiniteSet(F)
  PROVE  Identity(F) \in [Texts -> Nat] /\ Identity(F) # Nothing
<1>1. ASSUME NEW x \in Texts PROVE Cardinality({f \in F : f.text = x}) \in Nat
  <2>1. IsFiniteSet({f \in F : f.text = x})
    BY FS_Subset
  <2> QED  BY <2>1, FS_CardinalityType
<1>2. Identity(F) \in [Texts -> Nat]
  BY <1>1 DEF Identity
<1> QED  BY <1>2, CohortAssumption

LEMMA LoadProjectKept == ASSUME IInv, LoadProject PROVE IInv'
<1>1. /\ AtWork /\ Typed /\ ModelsAreSound /\ AllFound
      /\ finding' = finding /\ committed' = committed /\ analysis' = analysis
      /\ UNCHANGED <<cohortStore, queue, rebuildAll, dirty, changes>>
      /\ models' = models /\ active' = active
  BY DEF IInv, LoadProject, cohortInput, cohortStore
<1>2. PICK R \in SUBSET Projects, p \in Projects :
        worker = [at |-> "settled", project |-> p, rest |-> R]
  BY <1>1 DEF LoadProject, AtWork, Waiting, Top
<1> DEFINE F == FindingsOf(p)
<1>3. /\ F \in SUBSET Findings /\ IsFiniteSet(F)
      /\ \A f \in F : ProjectOf[f.trace] = p
      /\ \A t \in Traces : Counts(t) /\ ProjectOf[t] = p => finding[t] \in F
  BY <1>1, FindingsOfProject
<1>4. PICK G \in SUBSET F :
        \/ /\ worker' = [at |-> "rebuilding", rest |-> R]
           /\ excused' = {t \in Traces : finding[t] \in F \/ (t \in excused /\ finding[t] \notin G)}
        \/ /\ worker' = [at |-> "fitting", project |-> p, rest |-> R, findings |-> G]
           /\ excused' = {t \in Traces :
                finding[t] \in F \ G \/ (t \in excused /\ finding[t] \notin G)}
  BY <1>2 DEF LoadProject, Bounded, kSubset
<1> HIDE DEF F
<1>5. IsFiniteSet(G) /\ G \in SUBSET Findings /\ \A f \in G : ProjectOf[f.trace] = p
  BY <1>3, FS_Subset
<1>6. AtWork'
  BY <1>4, <1>5 DEF AtWork
<1>7. Typed'
  BY <1>1 DEF Typed
<1>8. \A t \in Traces : (Counts(t)' <=> Counts(t)) /\ (Counts(t) => finding[t].trace = t)
  BY <1>1 DEF Counts, Typed
<1>9. \A t \in Traces : Counts(t) /\ ProjectOf[t] = p => InHand(t)' \/ t \in excused'
  BY <1>1, <1>3, <1>4 DEF InHand
<1>10. ASSUME NEW t \in Traces, Counts(t)' PROVE Found(t)'
  <2>1. Counts(t) /\ Found(t)
    BY <1>1, <1>8, <1>10 DEF AllFound
  <2>2. CASE ProjectOf[t] = p
    BY <1>9, <2>1, <2>2 DEF Found
  <2>3. CASE ProjectOf[t] # p
    <3>1. CASE Held(t)
      BY <1>1, <3>1, ModelsStay DEF Found
    <3>2. CASE Sent(t)
      BY <1>1, <3>2 DEF Found, Sent
    <3>3. CASE InHand(t)
      BY <1>2, <3>3 DEF InHand
    <3>4. CASE Remembered(ProjectOf[t])
      BY <1>1, <3>4 DEF Found, Remembered
    <3>5. CASE Begun(ProjectOf[t])
      BY <1>2, <1>4, <2>3, <3>5 DEF Found, Begun
    <3>6. CASE t \in excused
      <4>1. finding[t] \notin F
        BY <1>3, <1>8, <2>1, <2>3
      <4> QED  BY <1>4, <3>6, <4>1 DEF Found
    <3> QED  BY <2>1, <3>1, <3>2, <3>3, <3>4, <3>5, <3>6 DEF Found
  <2> QED  BY <2>2, <2>3
<1>11. FitIsCurrent'
  <2> SUFFICES ASSUME worker'.at = "fitting", NEW t \in Traces, Counts(t)',
                      ProjectOf[t] = worker'.project
               PROVE  finding'[t] \in worker'.findings \/ t \in excused'
    BY DEF FitIsCurrent
  <2> QED  BY <1>1, <1>3, <1>4, <1>8
<1>12. AllFound'
  BY <1>10 DEF AllFound
<1> QED  BY <1>1, <1>6, <1>7, <1>11, <1>12, ModelsStay DEF IInv

(* Steps that change the models of one project, and what they leave alone. *)
LEMMA OthersStay ==
  ASSUME IInv, NEW p \in Projects, NEW s, NEW a,
         UNCHANGED <<finding, committed, queue, rebuildAll>>,
         models' = [models EXCEPT ![p] = s], active' = [active EXCEPT ![p] = a],
         Sound(s, a),
         dirty \subseteq dirty', \A q : Begun(q) => Begun(q)',
         excused \subseteq excused',
         \A t : InHand(t) => t \notin Traces \/ ~Counts(t) \/ ProjectOf[t] = p
  PROVE  /\ ModelsAreSound'
         /\ \A t \in Traces : Counts(t)' /\ ProjectOf[t] # p => Found(t)'
<1>1. /\ ModelsAreSound /\ AllFound /\ finding' = finding /\ committed' = committed
      /\ queue' = queue /\ rebuildAll' = rebuildAll
  BY DEF IInv
<1>2. /\ models' = [q \in Projects |-> models'[q]] /\ active' = [q \in Projects |-> active'[q]]
      /\ models'[p] = s /\ active'[p] = a
      /\ \A q \in Projects : q # p => models'[q] = models[q] /\ active'[q] = active[q]
  BY <1>1 DEF ModelsAreSound
<1>3. \A q \in Projects : Sound(models'[q], active'[q])
  BY <1>1, <1>2 DEF ModelsAreSound
<1>4. ModelsAreSound'
  BY <1>2, <1>3 DEF ModelsAreSound
<1>5. ASSUME NEW t \in Traces, Counts(t)', ProjectOf[t] # p PROVE Found(t)'
  <2>1. Counts(t) /\ Found(t) /\ ProjectOf[t] \in Projects
    BY <1>1, <1>5, CohortAssumption DEF AllFound, Counts
  <2>2. CASE Held(t)
    BY <1>1, <1>2, <1>5, <2>1, <2>2 DEF Held, Found
  <2>3. CASE Sent(t)
    BY <1>1, <2>3 DEF Sent, Found
  <2>4. CASE Remembered(ProjectOf[t])
    BY <1>1, <2>4 DEF Remembered, Found
  <2>5. CASE Begun(ProjectOf[t])
    BY <2>5 DEF Found
  <2>6. CASE t \in excused
    BY <1>5, <2>6 DEF Found
  <2> QED  BY <1>5, <2>1, <2>2, <2>3, <2>4, <2>5, <2>6 DEF Found
<1> QED  BY <1>4, <1>5

LEMMA AppendAssignmentsKept == ASSUME IInv, AppendAssignments PROVE IInv'
<1>1. /\ AtWork /\ Typed /\ ModelsAreSound /\ AllFound /\ worker' = Top
      /\ dirty \in SUBSET Projects /\ excused' = excused
      /\ UNCHANGED <<finding, committed, analysis, active, queue, rebuildAll, changes>>
  BY DEF IInv, Typed, AppendAssignments, cohortInput
<1>2. PICK p \in Projects, f \in Findings :
        /\ worker = [at |-> "appending", project |-> p, finding |-> f]
        /\ ProjectOf[f.trace] = p /\ active[p] # Nothing
  BY <1>1 DEF AppendAssignments, AtWork, Waiting, Top
<1>3. PICK i \in 1..Len(models[p]) :
        /\ models[p][i].id = active[p] /\ Model(p) = models[p][i]
        /\ (CHOOSE k \in DOMAIN models[p] : models[p][k].id = active[p]) = i
  BY <1>1, <1>2, ActiveModel
<1> DEFINE s == models[p]
           a == active[p]
           u == Grown(s, i, f)
<1>4. /\ models' = [models EXCEPT ![p] = u]
      /\ dirty \subseteq dirty' /\ dirty' \in SUBSET Projects
  <2>1. models' = [models EXCEPT ![p][i] = [s[i] EXCEPT
          !.assigned = @ \cup {f},
          !.grown = IF f \notin s[i].assigned THEN s[i].grown + 1 ELSE s[i].grown]]
    BY <1>2, <1>3 DEF AppendAssignments
  <2>2. dirty' = dirty \/ dirty' = dirty \cup {p}
    BY <1>2 DEF AppendAssignments
  <2>3. models' = [models EXCEPT ![p] = u]
    BY <2>1 DEF Grown
  <2> QED  BY <1>1, <2>2, <2>3
<1>5. Sound(s, a)
  BY <1>1 DEF ModelsAreSound
<1>6. /\ Sound(u, a) /\ Holds(u, a, f)
      /\ \A h : Holds(s, a, h) => Holds(u, a, h)
  <2>1. i \in 1..Len(s) /\ s[i].id = a
    BY <1>3
  <2> HIDE DEF s, a
  <2> QED  BY <1>5, <2>1, SoundGrows
<1> HIDE DEF u
<1>7. active' = [active EXCEPT ![p] = a] /\ models'[p] = u /\ active'[p] = a
  BY <1>1, <1>4 DEF ModelsAreSound
<1>8. \A q : ~Begun(q)
  BY <1>2 DEF Begun
<1>9. \A t \in Traces : InHand(t) /\ Counts(t) => finding[t] = f /\ ProjectOf[t] = p
  BY <1>1, <1>2 DEF InHand, Typed, Counts
<1>10. /\ ModelsAreSound'
       /\ \A t \in Traces : Counts(t)' /\ ProjectOf[t] # p => Found(t)'
  BY <1>1, <1>4, <1>6, <1>7, <1>8, <1>9, OthersStay
<1>11. ASSUME NEW t \in Traces, Counts(t)', ProjectOf[t] = p PROVE Found(t)'
  <2>1. Counts(t) /\ Found(t) /\ finding' = finding
    BY <1>1, <1>11 DEF AllFound, Counts
  <2>2. CASE Held(t) \/ InHand(t)
    <3>1. Holds(u, a, finding[t])
      BY <1>6, <1>9, <1>11, <2>1, <2>2 DEF Held
    <3> QED  BY <1>2, <1>7, <1>11, <2>1, <3>1 DEF Held, Found
  <2>3. CASE Sent(t)
    BY <1>1, <2>3 DEF Sent, Found
  <2>4. CASE Remembered(ProjectOf[t])
    BY <1>1, <1>4, <2>4 DEF Remembered, Found
  <2>5. CASE t \in excused
    BY <1>1, <2>5 DEF Found
  <2> QED  BY <1>8, <2>1, <2>2, <2>3, <2>4, <2>5 DEF Found
<1>12. Typed'
  BY <1>1, <1>4 DEF Typed
<1>13. AtWork' /\ FitIsCurrent'
  BY <1>1, AtRest DEF FitIsCurrent
<1>14. AllFound'
  BY <1>10, <1>11 DEF AllFound
<1> QED  BY <1>10, <1>12, <1>13, <1>14 DEF IInv

LEMMA CommitModelKept == ASSUME IInv, CommitModel PROVE IInv'
<1>1. /\ AtWork /\ Typed /\ ModelsAreSound /\ AllFound /\ FitIsCurrent
      /\ UNCHANGED <<finding, committed, analysis, queue, rebuildAll, dirty, changes>>
  BY DEF IInv, CommitModel, cohortInput
<1>2. PICK R \in SUBSET Projects, p \in Projects, F \in SUBSET Findings :
        /\ worker = [at |-> "fitting", project |-> p, rest |-> R, findings |-> F]
        /\ IsFiniteSet(F) /\ \A f \in F : ProjectOf[f.trace] = p
  BY <1>1 DEF CommitModel, AtWork, Waiting, Top
<1> DEFINE s == models[p]
           id == Identity(F)
           m == [id |-> id, assigned |-> F, baseline |-> Cardinality(F), grown |-> 0]
           same == {n \in Range(s) : n.id = id}
           r == Append(s, m)
           u == IF same # {} THEN s
                ELSE IF Len(r) > History THEN SubSeq(r, Len(r) - History + 1, Len(r)) ELSE r
<1>3. /\ worker' = [at |-> "rebuilding", rest |-> R]
      /\ active' = [active EXCEPT ![p] = id]
      /\ excused' = excused \cup {t \in Traces : \E n \in same : finding[t] \in F \ n.assigned}
  BY <1>2 DEF CommitModel
<1>4. models' = [models EXCEPT ![p] = u]
  <2>1. models' = IF same # {} THEN models ELSE [models EXCEPT ![p] = u]
    BY <1>2 DEF CommitModel
  <2>2. models = [models EXCEPT ![p] = s]
    BY <1>1 DEF ModelsAreSound
  <2> QED  BY <2>1, <2>2
<1>5. Sound(s, active[p]) /\ id \in [Texts -> Nat] /\ id # Nothing
  BY <1>1, <1>2, IdentityType DEF ModelsAreSound
<1>6. m \in ModelRows /\ m.id = id /\ m.assigned = F /\ Cardinality(F) = m.baseline + m.grown
  <2>1. Cardinality(F) \in Nat
    BY <1>2, FS_CardinalityType
  <2> QED  BY <1>5, <2>1 DEF ModelRows
<1> HIDE DEF id, m
<1>7. /\ s \in Seq(ModelRows) /\ DOMAIN s = 1..Len(s)
      /\ \A n : n \in same <=> \E k \in 1..Len(s) : n = s[k] /\ s[k].id = id
  <2>1. s \in Seq(ModelRows) /\ DOMAIN s = 1..Len(s)
    BY <1>5 DEF Sound
  <2> QED  BY <2>1 DEF Range
<1> HIDE DEF same
<1>8. /\ Sound(u, id)
      /\ \A t \in Traces : finding[t] \in F => Holds(u, id, finding[t]) \/ t \in excused'
  <2>1. CASE same # {}
    <3>1. PICK k \in 1..Len(s) : s[k].id = id /\ s[k] \in same
      BY <1>7, <2>1
    <3>2. Sound(s, id)
      BY <1>5, <3>1 DEF Sound
    <3>3. \A t \in Traces : finding[t] \in F => Holds(s, id, finding[t]) \/ t \in excused'
      BY <1>3, <3>1 DEF Holds
    <3> QED  BY <2>1, <3>2, <3>3
  <2>2. CASE same = {}
    <3>1. \A k \in 1..Len(s) : s[k].id # m.id
      BY <1>6, <1>7, <2>2
    <3> DEFINE w == IF Len(r) > History THEN SubSeq(r, Len(r) - History + 1, Len(r)) ELSE r
    <3>2. Sound(w, m.id) /\ \A f \in m.assigned : Holds(w, m.id, f)
      <4> HIDE DEF s
      <4> QED  BY <1>2, <1>5, <1>6, <3>1, SoundAppends
    <3>3. u = w
      BY <2>2
    <3> HIDE DEF u, w
    <3> QED  BY <1>6, <3>2, <3>3
  <2> QED  BY <2>1, <2>2
<1> HIDE DEF u, s
<1>9. models'[p] = u /\ active'[p] = id
  BY <1>1, <1>3, <1>4 DEF ModelsAreSound
<1>10. \A q : Begun(q) => Begun(q)'
  BY <1>2, <1>3 DEF Begun
<1>11. \A t \in Traces : InHand(t) /\ Counts(t) => finding[t] \in F /\ ProjectOf[t] = p
  BY <1>1, <1>2 DEF InHand, Typed, Counts
<1>12. excused \subseteq excused'
  BY <1>3
<1>13. /\ ModelsAreSound'
       /\ \A t \in Traces : Counts(t)' /\ ProjectOf[t] # p => Found(t)'
  BY <1>1, <1>3, <1>4, <1>8, <1>10, <1>11, <1>12, OthersStay
<1>14. ASSUME NEW t \in Traces, Counts(t)', ProjectOf[t] = p PROVE Found(t)'
  <2>1. Counts(t) /\ finding' = finding
    BY <1>1, <1>14 DEF Counts
  <2>2. finding[t] \in F \/ Sent(t) \/ Remembered(ProjectOf[t]) \/ t \in excused
    BY <1>1, <1>2, <1>14, <2>1 DEF FitIsCurrent
  <2>3. CASE finding[t] \in F
    BY <1>5, <1>8, <1>9, <1>14, <2>1, <2>3 DEF Held, Found
  <2>4. CASE Sent(t)
    BY <1>1, <2>4 DEF Sent, Found
  <2>5. CASE Remembered(ProjectOf[t])
    BY <1>1, <2>5 DEF Remembered, Found
  <2>6. CASE t \in excused
    BY <1>12, <2>6 DEF Found
  <2> QED  BY <2>2, <2>3, <2>4, <2>5, <2>6
<1>15. Typed'
  BY <1>1 DEF Typed
<1>16. AtWork' /\ FitIsCurrent'
  BY <1>3 DEF AtWork, FitIsCurrent
<1>17. AllFound'
  BY <1>13, <1>14 DEF AllFound
<1> QED  BY <1>13, <1>15, <1>16, <1>17 DEF IInv

-----------------------------------------------------------------------------
(* The theorem.                                                            *)

LEMMA InitIInv == CohortInit => IInv
<1> SUFFICES ASSUME CohortInit PROVE IInv
  OBVIOUS
<1>1. \A t \in Traces : finding[t] = Nothing
  BY DEF CohortInit
<1>2. Typed
  <2>1. 0 <= Capacity
    BY CohortAssumption
  <2> QED  BY <2>1 DEF CohortInit, Typed
<1>3. ModelsAreSound
  <2>1. \A p \in Projects : models[p] = <<>> /\ active[p] = Nothing
    BY DEF CohortInit
  <2>2. Sound(<<>>, Nothing)
    <3>1. 0 <= History
      BY CohortAssumption
    <3> QED  BY <3>1 DEF Sound
  <2>3. /\ models = [p \in Projects |-> models[p]]
        /\ active = [p \in Projects |-> active[p]]
    BY DEF CohortInit
  <2> QED  BY <2>1, <2>2, <2>3 DEF ModelsAreSound
<1>4. AtWork /\ FitIsCurrent
  BY DEF CohortInit, AtWork, FitIsCurrent, Top
<1>5. AllFound
  BY <1>1 DEF AllFound, Counts
<1> QED  BY <1>2, <1>3, <1>4, <1>5 DEF IInv

LEMMA NextIInv == IInv /\ [CohortNext]_cohortVars => IInv'
<1> SUFFICES ASSUME IInv, [CohortNext]_cohortVars PROVE IInv'
  OBVIOUS
<1>1. CASE UNCHANGED cohortVars
  <2>1. /\ UNCHANGED <<cohortStore, worker, dirty, excused, queue, rebuildAll, committed>>
        /\ UNCHANGED <<finding, analysis, changes>>
    BY <1>1 DEF cohortVars, cohortInput
  <2>2. Typed'
    BY <2>1 DEF Typed, IInv
  <2>3. (\A p : Wants(queue, p) => Wants(queue', p)) /\ (\A t : Sent(t) => Sent(t)')
    BY <2>1 DEF Sent
  <2>4. AtWork' /\ ModelsAreSound' /\ AllFound' /\ FitIsCurrent'
    BY <2>1, <2>3, InputKeeps
  <2> QED  BY <2>2, <2>4 DEF IInv
<1>2. CASE \E t \in Traces : \/ TraceGoesOn(t) \/ TraceFinalized(t) \/ AnalysisCommitted(t)
                             \/ AnalysisFailed(t) \/ AnalysisStrands(t)
  BY <1>2, AnalysesKept
<1>3. CASE AssignTrace \/ \E p \in Projects \cup {All} : RequestRebuild(p)
  BY <1>3, RequestsKept
<1>4. CASE CohortWorker
  BY <1>4, TakeRebuildAllKept, ReceiveRebuildKept, ReceiveAssignmentKept, RebuildStepsKept,
     ReadFindingsKept, AppendAssignmentsKept, LoadProjectKept, CommitModelKept
     DEF CohortWorker
<1>5. CASE AssignmentFails \/ RebuildFails \/ CohortRestart
  BY <1>5, AssignmentFailsKept, RebuildStepsKept, CohortRestartKept
<1> QED  BY <1>1, <1>2, <1>3, <1>4, <1>5 DEF CohortNext, Analyzed

LEMMA IInvIsAssigned == IInv => FindingsAreAssigned
<1> SUFFICES ASSUME IInv PROVE FindingsAreAssigned
  OBVIOUS
<1>1. AtWork /\ Typed /\ ModelsAreSound /\ AllFound
  BY DEF IInv
<1>2. ASSUME NEW p \in Projects
      PROVE  /\ Len(models[p]) <= History
             /\ active[p] # Nothing => active[p] \in {m.id : m \in Range(models[p])}
             /\ \A j, k \in DOMAIN models[p] : models[p][j].id = models[p][k].id => j = k
             /\ \A m \in Range(models[p]) : Cardinality(m.assigned) = m.baseline + m.grown
  <2> DEFINE s == models[p]
             a == active[p]
  <2>1. /\ Sound(s, a) /\ DOMAIN s = 1..Len(s)
    BY <1>1 DEF ModelsAreSound, Sound
  <2> HIDE DEF s, a
  <2>2. a # Nothing => a \in {m.id : m \in Range(s)}
    BY <2>1 DEF Sound, Range
  <2>3. \A m \in Range(s) : Cardinality(m.assigned) = m.baseline + m.grown
    BY <2>1 DEF Sound, Range
  <2> QED  BY <2>1, <2>2, <2>3 DEF Sound, s, a
<1>3. ASSUME NEW t \in Traces, finding[t] # Nothing, ProjectOf[t] # Unassigned
      PROVE  \/ Assigned(t) \/ Underway(t) \/ Requested(ProjectOf[t])
             \/ t \in excused
  <2> DEFINE p == ProjectOf[t]
  <2>1. p \in Projects /\ Found(t) /\ DOMAIN queue = 1..Len(queue)
    BY <1>1, <1>3, CohortAssumption DEF AllFound, Counts, Typed
  <2>2. CASE Held(t)
    <3>1. PICK i \in 1..Len(models[p]) : models[p][i].id = active[p] /\ Model(p) = models[p][i]
      BY <1>1, <2>1, <2>2, ActiveModel DEF Held
    <3>2. PICK k \in 1..Len(models[p]) :
            models[p][k].id = active[p] /\ finding[t] \in models[p][k].assigned
      BY <2>2 DEF Held, Holds
    <3>3. k = i
      BY <1>1, <2>1, <3>1, <3>2 DEF ModelsAreSound, Sound
    <3> QED  BY <2>2, <3>1, <3>2, <3>3 DEF Held, Assigned
  <2>3. CASE Sent(t)
    BY <2>1, <2>3 DEF Sent, Assigns, Assignment, Underway
  <2>4. CASE InHand(t)
    BY <2>4 DEF InHand, Underway
  <2>5. CASE Remembered(p)
    BY <2>1, <2>5 DEF Remembered, Wants, Requested
  <2>6. CASE Begun(p)
    <3>1. worker.at \in {"rebuilding", "settled", "fitting"} => "rest" \in DOMAIN worker
      BY <1>1 DEF AtWork, Waiting, Top
    <3> QED  BY <2>6, <3>1 DEF Begun, Requested
  <2> QED  BY <2>1, <2>2, <2>3, <2>4, <2>5, <2>6 DEF Found
<1> QED  BY <1>1, <1>2, <1>3 DEF FindingsAreAssigned, Typed

(* However analyses, requests, full queues, failed calls and restarts      *)
(* interleave with the worker, every active finding is in the active model *)
(* of its project or on its way there, with the exceptions that the        *)
(* property names, and the models of a project stay consistent.            *)
THEOREM FindingsStayAssigned == CohortSpec => []FindingsAreAssigned
BY InitIInv, NextIInv, IInvIsAssigned, PTL DEF CohortSpec

-----------------------------------------------------------------------------
(* Induction by least counterexample, and the functions it defines.        *)

LEMMA LeastElement ==
  ASSUME NEW S \in SUBSET Nat, S # {}
  PROVE  \E n \in S : \A m \in S : n <= m
<1> DEFINE R == StrictSubsetOrdering(Nat)
           T == {1..n : n \in S}
<1>1. T \subseteq FiniteSubsetsOf(Nat)
  <2>1. \A n \in S : IsFiniteSet(1..n)
    BY FS_Interval
  <2> QED BY <2>1 DEF FiniteSubsetsOf
<1>2. PICK x \in T : \A y \in T : <<y, x>> \notin R
  <2>1. T # {}
    OBVIOUS
  <2>2. IsWellFoundedOn(R, FiniteSubsetsOf(Nat))
    BY FS_StrictSubsetOrderingWellFounded
  <2> HIDE DEF R, T
  <2> QED BY <1>1, <2>1, <2>2, WFMin
<1>3. PICK n \in S : x = 1..n
  OBVIOUS
<1>4. ASSUME NEW m \in S, m < n PROVE FALSE
  <2>1. 1..m \subseteq 1..n /\ n \in 1..n /\ n \notin 1..m /\ 1..m \in T
    BY <1>4
  <2>2. 1..m \in SUBSET Nat /\ 1..n \in SUBSET Nat
    OBVIOUS
  <2>3. 1..m # 1..n
    BY <2>1
  <2>4. <<1..m, 1..n>> \in R
    BY <2>1, <2>2, <2>3 DEF StrictSubsetOrdering
  <2> QED BY <1>2, <1>3, <2>1, <2>4
<1> QED BY <1>4

(* What holds at 0 and is passed on holds up to N.                         *)
LEMMA Induction ==
  ASSUME NEW N \in Nat, NEW T \in SUBSET (0..N), 0 \in T,
         \A k \in 1..N : k - 1 \in T => k \in T
  PROVE  T = 0..N
<1> SUFFICES ASSUME T # 0..N PROVE FALSE
  OBVIOUS
<1> DEFINE B == (0..N) \ T
<1>1. B \in SUBSET Nat /\ B # {}
  <2>1. \E x \in 0..N : x \notin T
    <3>1. T \subseteq 0..N
      OBVIOUS
    <3> QED BY <3>1
  <2> QED BY <2>1
<1>2. PICK n \in B : \A m \in B : n <= m
  <2> HIDE DEF B
  <2> QED BY <1>1, LeastElement
<1>3. n \in 1..N /\ n - 1 \in 0..N /\ n - 1 \notin B
  BY <1>2
<1> QED BY <1>2, <1>3

(* N steps within V, and the function that goes through them from b.       *)
Stepping(N, V, step) == step \in [1..N -> [V -> V]]
Stepped(N, V, b, step, g) ==
  g \in [0..N -> V] /\ g[0] = b /\ \A k \in 1..N : g[k] = step[k][g[k - 1]]

LEMMA Recursion ==
  ASSUME NEW V, NEW N, NEW b, NEW step, N \in Nat, b \in V, Stepping(N, V, step)
  PROVE  \E g : Stepped(N, V, b, step, g)
<1> USE DEF Stepping
<1> DEFINE Upto(n, g) == g \in [0..n -> V] /\ g[0] = b
                          /\ \A k \in 1..n : g[k] = step[k][g[k - 1]]
           T == {n \in 0..N : \E g : Upto(n, g)}
<1>1. 0 \in T
  <2> DEFINE g == [k \in 0..0 |-> b]
  <2>1. Upto(0, g)
    OBVIOUS
  <2> HIDE DEF Upto, g
  <2>2. \E e : Upto(0, e)
    BY <2>1
  <2> QED BY <2>2
<1>2. ASSUME NEW n \in 1..N, n - 1 \in T PROVE n \in T
  <2>1. PICK g : Upto(n - 1, g)
    BY <1>2
  <2>2. g[n - 1] \in V /\ step[n] \in [V -> V]
    BY <2>1
  <2> DEFINE h == [k \in 0..n |-> IF k = n THEN step[n][g[n - 1]] ELSE g[k]]
  <2>3. h \in [0..n -> V] /\ h[0] = b
    BY <2>1, <2>2
  <2>4. ASSUME NEW k \in 1..n PROVE h[k] = step[k][h[k - 1]]
    BY <2>1
  <2>5. Upto(n, h)
    BY <2>3, <2>4
  <2> HIDE DEF Upto, h
  <2>6. \E e : Upto(n, e)
    BY <2>5
  <2> QED BY <2>6
<1>3. N \in T
  <2>1. T \in SUBSET (0..N) /\ \A k \in 1..N : k - 1 \in T => k \in T
    BY <1>2
  <2> HIDE DEF T
  <2>2. T = 0..N
    BY <1>1, <2>1, Induction
  <2> QED BY <2>2
<1>4. PICK g : Upto(N, g)
  BY <1>3
<1>5. Stepped(N, V, b, step, g)
  BY <1>4 DEF Stepped
<1> QED BY <1>5

LEMMA ChainSteps ==
  ASSUME NEW f, NEW V, IsFiniteSet(DOMAIN f), \A s \in DOMAIN f : f[s] \in V, NoParent \in V,
         NEW id \in V
  PROVE  LET up == Chain(f, id)
             N == Cardinality(DOMAIN f)
         IN /\ up \in [0..N -> V]
            /\ up[0] = id
            /\ \A k \in 1..N : up[k] = IF up[k - 1] \in DOMAIN f THEN f[up[k - 1]] ELSE NoParent
<1> DEFINE N == Cardinality(DOMAIN f)
           step == [k \in 1..N |-> [v \in V |-> IF v \in DOMAIN f THEN f[v] ELSE NoParent]]
           Eq(g) == g = [k \in 0..N |->
                           IF k = 0 THEN id
                           ELSE IF g[k - 1] \in DOMAIN f THEN f[g[k - 1]] ELSE NoParent]
<1>1. N \in Nat
  BY FS_CardinalityType
<1>2. Stepping(N, V, step)
  BY DEF Stepping
<1>3. PICK g : g \in [0..N -> V] /\ g[0] = id /\ \A k \in 1..N : g[k] = step[k][g[k - 1]]
  <2> HIDE DEF step, N
  <2>1. \E g : Stepped(N, V, id, step, g)
    BY <1>1, <1>2, id \in V, Recursion
  <2> QED BY <2>1 DEF Stepped
<1>4. Eq(g)
  <2>1. ASSUME NEW k \in 0..N
        PROVE  g[k] = IF k = 0 THEN id
                      ELSE IF g[k - 1] \in DOMAIN f THEN f[g[k - 1]] ELSE NoParent
    <3> HIDE DEF N
    <3>1. CASE k = 0
      BY <1>1, <1>3, <3>1
    <3>2. CASE k # 0
      <4>1. k \in 1..N /\ k - 1 \in 0..N
        BY <1>1, <3>2
      <4>2. g[k] = step[k][g[k - 1]] /\ g[k - 1] \in V
        BY <1>3, <3>2, <4>1
      <4> QED BY <3>2, <4>1, <4>2
    <3> QED BY <3>1, <3>2
  <2> HIDE DEF N
  <2> QED BY <1>3, <2>1
<1>5. Chain(f, id) = CHOOSE up : Eq(up)
  BY DEF Chain
<1>6. Eq(Chain(f, id))
  <2> HIDE DEF Eq
  <2> QED BY <1>4, <1>5
<1> DEFINE up == Chain(f, id)
<1>7. /\ DOMAIN up = 0..N /\ up = [k \in 0..N |-> up[k]] /\ up[0] = id
      /\ \A k \in 1..N : up[k] = IF up[k - 1] \in DOMAIN f THEN f[up[k - 1]] ELSE NoParent
  <2> HIDE DEF N, up
  <2> QED BY <1>1, <1>6 DEF up
<1>8. up \in [0..N -> V]
  <2> DEFINE T == {k \in 0..N : up[k] \in V}
  <2>1. T \in SUBSET (0..N) /\ 0 \in T /\ \A k \in 1..N : k - 1 \in T => k \in T
    <3> HIDE DEF N, up
    <3>1. 0 \in 0..N /\ up[0] \in V
      BY <1>1, <1>7
    <3>2. ASSUME NEW k \in 1..N, k - 1 \in T PROVE k \in T
      <4>1. k \in 0..N
        BY ONLY <1>1, k \in 1..N
      <4>2. up[k] \in V
        <5>1. up[k] = IF up[k - 1] \in DOMAIN f THEN f[up[k - 1]] ELSE NoParent
          BY ONLY <1>7, k \in 1..N
        <5> QED BY <5>1
      <4> QED BY <4>1, <4>2
    <3> QED BY <3>1, <3>2
  <2>2. T = 0..N
    <3> HIDE DEF N, T
    <3> QED BY <1>1, <2>1, Induction
  <2> HIDE DEF N, up
  <2> QED BY <1>7, <2>2
<1> QED BY <1>7, <1>8

-----------------------------------------------------------------------------
(* Sequences without repetition.                                           *)

Distinct(q) == \A i, j \in DOMAIN q : q[i] = q[j] => i = j

(* q lists the elements of S, each once.                                   *)
Lists(q, S) ==
  /\ q \in Seq(S) /\ Len(q) = Cardinality(S) /\ Distinct(q)
  /\ \A s \in S : \E k \in 1..Len(q) : q[k] = s

(* A sequence without repetition is no longer than the set it is drawn     *)
(* from, and lists it once it is as long.                                  *)
LEMMA DistinctIsShort ==
  ASSUME NEW S, IsFiniteSet(S), NEW q \in Seq(S), Distinct(q)
  PROVE  /\ Len(q) <= Cardinality(S)
         /\ Len(q) = Cardinality(S) => Lists(q, S)
<1>1. Len(q) \in Nat /\ q \in [1..Len(q) -> S] /\ DOMAIN q = 1..Len(q)
  BY LenProperties
<1>2. q \in Injection(1..Len(q), S)
  BY <1>1 DEF Injection, IsInjective, Distinct
<1>3. /\ Cardinality(1..Len(q)) <= Cardinality(S)
      /\ Cardinality(1..Len(q)) = Cardinality(S) => q \in Surjection(1..Len(q), S)
  BY <1>2, FS_Injection
<1>4. Cardinality(1..Len(q)) = Len(q)
  <2>1. 1 \in Int /\ Len(q) \in Int
    BY <1>1
  <2>2. Cardinality(1..Len(q)) = IF 1 > Len(q) THEN 0 ELSE Len(q) - 1 + 1
    BY <2>1, FS_Interval
  <2> QED BY <1>1, <2>2
<1>5. ASSUME Len(q) = Cardinality(S) PROVE Lists(q, S)
  <2>1. q \in Surjection(1..Len(q), S)
    BY <1>3, <1>4, <1>5
  <2>2. \A s \in S : \E k \in 1..Len(q) : q[k] = s
    BY <2>1 DEF Surjection
  <2> QED BY <1>5, <2>2 DEF Lists
<1> QED BY <1>3, <1>4, <1>5

(* The spans of S in the order of their start times are all of them.       *)
LEMMA InOrderLists ==
  ASSUME NEW S \in SUBSET Nat, IsFiniteSet(S)
  PROVE  Lists(InOrder(S), S)
<1> DEFINE N == Cardinality(S)
           upto(s) == {t \in S : t <= s}
           rank == [s \in S |-> Cardinality(upto(s))]
           q == InOrder(S)
<1>1. N \in Nat
  BY FS_CardinalityType
<1>2. ASSUME NEW s \in S
      PROVE  IsFiniteSet(upto(s)) /\ rank[s] \in 1..N
  <2>1. upto(s) \in SUBSET S /\ s \in upto(s)
    OBVIOUS
  <2>2. IsFiniteSet(upto(s)) /\ Cardinality(upto(s)) <= N
    BY <2>1, FS_Subset
  <2>3. Cardinality(upto(s)) \in Nat /\ Cardinality(upto(s)) # 0
    <3> HIDE DEF upto
    <3> QED BY <2>1, <2>2, FS_CardinalityType, FS_EmptySet
  <2> HIDE DEF upto, N
  <2> QED BY <1>1, <2>2, <2>3
<1>3. ASSUME NEW s \in S, NEW t \in S, s < t PROVE rank[s] # rank[t]
  <2>1. upto(s) \in SUBSET upto(t) /\ t \in upto(t) /\ t \notin upto(s)
    <3>1. s \in Nat /\ t \in Nat
      OBVIOUS
    <3>2. ASSUME NEW x \in upto(s) PROVE x \in upto(t)
      <4>1. x \in S /\ x \in Nat /\ x <= s
        OBVIOUS
      <4>2. x <= t
        BY ONLY <1>3, <3>1, <4>1
      <4> QED BY <4>1, <4>2
    <3>3. t \in upto(t) /\ t \notin upto(s)
      BY <1>3, <3>1
    <3> HIDE DEF upto
    <3> QED BY <3>2, <3>3
  <2>2. IsFiniteSet(upto(t)) /\ IsFiniteSet(upto(s))
    BY <1>2
  <2>3. Cardinality(upto(t)) # Cardinality(upto(s))
    <3> HIDE DEF upto
    <3> QED BY <2>1, <2>2, FS_Subset
  <2> QED BY <2>3
<1>4. rank \in Injection(S, 1..N)
  <2>1. rank \in [S -> 1..N]
    <3> HIDE DEF upto, N
    <3> QED BY <1>2
  <2>2. \A s, t \in S : rank[s] = rank[t] => s = t
    <3> SUFFICES ASSUME NEW s \in S, NEW t \in S, rank[s] = rank[t], s # t PROVE FALSE
      OBVIOUS
    <3>1. s < t \/ t < s
      BY S \in SUBSET Nat
    <3> HIDE DEF rank
    <3> QED BY <1>3, <3>1
  <2> HIDE DEF rank, N
  <2> QED BY <2>1, <2>2 DEF Injection, IsInjective
<1>5. \A k \in 1..N : \E s \in S : rank[s] = k
  <2>1. IsFiniteSet(1..N) /\ Cardinality(1..N) = N
    <3>1. 1 \in Int /\ N \in Int
      BY <1>1
    <3>2. IsFiniteSet(1..N) /\ Cardinality(1..N) = IF 1 > N THEN 0 ELSE N - 1 + 1
      <4> HIDE DEF N
      <4> QED BY <3>1, FS_Interval
    <3> HIDE DEF N
    <3> QED BY <1>1, <3>2
  <2>2. rank \in Surjection(S, 1..N)
    <3>1. Cardinality(S) = Cardinality(1..N) <=> rank \in Surjection(S, 1..N)
      <4> HIDE DEF rank, N
      <4> QED BY <1>4, <2>1, FS_Injection
    <3> QED BY <2>1, <3>1
  <2> HIDE DEF rank, N
  <2> QED BY <2>2 DEF Surjection
<1>6. ASSUME NEW k \in 1..N PROVE q[k] \in S /\ rank[q[k]] = k
  <2>1. q[k] = CHOOSE s \in S : Cardinality(upto(s)) = k
    BY DEF InOrder
  <2>2. \E s \in S : Cardinality(upto(s)) = k
    BY <1>5
  <2> HIDE DEF upto, q
  <2>3. q[k] \in S /\ Cardinality(upto(q[k])) = k
    BY <2>1, <2>2
  <2> QED BY <2>3
<1>7. q \in Seq(S) /\ Len(q) = N /\ DOMAIN q = 1..N
  <2>1. DOMAIN q = 1..N /\ q = [k \in 1..N |-> q[k]]
    <3>1. q = [k \in 1..N |-> CHOOSE s \in S : Cardinality(upto(s)) = k]
      BY DEF InOrder
    <3> HIDE DEF q, N, upto
    <3> QED BY ONLY <3>1
  <2>2. q \in [1..N -> S]
    <3> HIDE DEF q, N, rank
    <3> QED BY <1>6, <2>1
  <2> HIDE DEF q, N
  <2> QED BY <1>1, <2>1, <2>2
<1>8. Distinct(q)
  <2> HIDE DEF q, N, rank
  <2> QED BY <1>6, <1>7 DEF Distinct
<1>9. Lists(q, S)
  <2>1. Len(q) = Cardinality(S)
    BY <1>7
  <2> HIDE DEF q, N, rank
  <2> QED BY <1>7, <1>8, <2>1, DistinctIsShort
<1> QED BY <1>9

-----------------------------------------------------------------------------
(* Depths.                                                                 *)

Nodes == Spans \cup {NoParent, Missing}

LEMMA ParentsAreFinite ==
  ASSUME NEW f \in Parents
  PROVE  /\ DOMAIN f \in SUBSET Spans /\ DOMAIN f \in SUBSET Nat /\ IsFiniteSet(DOMAIN f)
         /\ Cardinality(DOMAIN f) \in Nat
         /\ \A s \in DOMAIN f : s \in Nodes /\ f[s] \in Nodes
         /\ f = [s \in DOMAIN f |-> f[s]]
<1>1. PICK S \in SUBSET Spans : f \in [S -> Nodes]
  BY DEF Parents, Nodes
<1>2. IsFiniteSet(S) /\ Spans \subseteq Nat
  BY TopologyAssumption, FS_Subset
<1>3. Cardinality(S) \in Nat
  BY <1>2, FS_CardinalityType
<1> QED BY <1>1, <1>2, <1>3 DEF Nodes

(* The way up from a span not resolved yet: a walk over different spans,   *)
(* none of them resolved, each the parent of the one before.               *)
Walk(f, resolved, up, n) ==
  /\ n \in Nat \ {0}
  /\ \/ up[n] \notin DOMAIN f
     \/ up[n] \in DOMAIN resolved
     \/ \E j \in 0..(n - 1) : up[j] = up[n]
  /\ \A j \in 0..(n - 1) : up[j] \in DOMAIN f /\ up[j] \notin DOMAIN resolved
                            /\ f[up[j]] = up[j + 1]
  /\ \A i, j \in 0..(n - 1) : up[i] = up[j] => i = j

LEMMA WalkEnds ==
  ASSUME NEW f \in Parents, NEW m, NEW id \in DOMAIN f, id \notin DOMAIN m
  PROVE  LET up == Chain(f, id)
         IN Walk(f, m, up, WalkLength(f, m, up)) /\ up[0] = id
<1> DEFINE N == Cardinality(DOMAIN f)
           up == Chain(f, id)
           Stop(k) == \/ up[k] \notin DOMAIN f
                      \/ up[k] \in DOMAIN m
                      \/ \E j \in 0..(k - 1) : up[j] = up[k]
           K == {k \in 0..N : Stop(k)}
           n == WalkLength(f, m, up)
<1>1. N \in Nat
  BY ParentsAreFinite
<1>2. /\ up \in [0..N -> Nodes] /\ up[0] = id
      /\ \A k \in 1..N : up[k] = IF up[k - 1] \in DOMAIN f THEN f[up[k - 1]] ELSE NoParent
  <2>1. IsFiniteSet(DOMAIN f) /\ (\A s \in DOMAIN f : f[s] \in Nodes) /\ NoParent \in Nodes
        /\ id \in Nodes
    BY ParentsAreFinite DEF Nodes
  <2> QED BY <2>1, ChainSteps
<1>3. n = Min(K)
  <2>1. DOMAIN up = 0..N
    BY <1>2
  <2>2. n = Min({k \in DOMAIN up : Stop(k)})
    BY DEF WalkLength
  <2> QED BY <2>1, <2>2
<1>4. K # {}
  <2> SUFFICES ASSUME \A k \in 0..N : ~Stop(k) PROVE FALSE
    OBVIOUS
  <2>1. up \in Injection(0..N, DOMAIN f)
    <3>1. \A k \in 0..N : up[k] \in DOMAIN f
      OBVIOUS
    <3>2. ASSUME NEW i \in 0..N, NEW j \in 0..N, i < j PROVE up[i] # up[j]
      <4>1. i \in 0..(j - 1)
        BY <1>1, <3>2
      <4> QED BY <4>1
    <3>3. \A i, j \in 0..N : up[i] = up[j] => i = j
      <4> HIDE DEF up, N
      <4> QED BY <1>1, <3>2
    <3>4. up \in [0..N -> DOMAIN f]
      <4> HIDE DEF up, N
      <4> QED BY <1>2, <3>1
    <3> HIDE DEF up, N
    <3> QED BY <3>3, <3>4 DEF Injection, IsInjective
  <2>2. Cardinality(0..N) <= N
    <3>1. IsFiniteSet(DOMAIN f)
      BY ParentsAreFinite
    <3> HIDE DEF up
    <3> QED BY <2>1, <3>1, FS_Injection
  <2>3. Cardinality(0..N) = N + 1
    <3>1. 0 \in Int /\ N \in Int
      BY <1>1
    <3>2. Cardinality(0..N) = IF 0 > N THEN 0 ELSE N - 0 + 1
      <4> HIDE DEF N
      <4> QED BY <3>1, FS_Interval
    <3> HIDE DEF N
    <3> QED BY <1>1, <3>2
  <2> HIDE DEF N
  <2> QED BY <1>1, <2>2, <2>3
<1>5. n \in K /\ \A k \in K : n <= k
  <2>1. K \in SUBSET Nat
    <3> HIDE DEF Stop
    <3> QED OBVIOUS
  <2>2. \E x \in K : \A y \in K : x <= y
    <3> HIDE DEF K
    <3> QED BY <1>4, <2>1, LeastElement
  <2> HIDE DEF K, n
  <2> QED BY <1>3, <2>2 DEF Min
<1>6. n \in 0..N /\ Stop(n) /\ \A k \in 0..N : Stop(k) => n <= k
  <2> HIDE DEF n, Stop
  <2> QED BY <1>5
<1>7. ~Stop(0)
  <2>1. 0..(0 - 1) = {}
    OBVIOUS
  <2> HIDE DEF up
  <2> QED BY <1>2, <2>1
<1>8. n \in Nat \ {0}
  <2> HIDE DEF n, Stop, N
  <2> QED BY <1>1, <1>6, <1>7
<1>9. ASSUME NEW j \in 0..(n - 1)
      PROVE  up[j] \in DOMAIN f /\ up[j] \notin DOMAIN m /\ f[up[j]] = up[j + 1]
  <2>1. j \in 0..N /\ j + 1 \in 1..N /\ ~(n <= j)
    <3> HIDE DEF n, Stop, N
    <3> QED BY <1>1, <1>6, <1>8
  <2>2. ~Stop(j)
    <3> HIDE DEF n, Stop, N
    <3> QED BY <1>6, <2>1
  <2>3. up[j] \in DOMAIN f /\ up[j] \notin DOMAIN m
    BY <2>2
  <2>4. j + 1 - 1 = j
    BY <2>1
  <2> HIDE DEF n, Stop, N, up
  <2> QED BY <1>2, <2>1, <2>3, <2>4
<1>10. ASSUME NEW i \in 0..(n - 1), NEW j \in 0..(n - 1), i < j PROVE up[i] # up[j]
  <2>1. j \in 0..N /\ i \in 0..(j - 1) /\ ~(n <= j)
    <3> HIDE DEF n, Stop, N
    <3> QED BY <1>1, <1>6, <1>8, <1>10
  <2>2. ~Stop(j)
    <3> HIDE DEF n, Stop, N
    <3> QED BY <1>6, <2>1
  <2> HIDE DEF n
  <2> QED BY <2>1, <2>2
<1>11. \A i, j \in 0..(n - 1) : up[i] = up[j] => i = j
  <2> SUFFICES ASSUME NEW i \in 0..(n - 1), NEW j \in 0..(n - 1), up[i] = up[j], i # j
               PROVE  FALSE
    OBVIOUS
  <2>1. i < j \/ j < i
    <3> HIDE DEF n
    <3> QED BY <1>8
  <2> HIDE DEF n, up
  <2> QED BY <1>10, <2>1
<1>12. Walk(f, m, up, n)
  <2>1. Stop(n)
    BY <1>6
  <2> HIDE DEF n, up
  <2> QED BY <1>8, <1>9, <1>11, <2>1 DEF Walk
<1> QED BY <1>2, <1>12

(* Depths of some spans of f: whatever is below the roots hangs one below  *)
(* its parent, which has a depth too.                                      *)
Depths(f, m) ==
  /\ DOMAIN m \in SUBSET DOMAIN f /\ m = [s \in DOMAIN m |-> m[s]]
  /\ \A s \in DOMAIN m : m[s] \in Nat
  /\ \A s \in DOMAIN m : m[s] > 0 => f[s] \in DOMAIN m /\ m[f[s]] = m[s] - 1

(* What was resolved stays as it is.                                       *)
Extends(new, old) ==
  DOMAIN old \subseteq DOMAIN new /\ \A s \in DOMAIN old : new[s] = old[s]

(* Resolving one more span keeps the depths known and finds that of the    *)
(* span, whether its walk ended in a cycle or not.                         *)
LEMMA ResolveKeeps ==
  ASSUME NEW f \in Parents, NEW m, Depths(f, m), NEW id
  PROVE  LET new == Resolve(f, m, id)
         IN /\ Depths(f, new) /\ Extends(new, m)
            /\ id \in DOMAIN f => id \in DOMAIN new
<1> DEFINE new == Resolve(f, m, id)
<1>1. CASE id \in DOMAIN m \/ id \notin DOMAIN f
  <2>1. new = m
    BY <1>1 DEF Resolve
  <2>2. id \in DOMAIN f => id \in DOMAIN new
    BY <1>1, <2>1
  <2>3. Extends(new, m)
    BY <2>1 DEF Extends
  <2>4. Depths(f, new)
    BY <2>1
  <2> QED BY <2>2, <2>3, <2>4 DEF new
<1>2. CASE id \notin DOMAIN m /\ id \in DOMAIN f
  <2> DEFINE up == Chain(f, id)
             n == WalkLength(f, m, up)
             walk == {up[j] : j \in 0..(n - 1)}
             position(s) == CHOOSE j \in 0..(n - 1) : up[j] = s
             base == IF up[n] \in DOMAIN m THEN m[up[n]] + 1 ELSE 0
             added == IF up[n] \in walk THEN [s \in walk |-> 0]
                      ELSE [s \in walk |-> base + (n - 1) - position(s)]
  <2>1. Walk(f, m, up, n) /\ up[0] = id
    BY <1>2, WalkEnds
  <2>2. new = Over(m, added)
    BY <1>2 DEF Resolve
  <2>3. DOMAIN added = walk
    OBVIOUS
  <2>4. walk \cap DOMAIN m = {} /\ walk \subseteq DOMAIN f /\ id \in walk
    <3> HIDE DEF up, n
    <3> QED BY <2>1 DEF Walk
  <2>5. \A s \in walk : added[s] \in Nat
    <3>1. CASE up[n] \in walk
      BY <3>1
    <3>2. CASE up[n] \notin walk
      <4> SUFFICES ASSUME NEW s \in walk PROVE added[s] \in Nat
        OBVIOUS
      <4>1. base \in Nat /\ n \in Nat \ {0}
        <5> HIDE DEF up, n
        <5> QED BY <2>1 DEF Walk, Depths
      <4>2. position(s) \in 0..(n - 1)
        <5> HIDE DEF up, n
        <5> QED OBVIOUS
      <4>3. added[s] = base + (n - 1) - position(s)
        BY <3>2
      <4> HIDE DEF base, n, position, added
      <4> QED BY <4>1, <4>2, <4>3
    <3> QED BY <3>1, <3>2
  <2>6. ASSUME NEW s \in walk, added[s] > 0
        PROVE  \/ f[s] \in walk /\ added[f[s]] = added[s] - 1
               \/ f[s] \in DOMAIN m /\ m[f[s]] = added[s] - 1
    <3>1. up[n] \notin walk
      BY <2>6
    <3>2. PICK j \in 0..(n - 1) : s = up[j]
      OBVIOUS
    <3>3. \A i \in 0..(n - 1) : position(up[i]) = i /\ up[i] \in walk
      <4> HIDE DEF up, n
      <4> QED BY <2>1 DEF Walk
    <3>4. \A i \in 0..(n - 1) : added[up[i]] = base + (n - 1) - i
      BY <3>1, <3>3
    <3>5. f[s] = up[j + 1] /\ n \in Nat \ {0}
      <4> HIDE DEF up, n
      <4> QED BY <2>1, <3>2 DEF Walk
    <3>6. base \in Nat
      <4> HIDE DEF up, n
      <4> QED BY DEF Depths
    <3>7. added[s] = base + (n - 1) - j
      BY <3>2, <3>4
    <3>8. CASE j = n - 1
      <4>1. j + 1 = n /\ added[s] = base
        <5> HIDE DEF added, base, n
        <5> QED BY <3>5, <3>6, <3>7, <3>8
      <4>2. base # 0
        <5> HIDE DEF added, base, n
        <5> QED BY <2>6, <3>6, <4>1
      <4>3. up[n] \in DOMAIN m /\ base = m[up[n]] + 1 /\ m[up[n]] \in Nat
        <5> HIDE DEF up, n
        <5> QED BY <4>2 DEF Depths
      <4>4. f[s] = up[n]
        BY <3>5, <4>1
      <4> HIDE DEF added, base, n, up
      <4> QED BY <4>1, <4>3, <4>4
    <3>9. CASE j # n - 1
      <4>1. j + 1 \in 0..(n - 1)
        <5> HIDE DEF n
        <5> QED BY <3>5, <3>9
      <4>2. added[up[j + 1]] = base + (n - 1) - (j + 1) /\ up[j + 1] \in walk
        BY <3>3, <3>4, <4>1
      <4>3. added[f[s]] = added[s] - 1
        <5>1. added[f[s]] = base + (n - 1) - (j + 1)
          BY <3>5, <4>2
        <5> HIDE DEF added, base, n
        <5> QED BY <3>5, <3>6, <3>7, <5>1
      <4> HIDE DEF added, up, walk
      <4> QED BY <3>5, <4>2, <4>3
    <3> QED BY <3>8, <3>9
  <2> HIDE DEF added, walk
  <2>7. /\ DOMAIN new = DOMAIN m \cup walk /\ new = [s \in DOMAIN new |-> new[s]]
        /\ \A s \in DOMAIN m : new[s] = m[s]
        /\ \A s \in walk : new[s] = added[s]
    <3> HIDE DEF new
    <3> QED BY <2>2, <2>3, <2>4 DEF Over
  <2> HIDE DEF new
  <2>8. Extends(new, m) /\ id \in DOMAIN new
    BY <2>4, <2>7 DEF Extends
  <2>9. Depths(f, new)
    <3>1. DOMAIN new \in SUBSET DOMAIN f
      BY <2>4, <2>7 DEF Depths
    <3>2. \A s \in DOMAIN new : new[s] \in Nat
      BY <2>5, <2>7 DEF Depths
    <3>3. ASSUME NEW s \in DOMAIN new, new[s] > 0
          PROVE  f[s] \in DOMAIN new /\ new[f[s]] = new[s] - 1
      <4>1. CASE s \in walk
        <5>1. new[s] = added[s]
          BY <2>7, <4>1
        <5> QED BY <2>6, <2>7, <3>3, <4>1, <5>1
      <4>2. CASE s \in DOMAIN m
        BY <2>7, <3>3, <4>2 DEF Depths
      <4> QED BY <2>7, <4>1, <4>2
    <3> QED BY <2>7, <3>1, <3>2, <3>3 DEF Depths
  <2> QED BY <2>8, <2>9 DEF new
<1> QED BY <1>1, <1>2

LEMMA NoDepths ==
  ASSUME NEW f
  PROVE  Depths(f, <<>>)
<1>1. DOMAIN <<>> = {}
  OBVIOUS
<1>2. <<>> = [s \in {} |-> <<>>[s]]
  OBVIOUS
<1> QED BY <1>1, <1>2 DEF Depths

LEMMA ResolvedSteps ==
  ASSUME NEW f \in Parents, NEW m, Depths(f, m), NEW order, Len(order) \in Nat
  PROVE  LET after == Resolved(f, m, order)
         IN /\ after[0] = m
            /\ \A k \in 1..Len(order) : after[k] = Resolve(f, after[k - 1], order[k])
            /\ \A k \in 0..Len(order) : Depths(f, after[k])
<1> DEFINE N == Len(order)
           V == {v \in UNION {[A -> Nat] : A \in SUBSET DOMAIN f} : Depths(f, v)}
           step == [k \in 1..N |-> [v \in V |-> Resolve(f, v, order[k])]]
           Eq(g) == g = [k \in 0..N |->
                           IF k = 0 THEN m ELSE Resolve(f, g[k - 1], order[k])]
<1>1. \A v : Depths(f, v) <=> v \in V
  <2> SUFFICES ASSUME NEW v, Depths(f, v) PROVE v \in V
    OBVIOUS
  <2>1. DOMAIN v \in SUBSET DOMAIN f /\ v \in [DOMAIN v -> Nat]
    BY DEF Depths
  <2> QED BY <2>1
<1> HIDE DEF V
<1>2. Stepping(N, V, step)
  <2> SUFFICES ASSUME NEW k \in 1..N, NEW v \in V PROVE Resolve(f, v, order[k]) \in V
    BY DEF Stepping
  <2>1. Depths(f, v)
    BY <1>1
  <2>2. Depths(f, Resolve(f, v, order[k]))
    BY <2>1, ResolveKeeps
  <2> QED BY <1>1, <2>2
<1>3. PICK g : g \in [0..N -> V] /\ g[0] = m /\ \A k \in 1..N : g[k] = step[k][g[k - 1]]
  <2>1. m \in V /\ N \in Nat
    BY <1>1
  <2> HIDE DEF step, N
  <2>2. \E g : Stepped(N, V, m, step, g)
    BY <1>2, <2>1, Recursion
  <2> QED BY <2>2 DEF Stepped
<1>4. Eq(g)
  <2>1. ASSUME NEW k \in 0..N
        PROVE  g[k] = IF k = 0 THEN m ELSE Resolve(f, g[k - 1], order[k])
    <3> HIDE DEF N
    <3>1. CASE k = 0
      BY <1>3, <3>1
    <3>2. CASE k # 0
      <4>1. k \in 1..N /\ k - 1 \in 0..N
        BY <3>2 DEF N
      <4>2. g[k] = step[k][g[k - 1]] /\ g[k - 1] \in V
        BY <1>3, <4>1
      <4> QED BY <3>2, <4>1, <4>2
    <3> QED BY <3>1, <3>2
  <2> HIDE DEF N
  <2> QED BY <1>3, <2>1
<1> DEFINE after == Resolved(f, m, order)
<1>5. after = CHOOSE g2 : Eq(g2)
  BY DEF Resolved
<1>6. Eq(after)
  <2> HIDE DEF Eq, after
  <2> QED BY <1>4, <1>5
<1>7. after[0] = m /\ \A k \in 1..N : after[k] = Resolve(f, after[k - 1], order[k])
  <2>1. \A k \in 1..N : k \in 0..N /\ k # 0
    OBVIOUS
  <2>2. 0 \in 0..N
    OBVIOUS
  <2> HIDE DEF N, after
  <2> QED BY <1>6, <2>1, <2>2
<1>8. \A k \in 0..N : Depths(f, after[k])
  <2> DEFINE T == {k \in 0..N : Depths(f, after[k])}
  <2>1. 0 \in T
    BY <1>7
  <2>2. ASSUME NEW k \in 1..N, k - 1 \in T PROVE k \in T
    <3>1. Depths(f, after[k - 1]) /\ k \in 0..N
      BY <2>2
    <3>2. Depths(f, Resolve(f, after[k - 1], order[k]))
      <4> HIDE DEF after
      <4> QED BY <3>1, ResolveKeeps
    <3>3. Depths(f, after[k])
      <4> HIDE DEF after
      <4> QED BY <1>7, <3>2
    <3> QED BY <3>1, <3>3
  <2>3. T \in SUBSET (0..N) /\ N \in Nat
    OBVIOUS
  <2>4. T = 0..N
    <3> HIDE DEF T, N
    <3> QED BY <2>1, <2>2, <2>3, Induction
  <2> HIDE DEF after
  <2> QED BY <2>4
<1> QED BY <1>7, <1>8

(* What resolving the spans of q one after another arrives at.             *)
Reached(f, m, q) ==
  q \in Seq(DOMAIN f) /\ Distinct(q) /\ m = ResolveAll(f, <<>>, q)

LEMMA ReachedIsDeep ==
  ASSUME NEW f \in Parents, NEW m, NEW q, Reached(f, m, q)
  PROVE  Depths(f, m) /\ \A i \in 1..Len(q) : q[i] \in DOMAIN m
<1> DEFINE after == Resolved(f, <<>>, q)
           N == Len(q)
           T == {k \in 0..N : \A i \in 1..k : q[i] \in DOMAIN after[k]}
<1>1. q \in Seq(DOMAIN f) /\ N \in Nat /\ m = after[N] /\ \A i \in 1..N : q[i] \in DOMAIN f
  BY DEF Reached, ResolveAll
<1>2. /\ \A k \in 1..N : after[k] = Resolve(f, after[k - 1], q[k])
      /\ \A k \in 0..N : Depths(f, after[k])
  <2>1. Depths(f, <<>>) /\ Len(q) \in Nat
    BY <1>1, NoDepths
  <2>2. LET g == Resolved(f, <<>>, q)
        IN /\ g[0] = <<>>
           /\ \A k \in 1..Len(q) : g[k] = Resolve(f, g[k - 1], q[k])
           /\ \A k \in 0..Len(q) : Depths(f, g[k])
    BY ONLY <2>1, f \in Parents, ResolvedSteps
  <2> QED BY <2>2
<1>3. 0 \in T
  BY <1>1
<1>4. ASSUME NEW k \in 1..N, k - 1 \in T PROVE k \in T
  <2>1. Depths(f, after[k - 1])
    BY <1>1, <1>2
  <2>2. Extends(after[k], after[k - 1]) /\ q[k] \in DOMAIN after[k]
    <3>1. /\ Extends(Resolve(f, after[k - 1], q[k]), after[k - 1])
          /\ q[k] \in DOMAIN f => q[k] \in DOMAIN Resolve(f, after[k - 1], q[k])
      <4> HIDE DEF after
      <4> QED BY <2>1, ResolveKeeps
    <3> HIDE DEF after
    <3> QED BY <1>1, <1>2, <3>1
  <2>3. \A i \in 1..(k - 1) : q[i] \in DOMAIN after[k - 1]
    BY <1>4
  <2>4. \A i \in 1..k : i = k \/ i \in 1..(k - 1)
    BY <1>1
  <2>5. \A i \in 1..k : q[i] \in DOMAIN after[k]
    <3> HIDE DEF after
    <3> QED BY <2>2, <2>3, <2>4 DEF Extends
  <2> QED BY <1>1, <2>5
<1>5. T \in SUBSET (0..N)
  OBVIOUS
<1>6. T = 0..N
  <2> HIDE DEF T, N
  <2> QED BY <1>1, <1>3, <1>4, <1>5, Induction
<1>7. N \in T /\ Depths(f, after[N])
  <2> HIDE DEF T, N, after
  <2> QED BY <1>1, <1>2, <1>6
<1> HIDE DEF after
<1> QED BY <1>1, <1>7

LEMMA ResolvedAppend ==
  ASSUME NEW f \in Parents, NEW q \in Seq(DOMAIN f), NEW id \in DOMAIN f
  PROVE  ResolveAll(f, <<>>, Append(q, id)) = Resolve(f, ResolveAll(f, <<>>, q), id)
<1> DEFINE N == Len(q)
           longer == Append(q, id)
           g == Resolved(f, <<>>, q)
           h == Resolved(f, <<>>, longer)
           T == {k \in 0..N : h[k] = g[k]}
<1>1. /\ N \in Nat /\ Len(longer) = N + 1 /\ longer[N + 1] = id
      /\ \A k \in 1..N : longer[k] = q[k]
  OBVIOUS
<1>2. g[0] = <<>> /\ \A k \in 1..N : g[k] = Resolve(f, g[k - 1], q[k])
  <2>1. Depths(f, <<>>) /\ Len(q) \in Nat
    BY <1>1, NoDepths
  <2>2. LET e == Resolved(f, <<>>, q)
        IN e[0] = <<>> /\ \A k \in 1..Len(q) : e[k] = Resolve(f, e[k - 1], q[k])
    BY ONLY <2>1, f \in Parents, ResolvedSteps
  <2> QED BY <2>2
<1>3. h[0] = <<>> /\ \A k \in 1..(N + 1) : h[k] = Resolve(f, h[k - 1], longer[k])
  <2>1. Depths(f, <<>>) /\ Len(longer) \in Nat
    BY <1>1, NoDepths
  <2> HIDE DEF longer
  <2>2. LET e == Resolved(f, <<>>, longer)
        IN e[0] = <<>> /\ \A k \in 1..Len(longer) : e[k] = Resolve(f, e[k - 1], longer[k])
    BY ONLY <2>1, f \in Parents, ResolvedSteps
  <2> QED BY <1>1, <2>2
<1> HIDE DEF g, h, longer
<1>4. 0 \in T
  BY <1>1, <1>2, <1>3
<1>5. ASSUME NEW k \in 1..N, k - 1 \in T PROVE k \in T
  <2>1. k \in 1..(N + 1) /\ k \in 0..N /\ h[k - 1] = g[k - 1]
    BY <1>1, <1>5
  <2>2. h[k] = g[k]
    <3> HIDE DEF N
    <3> QED BY <1>1, <1>2, <1>3, <2>1
  <2> QED BY <2>1, <2>2
<1>6. T \in SUBSET (0..N)
  OBVIOUS
<1>7. T = 0..N
  <2> HIDE DEF T, N
  <2> QED BY <1>1, <1>4, <1>5, <1>6, Induction
<1>8. h[N] = g[N]
  BY <1>1, <1>7
<1>9. h[N + 1] = Resolve(f, h[N], id)
  <2>1. N + 1 \in 1..(N + 1) /\ N + 1 - 1 = N
    BY <1>1
  <2> HIDE DEF N
  <2> QED BY <1>1, <1>3, <2>1
<1> QED BY <1>1, <1>8, <1>9 DEF ResolveAll, g, h, longer

(* Asking for the depths of more spans leaves a memo that some order of    *)
(* first requests leads to: to ask again changes nothing.                  *)
LEMMA Reaching ==
  ASSUME NEW f \in Parents, NEW m, NEW q, Reached(f, m, q), NEW ids, Len(ids) \in Nat
  PROVE  \E longer :
           /\ Reached(f, ResolveAll(f, m, ids), longer) /\ Extends(ResolveAll(f, m, ids), m)
           /\ \A i \in 1..Len(ids) : ids[i] \in DOMAIN f =>
                \E k \in 1..Len(longer) : longer[k] = ids[i]
<1> DEFINE N == Len(ids)
           g == Resolved(f, m, ids)
           Has(longer, s) == \E k \in 1..Len(longer) : longer[k] = s
           Good(k, longer) ==
             /\ Reached(f, g[k], longer) /\ Extends(g[k], m)
             /\ \A i \in 1..k : ids[i] \in DOMAIN f => Has(longer, ids[i])
           T == {k \in 0..N : \E longer : Good(k, longer)}
<1>1. Depths(f, m)
  BY ReachedIsDeep
<1>2. g[0] = m /\ \A k \in 1..N : g[k] = Resolve(f, g[k - 1], ids[k])
  <2>1. LET e == Resolved(f, m, ids)
        IN e[0] = m /\ \A k \in 1..Len(ids) : e[k] = Resolve(f, e[k - 1], ids[k])
    BY ONLY <1>1, f \in Parents, Len(ids) \in Nat, ResolvedSteps
  <2> QED BY <2>1
<1> HIDE DEF g
<1>3. 0 \in T
  <2>1. Good(0, q)
    BY <1>2 DEF Extends
  <2> HIDE DEF Good
  <2> QED BY <2>1
<1>4. ASSUME NEW k \in 1..N, k - 1 \in T PROVE k \in T
  <2>1. PICK old : Good(k - 1, old)
    BY <1>4
  <2>2. Reached(f, g[k - 1], old) /\ k \in 0..N /\ g[k] = Resolve(f, g[k - 1], ids[k])
    BY <1>2, <2>1
  <2>3. old \in Seq(DOMAIN f) /\ Len(old) \in Nat /\ DOMAIN old = 1..Len(old)
    BY <2>2 DEF Reached
  <2>4. Depths(f, g[k - 1]) /\ \A i \in 1..Len(old) : old[i] \in DOMAIN g[k - 1]
    BY <2>2, ReachedIsDeep
  <2>8. Extends(g[k], m)
    <3>1. Extends(g[k - 1], m)
      BY <2>1
    <3>2. Extends(Resolve(f, g[k - 1], ids[k]), g[k - 1])
      BY <2>4, ResolveKeeps
    <3> QED BY <2>2, <3>1, <3>2 DEF Extends
  <2>5. \A i \in 1..k : i = k \/ i \in 1..(k - 1)
    OBVIOUS
  <2>6. CASE ids[k] \notin DOMAIN f \/ Has(old, ids[k])
    <3>1. g[k] = g[k - 1]
      <4>1. ids[k] \in DOMAIN f => ids[k] \in DOMAIN g[k - 1]
        <5> HIDE DEF Good
        <5> QED BY <2>4, <2>6
      <4> QED BY <2>2, <4>1 DEF Resolve
    <3>2. \A i \in 1..k : ids[i] \in DOMAIN f => Has(old, ids[i])
      <4> HIDE DEF Has
      <4> QED BY <2>1, <2>5, <2>6
    <3>3. Good(k, old)
      <4> HIDE DEF Has
      <4> QED BY <2>2, <2>8, <3>1, <3>2
    <3> HIDE DEF Good
    <3> QED BY <2>2, <3>3
  <2>7. CASE ids[k] \in DOMAIN f /\ ~Has(old, ids[k])
    <3> DEFINE new == Append(old, ids[k])
    <3>1. /\ new \in Seq(DOMAIN f) /\ Len(new) = Len(old) + 1 /\ new[Len(old) + 1] = ids[k]
          /\ \A i \in 1..Len(old) : new[i] = old[i]
      BY <2>3, <2>7
    <3>2. Distinct(new)
      <4>1. DOMAIN new = 1..(Len(old) + 1)
        BY <3>1
      <4>2. \A i \in 1..(Len(old) + 1) : i \in 1..Len(old) \/ i = Len(old) + 1
        BY <2>3
      <4>3. \A i, j \in 1..Len(old) : old[i] = old[j] => i = j
        BY <2>2, <2>3 DEF Reached, Distinct
      <4> HIDE DEF new
      <4> QED BY <2>7, <3>1, <4>1, <4>2, <4>3 DEF Distinct
    <3>3. ResolveAll(f, <<>>, new) = Resolve(f, ResolveAll(f, <<>>, old), ids[k])
      BY <2>3, <2>7, ResolvedAppend
    <3>4. Reached(f, g[k], new)
      <4> HIDE DEF new
      <4> QED BY <2>2, <3>1, <3>2, <3>3 DEF Reached
    <3>5. \A i \in 1..k : ids[i] \in DOMAIN f => Has(new, ids[i])
      <4>1. \A s : Has(old, s) => Has(new, s)
        <5> HIDE DEF new
        <5> QED BY <2>3, <3>1
      <4>2. Has(new, ids[k])
        <5>1. Len(old) + 1 \in 1..Len(new)
          BY <2>3, <3>1
        <5> HIDE DEF new
        <5> QED BY <3>1, <5>1
      <4> HIDE DEF Has, new
      <4> QED BY <2>1, <2>5, <4>1, <4>2
    <3>6. Good(k, new)
      <4> HIDE DEF Has, new
      <4> QED BY <2>8, <3>4, <3>5
    <3> HIDE DEF Good, new
    <3> QED BY <2>2, <3>6
  <2> QED BY <2>6, <2>7
<1>5. T \in SUBSET (0..N) /\ N \in Nat
  OBVIOUS
<1>6. T = 0..N
  <2> HIDE DEF T, N
  <2> QED BY <1>3, <1>4, <1>5, Induction
<1>7. PICK longer : Good(N, longer)
  <2> HIDE DEF Good
  <2> QED BY <1>5, <1>6
<1> QED BY <1>7 DEF g, ResolveAll

(* Whatever was asked for and in whatever order, a depth that the memo has *)
(* is one that some complete order gives.                                  *)
LEMMA ReachedDepths ==
  ASSUME NEW f \in Parents, NEW m, NEW q, Reached(f, m, q), NEW s \in DOMAIN m
  PROVE  m[s] \in DepthsOf(f, s)
<1> DEFINE D == DOMAIN f
           ids == InOrder(D)
           all == ResolveAll(f, m, ids)
<1>1. D \in SUBSET Nat /\ IsFiniteSet(D) /\ Cardinality(D) \in Nat
  BY ParentsAreFinite
<1>2. Lists(ids, D)
  BY <1>1, InOrderLists
<1>3. Len(ids) \in Nat /\ \A e \in D : \E i \in 1..Len(ids) : ids[i] = e
  BY <1>1, <1>2 DEF Lists
<1>4. PICK longer :
        /\ Reached(f, all, longer) /\ Extends(all, m)
        /\ \A i \in 1..Len(ids) : ids[i] \in D => \E k \in 1..Len(longer) : longer[k] = ids[i]
  BY <1>3, Reaching
<1> HIDE DEF all, ids
<1>5. \A e \in D : \E k \in 1..Len(longer) : longer[k] = e
  BY <1>3, <1>4
<1>6. /\ longer \in [1..Len(longer) -> D] /\ Len(longer) \in Nat
      /\ longer \in Seq(D) /\ Distinct(longer)
  BY <1>4, LenProperties DEF Reached
<1>7. Len(longer) = Cardinality(D)
  <2>1. Len(longer) <= Cardinality(D)
    <3> HIDE DEF D
    <3> QED BY <1>1, <1>6, DistinctIsShort
  <2>2. longer \in Surjection(1..Len(longer), D)
    BY <1>5, <1>6 DEF Surjection
  <2>3. 1 \in Int /\ Len(longer) \in Int
    BY <1>6
  <2>4. /\ IsFiniteSet(1..Len(longer))
        /\ Cardinality(1..Len(longer)) = IF 1 > Len(longer) THEN 0 ELSE Len(longer) - 1 + 1
    BY ONLY <2>3, FS_Interval
  <2>5. Cardinality(D) <= Cardinality(1..Len(longer))
    <3> HIDE DEF D
    <3> QED BY <2>2, <2>4, FS_Surjection
  <2> HIDE DEF D
  <2> QED BY <1>1, <1>6, <2>1, <2>4, <2>5
<1>8. longer \in SetToSeqs(D)
  <2>1. \A i, j \in 1..Cardinality(D) : i # j => longer[i] # longer[j]
    BY <1>6, <1>7 DEF Distinct
  <2> HIDE DEF D
  <2> QED BY <1>6, <1>7, <2>1 DEF SetToSeqs
<1>9. m[s] = ResolveAll(f, <<>>, longer)[s]
  BY <1>4 DEF Reached, Extends
<1> QED BY <1>8, <1>9 DEF DepthsOf

(* The stored layout is a depth of every span.                             *)
LEMMA LayoutIsDeep ==
  ASSUME NEW f \in Parents
  PROVE  /\ Depths(f, Layout(f)) /\ DOMAIN Layout(f) = DOMAIN f
         /\ \A s \in DOMAIN f : Layout(f)[s] \in DepthsOf(f, s)
<1> DEFINE q == InOrder(DOMAIN f)
<1>1. DOMAIN f \in SUBSET Nat /\ IsFiniteSet(DOMAIN f)
  BY ParentsAreFinite
<1>2. Lists(q, DOMAIN f)
  BY <1>1, InOrderLists
<1>3. Reached(f, Layout(f), q)
  <2>1. Layout(f) = ResolveAll(f, <<>>, q)
    BY DEF Layout
  <2> HIDE DEF q
  <2> QED BY <1>2, <2>1 DEF Reached, Lists
<1> HIDE DEF q
<1>4. Depths(f, Layout(f)) /\ \A i \in 1..Len(q) : q[i] \in DOMAIN Layout(f)
  BY <1>3, ReachedIsDeep
<1>5. DOMAIN Layout(f) = DOMAIN f
  BY <1>2, <1>4 DEF Lists, Depths
<1>6. \A s \in DOMAIN Layout(f) : Layout(f)[s] \in DepthsOf(f, s)
  BY <1>3, ReachedDepths
<1> QED BY <1>4, <1>5, <1>6

-----------------------------------------------------------------------------
(* The walk of the tree, depth first.                                      *)

In(q, s) == \E k \in 1..Len(q) : q[k] = s

(* Depths of all the spans of f.                                           *)
Deep(f, d) == Depths(f, d) /\ DOMAIN d = DOMAIN f

LEMMA ValidParents ==
  ASSUME NEW f, NEW d, Deep(f, d), NEW s \in DOMAIN f
  PROVE  HasValidParent(f, d, s) <=> d[s] > 0
<1>1. d[s] \in Nat /\ (d[s] > 0 => f[s] \in DOMAIN f /\ d[f[s]] = d[s] - 1)
  BY DEF Deep, Depths
<1>2. f[s] \in DOMAIN f => d[f[s]] \in Nat
  BY DEF Deep, Depths
<1> QED BY <1>1, <1>2 DEF HasValidParent

LEMMA ListsSubset ==
  ASSUME NEW S, IsFiniteSet(S), S \in SUBSET Nat, NEW T \in SUBSET S
  PROVE  /\ InOrder(T) \in Seq(S) /\ Len(InOrder(T)) \in Nat /\ Distinct(InOrder(T))
         /\ \A k \in 1..Len(InOrder(T)) : InOrder(T)[k] \in T
         /\ \A s \in T : In(InOrder(T), s)
<1> DEFINE q == InOrder(T)
<1>1. IsFiniteSet(T) /\ T \in SUBSET Nat
  BY FS_Subset
<1>2. Lists(q, T)
  BY <1>1, InOrderLists
<1> HIDE DEF q
<1>3. q \in Seq(T) /\ q \in Seq(S) /\ Len(q) \in Nat
  <2>1. q \in Seq(T)
    BY <1>2 DEF Lists
  <2> QED BY <2>1, SeqMonotonic, LenProperties
<1>4. \A k \in 1..Len(q) : q[k] \in T
  BY <1>3, ElementOfSeq
<1> QED BY <1>2, <1>3, <1>4 DEF Lists, In, q

LEMMA ChildrenAreListed ==
  ASSUME NEW f \in Parents, NEW d, Deep(f, d), NEW p
  PROVE  LET kids == ChildrenIn(f, d, p)
         IN /\ kids \in Seq(DOMAIN f) /\ Len(kids) \in Nat /\ Distinct(kids)
            /\ \A k \in 1..Len(kids) : /\ kids[k] \in DOMAIN f /\ f[kids[k]] = p
                                       /\ d[kids[k]] > 0
            /\ \A s \in DOMAIN f : d[s] > 0 /\ f[s] = p => In(kids, s)
<1> DEFINE T == {s \in DOMAIN f : HasValidParent(f, d, s) /\ f[s] = p}
           kids == ChildrenIn(f, d, p)
<1>1. kids = InOrder(T) /\ T \in SUBSET DOMAIN f
  BY DEF ChildrenIn
<1>2. IsFiniteSet(DOMAIN f) /\ DOMAIN f \in SUBSET Nat
  BY ParentsAreFinite
<1>3. \A s : s \in T <=> s \in DOMAIN f /\ d[s] > 0 /\ f[s] = p
  BY ValidParents
<1> HIDE DEF T, kids
<1>4. /\ kids \in Seq(DOMAIN f) /\ Len(kids) \in Nat /\ Distinct(kids)
      /\ \A k \in 1..Len(kids) : kids[k] \in T
      /\ \A s \in T : In(kids, s)
  BY <1>1, <1>2, ListsSubset
<1> QED BY <1>3, <1>4 DEF kids

LEMMA RootsAreListed ==
  ASSUME NEW f \in Parents, NEW d, Deep(f, d)
  PROVE  LET roots == Roots(f, d)
         IN /\ roots \in Seq(DOMAIN f) /\ Len(roots) \in Nat /\ Distinct(roots)
            /\ \A k \in 1..Len(roots) : roots[k] \in DOMAIN f /\ d[roots[k]] = 0
            /\ \A s \in DOMAIN f : d[s] = 0 => In(roots, s)
<1> DEFINE T == {s \in DOMAIN f : ~HasValidParent(f, d, s)}
           roots == Roots(f, d)
<1>1. roots = InOrder(T) /\ T \in SUBSET DOMAIN f
  BY DEF Roots
<1>2. IsFiniteSet(DOMAIN f) /\ DOMAIN f \in SUBSET Nat
  BY ParentsAreFinite
<1>3. \A s : s \in T <=> s \in DOMAIN f /\ d[s] = 0
  <2>1. \A s \in DOMAIN f : d[s] \in Nat
    BY DEF Deep, Depths
  <2>2. \A s \in DOMAIN f : HasValidParent(f, d, s) <=> d[s] > 0
    BY ValidParents
  <2>3. \A s \in DOMAIN f : d[s] > 0 <=> d[s] # 0
    BY <2>1
  <2> QED BY <2>2, <2>3
<1> HIDE DEF T, roots
<1>4. /\ roots \in Seq(DOMAIN f) /\ Len(roots) \in Nat /\ Distinct(roots)
      /\ \A k \in 1..Len(roots) : roots[k] \in T
      /\ \A s \in T : In(roots, s)
  BY <1>1, <1>2, ListsSubset
<1> QED BY <1>3, <1>4 DEF roots

(* The parent of s is among the first n of v, and what follows it there is *)
(* at least as deep as s.                                                  *)
Hung(f, d, v, n, s) ==
  \E i \in 1..n : v[i] = f[s] /\ \A k \in (i + 1)..n : d[v[k]] >= d[s]

(* What the walk has visited and what waits on its stack: nothing is there *)
(* twice, the stack is the shallower the further down, a span comes after  *)
(* its parent with only deeper ones in between, and no root and no child   *)
(* of a visited span is lost.                                              *)
Searched(f, d, v, w) ==
  /\ v \in Seq(DOMAIN f) /\ w \in Seq(DOMAIN f)
  /\ Distinct(v) /\ Distinct(w) /\ \A i \in 1..Len(v), j \in 1..Len(w) : v[i] # w[j]
  /\ \A i, j \in 1..Len(w) : i < j => d[w[i]] >= d[w[j]]
  /\ \A n \in 1..Len(v) : d[v[n]] > 0 => Hung(f, d, v, n - 1, v[n])
  /\ \A n \in 1..Len(w) : d[w[n]] > 0 => Hung(f, d, v, Len(v), w[n])
  /\ \A s \in DOMAIN f : d[s] = 0 \/ In(v, f[s]) => In(v, s) \/ In(w, s)

LEMMA SearchStarts ==
  ASSUME NEW f \in Parents, NEW d, Deep(f, d)
  PROVE  Searched(f, d, <<>>, Roots(f, d))
<1> DEFINE w == Roots(f, d)
<1>1. /\ w \in Seq(DOMAIN f) /\ Len(w) \in Nat /\ Distinct(w)
      /\ \A k \in 1..Len(w) : w[k] \in DOMAIN f /\ d[w[k]] = 0
      /\ \A s \in DOMAIN f : d[s] = 0 => In(w, s)
  BY RootsAreListed
<1> HIDE DEF w
<1>2. /\ <<>> \in Seq(DOMAIN f) /\ Len(<<>>) = 0 /\ 1..Len(<<>>) = {} /\ Distinct(<<>>)
      /\ \A s : ~In(<<>>, s)
  <2>1. <<>> \in Seq(DOMAIN f) /\ Len(<<>>) = 0 /\ DOMAIN <<>> = {}
    OBVIOUS
  <2>2. 1..Len(<<>>) = {}
    BY <2>1
  <2> QED BY <2>1, <2>2 DEF Distinct, In
<1>3. \A i, j \in 1..Len(w) : i < j => d[w[i]] >= d[w[j]]
  BY <1>1
<1>4. \A n \in 1..Len(w) : ~(d[w[n]] > 0)
  BY <1>1
<1>5. Searched(f, d, <<>>, w)
  BY <1>1, <1>2, <1>3, <1>4 DEF Searched
<1> QED BY <1>5 DEF w

LEMMA SearchGoesOn ==
  ASSUME NEW f \in Parents, NEW d, Deep(f, d), NEW v, NEW w, Searched(f, d, v, w), w # <<>>
  PROVE  Searched(f, d, Append(v, Head(w)), ChildrenIn(f, d, Head(w)) \o Tail(w))
<1> DEFINE D == DOMAIN f
           p == Head(w)
           kids == ChildrenIn(f, d, p)
           N == Len(v)
           K == Len(kids)
           M == Len(w)
           v2 == Append(v, p)
           w2 == kids \o Tail(w)
<1>1. /\ v \in Seq(D) /\ N \in Nat /\ \A i \in 1..N : v[i] \in D
      /\ w \in Seq(D) /\ M \in Nat \ {0} /\ \A i \in 1..M : w[i] \in D
  <2>1. v \in Seq(D) /\ w \in Seq(D)
    BY DEF Searched
  <2>2. N \in Nat /\ M \in Nat \ {0}
    BY <2>1, EmptySeq, LenProperties
  <2>3. (\A i \in 1..N : v[i] \in D) /\ (\A i \in 1..M : w[i] \in D)
    BY <2>1, ElementOfSeq
  <2> QED BY <2>1, <2>2, <2>3
<1>2. p = w[1] /\ p \in D /\ \A s \in D : d[s] \in Nat
  BY <1>1 DEF Deep, Depths
<1>3. /\ Distinct(v) /\ \A i, j \in 1..M : w[i] = w[j] => i = j
      /\ \A i \in 1..N, j \in 1..M : v[i] # w[j]
      /\ \A i, j \in 1..M : i < j => d[w[i]] >= d[w[j]]
      /\ \A n \in 1..N : d[v[n]] > 0 => Hung(f, d, v, n - 1, v[n])
      /\ \A n \in 1..M : d[w[n]] > 0 => Hung(f, d, v, N, w[n])
      /\ \A s \in D : d[s] = 0 \/ In(v, f[s]) => In(v, s) \/ In(w, s)
  <2>1. DOMAIN w = 1..M
    BY <1>1
  <2> QED BY <2>1 DEF Searched, Distinct
<1>4. /\ kids \in Seq(D) /\ K \in Nat /\ \A i, j \in 1..K : kids[i] = kids[j] => i = j
      /\ \A k \in 1..K : kids[k] \in D /\ f[kids[k]] = p /\ d[kids[k]] = d[p] + 1
      /\ \A s \in D : d[s] > 0 /\ f[s] = p => In(kids, s)
  <2>1. /\ kids \in Seq(D) /\ K \in Nat /\ Distinct(kids)
        /\ \A k \in 1..K : kids[k] \in D /\ f[kids[k]] = p /\ d[kids[k]] > 0
        /\ \A s \in D : d[s] > 0 /\ f[s] = p => In(kids, s)
    BY ChildrenAreListed
  <2> HIDE DEF kids, p
  <2>2. \A i, j \in 1..K : kids[i] = kids[j] => i = j
    <3>1. DOMAIN kids = 1..K
      BY <2>1
    <3> QED BY <2>1, <3>1 DEF Distinct
  <2>3. ASSUME NEW k \in 1..K PROVE d[kids[k]] = d[p] + 1
    <3>1. d[f[kids[k]]] = d[kids[k]] - 1 /\ d[kids[k]] \in Nat
      BY <2>1 DEF Deep, Depths
    <3>2. d[p] = d[kids[k]] - 1
      BY <2>1, <3>1
    <3> QED BY <1>2, <3>1, <3>2
  <2> QED BY <2>1, <2>2, <2>3
<1>5. /\ v2 \in Seq(D) /\ Len(v2) = N + 1 /\ v2[N + 1] = p
      /\ \A i \in 1..N : v2[i] = v[i]
  BY <1>1, <1>2
<1>6. /\ w2 \in Seq(D) /\ Len(w2) = K + M - 1
      /\ \A j \in 1..K : w2[j] = kids[j]
      /\ \A j \in (K + 1)..(K + M - 1) : w2[j] = w[j - K + 1]
  <2>1. /\ Tail(w) \in Seq(D) /\ Len(Tail(w)) = M - 1
        /\ \A i \in 1..(M - 1) : Tail(w)[i] = w[i + 1]
    BY <1>1, HeadTailProperties
  <2>2. /\ w2 \in Seq(D) /\ Len(w2) = K + (M - 1)
        /\ \A i \in 1..(K + (M - 1)) :
             w2[i] = IF i <= K THEN kids[i] ELSE Tail(w)[i - K]
    BY <1>4, <2>1, ConcatProperties
  <2> HIDE DEF kids, w2, K, M
  <2>3. ASSUME NEW j \in (K + 1)..(K + M - 1) PROVE w2[j] = w[j - K + 1]
    <3>1. j \in 1..(K + (M - 1)) /\ ~(j <= K) /\ j - K \in 1..(M - 1)
      BY <1>1, <1>4
    <3> QED BY <2>1, <2>2, <3>1
  <2>4. ASSUME NEW j \in 1..K PROVE w2[j] = kids[j]
    <3>1. j \in 1..(K + (M - 1)) /\ j <= K
      BY <1>1, <1>4
    <3> QED BY <2>2, <3>1
  <2>5. Len(w2) = K + M - 1
    BY <1>1, <1>4, <2>2
  <2> QED BY <2>2, <2>3, <2>4, <2>5
<1> HIDE DEF D, p, kids, N, K, M, v2, w2
<1>7. /\ \A i \in 1..(N + 1) : i \in 1..N \/ i = N + 1
      /\ 1 \in 1..M
      /\ \A j \in 1..(K + M - 1) :
           j \in 1..K \/ (j \in (K + 1)..(K + M - 1) /\ j - K + 1 \in 2..M /\ j - K + 1 \in 1..M)
  BY <1>1, <1>4
<1>8. \A k \in 1..K, i \in 1..N : v[i] # kids[k]
  <2> SUFFICES ASSUME NEW k \in 1..K, NEW i \in 1..N, v[i] = kids[k] PROVE FALSE
    OBVIOUS
  <2>1. d[v[i]] > 0
    BY <1>2, <1>4
  <2>2. PICK j \in 1..(i - 1) : v[j] = f[v[i]]
    BY <1>3, <2>1 DEF Hung
  <2>3. j \in 1..N /\ v[j] = w[1]
    BY <1>1, <1>2, <1>4, <2>2
  <2> QED BY <1>3, <1>7, <2>3
<1>9. \A k \in 1..K, i \in 1..M : w[i] # kids[k]
  <2> SUFFICES ASSUME NEW k \in 1..K, NEW i \in 1..M, w[i] = kids[k] PROVE FALSE
    OBVIOUS
  <2>1. d[w[i]] > 0
    BY <1>2, <1>4
  <2>2. PICK j \in 1..N : v[j] = f[w[i]]
    BY <1>3, <2>1 DEF Hung
  <2>3. v[j] = w[1]
    BY <1>2, <1>4, <2>2
  <2> QED BY <1>3, <1>7, <2>3
<1>10. Distinct(v2)
  <2>1. DOMAIN v2 = 1..(N + 1)
    BY <1>5
  <2>2. \A i, j \in 1..N : v[i] = v[j] => i = j
    <3>1. DOMAIN v = 1..N
      BY <1>1 DEF N
    <3> QED BY <1>3, <3>1 DEF Distinct
  <2>3. \A i \in 1..N : v[i] # p
    BY <1>2, <1>3, <1>7
  <2> QED BY <1>5, <1>7, <2>1, <2>2, <2>3 DEF Distinct
<1>11. Distinct(w2)
  <2> SUFFICES ASSUME NEW i \in 1..(K + M - 1), NEW j \in 1..(K + M - 1), w2[i] = w2[j]
               PROVE  i = j
    <3>1. DOMAIN w2 = 1..(K + M - 1)
      BY <1>6
    <3> QED BY <3>1 DEF Distinct
  <2>1. ASSUME i \in 1..K, j \in 1..K PROVE i = j
    BY <1>4, <1>6, <2>1
  <2>2. ASSUME i \in 1..K, j \in (K + 1)..(K + M - 1), j - K + 1 \in 1..M PROVE FALSE
    BY <1>6, <1>9, <2>2
  <2>3. ASSUME j \in 1..K, i \in (K + 1)..(K + M - 1), i - K + 1 \in 1..M PROVE FALSE
    BY <1>6, <1>9, <2>3
  <2>4. ASSUME i \in (K + 1)..(K + M - 1), i - K + 1 \in 1..M,
               j \in (K + 1)..(K + M - 1), j - K + 1 \in 1..M
        PROVE  i = j
    <3>1. w[i - K + 1] = w[j - K + 1]
      BY <1>6, <2>4
    <3>2. i - K + 1 = j - K + 1
      BY <1>3, <2>4, <3>1
    <3> QED BY <1>4, <3>2
  <2> QED BY <1>7, <2>1, <2>2, <2>3, <2>4
<1>12. \A i \in 1..(N + 1), j \in 1..(K + M - 1) : v2[i] # w2[j]
  <2> SUFFICES ASSUME NEW i \in 1..(N + 1), NEW j \in 1..(K + M - 1), v2[i] = w2[j]
               PROVE  FALSE
    OBVIOUS
  <2>1. (i \in 1..N /\ v2[i] = v[i]) \/ v2[i] = w[1]
    BY <1>2, <1>5, <1>7
  <2>2. (j \in 1..K /\ w2[j] = kids[j]) \/ \E k \in 2..M : k \in 1..M /\ w2[j] = w[k]
    BY <1>6, <1>7
  <2>3. 1 \notin 2..M
    OBVIOUS
  <2> QED BY <1>3, <1>7, <1>8, <1>9, <2>1, <2>2, <2>3
<1>13. \A i, j \in 1..(K + M - 1) : i < j => d[w2[i]] >= d[w2[j]]
  <2> SUFFICES ASSUME NEW i \in 1..(K + M - 1), NEW j \in 1..(K + M - 1), i < j
               PROVE  d[w2[i]] >= d[w2[j]]
    OBVIOUS
  <2>1. \A k \in 1..M : d[p] >= d[w[k]] /\ d[w[k]] \in Nat
    <3>1. \A k \in 1..M : k = 1 \/ 1 < k
      OBVIOUS
    <3> QED BY <1>1, <1>2, <1>3, <1>7, <3>1
  <2>2. ASSUME i \in 1..K, j \in 1..K PROVE d[w2[i]] >= d[w2[j]]
    BY <1>2, <1>4, <1>6, <2>2
  <2>3. ASSUME i \in 1..K, j \in (K + 1)..(K + M - 1), j - K + 1 \in 1..M
        PROVE  d[w2[i]] >= d[w2[j]]
    <3>1. d[w2[i]] = d[p] + 1
      BY <1>4, <1>6, <2>3
    <3>2. d[p] >= d[w2[j]] /\ d[w2[j]] \in Nat
      BY <1>6, <2>1, <2>3
    <3> QED BY <1>2, <3>1, <3>2
  <2>4. ASSUME i \in (K + 1)..(K + M - 1), i - K + 1 \in 1..M,
               j \in (K + 1)..(K + M - 1), j - K + 1 \in 1..M
        PROVE  d[w2[i]] >= d[w2[j]]
    <3>1. i - K + 1 < j - K + 1
      BY <1>4
    <3> QED BY <1>3, <1>6, <2>4, <3>1
  <2>5. ~(j \in 1..K /\ i \in (K + 1)..(K + M - 1))
    BY <1>4
  <2> QED BY <1>7, <2>2, <2>3, <2>4, <2>5
<1>14. \A n \in 1..(N + 1) : d[v2[n]] > 0 => Hung(f, d, v2, n - 1, v2[n])
  <2> SUFFICES ASSUME NEW n \in 1..(N + 1), d[v2[n]] > 0
               PROVE  Hung(f, d, v2, n - 1, v2[n])
    OBVIOUS
  <2>1. Hung(f, d, v, n - 1, v2[n])
    <3>1. CASE n \in 1..N
      BY <1>3, <1>5, <3>1
    <3>2. CASE n = N + 1
      <4>1. n - 1 = N /\ v2[n] = w[1]
        BY <1>1, <1>2, <1>5, <3>2
      <4> QED BY <1>3, <1>7, <4>1
    <3> QED BY <1>7, <3>1, <3>2
  <2>2. \A k \in 1..(n - 1) : v2[k] = v[k]
    <3>1. \A k \in 1..(n - 1) : k \in 1..N
      BY <1>1
    <3> QED BY <1>5, <3>1
  <2>3. PICK i \in 1..(n - 1) :
          v[i] = f[v2[n]] /\ \A k \in (i + 1)..(n - 1) : d[v[k]] >= d[v2[n]]
    BY <2>1 DEF Hung
  <2>4. \A k \in (i + 1)..(n - 1) : k \in 1..(n - 1)
    OBVIOUS
  <2> QED BY <2>2, <2>3, <2>4 DEF Hung
<1>15. \A n \in 1..(K + M - 1) : d[w2[n]] > 0 => Hung(f, d, v2, N + 1, w2[n])
  <2> SUFFICES ASSUME NEW n \in 1..(K + M - 1), d[w2[n]] > 0
               PROVE  Hung(f, d, v2, N + 1, w2[n])
    OBVIOUS
  <2>1. ASSUME n \in 1..K PROVE Hung(f, d, v2, N + 1, w2[n])
    <3>1. N + 1 \in 1..(N + 1) /\ (N + 1 + 1)..(N + 1) = {}
      BY <1>1
    <3>2. v2[N + 1] = f[w2[n]]
      BY <1>4, <1>5, <1>6, <2>1
    <3> QED BY <3>1, <3>2 DEF Hung
  <2>2. ASSUME NEW m \in 1..M, m # 1, w2[n] = w[m] PROVE Hung(f, d, v2, N + 1, w2[n])
    <3>1. d[p] >= d[w[m]]
      <4>1. 1 < m
        BY <2>2
      <4> QED BY <1>2, <1>3, <1>7, <4>1
    <3>2. PICK i \in 1..N : v[i] = f[w[m]] /\ \A k \in (i + 1)..N : d[v[k]] >= d[w[m]]
      BY <1>3, <2>2 DEF Hung
    <3>3. i \in 1..(N + 1) /\ v2[i] = f[w2[n]]
      BY <1>1, <1>5, <2>2, <3>2
    <3>4. ASSUME NEW k \in (i + 1)..(N + 1) PROVE d[v2[k]] >= d[w2[n]]
      <4>1. CASE k = N + 1
        BY <1>5, <2>2, <3>1, <4>1
      <4>2. CASE k # N + 1
        <5>1. k \in 1..N /\ k \in (i + 1)..N
          BY ONLY <1>1, <4>2, i \in 1..N, k \in (i + 1)..(N + 1)
        <5> QED BY <1>5, <2>2, <3>2, <5>1
      <4> QED BY <4>1, <4>2
    <3> QED BY <3>3, <3>4 DEF Hung
  <2>3. n \in 1..K \/ \E m \in 1..M : m # 1 /\ w2[n] = w[m]
    <3>1. \A m \in 2..M : m # 1
      OBVIOUS
    <3> QED BY <1>6, <1>7, <3>1
  <2> QED BY <2>1, <2>2, <2>3
<1>16. \A s \in D : d[s] = 0 \/ In(v2, f[s]) => In(v2, s) \/ In(w2, s)
  <2> SUFFICES ASSUME NEW s \in D, d[s] = 0 \/ In(v2, f[s])
               PROVE  In(v2, s) \/ In(w2, s)
    OBVIOUS
  <2>1. ASSUME In(v, s) PROVE In(v2, s)
    <3>1. \A k \in 1..N : k \in 1..(N + 1)
      BY <1>1
    <3> QED BY <1>5, <2>1, <3>1 DEF In, N
  <2>2. ASSUME In(w, s) PROVE In(v2, s) \/ In(w2, s)
    <3>1. PICK k \in 1..M : w[k] = s
      BY <2>2 DEF In, M
    <3>2. CASE k = 1
      <4>1. N + 1 \in 1..(N + 1) /\ v2[N + 1] = s
        BY <1>1, <1>2, <1>5, <3>1, <3>2
      <4> QED BY <1>5, <4>1 DEF In
    <3>3. CASE k # 1
      <4>1. k + K - 1 \in (K + 1)..(K + M - 1) /\ (k + K - 1) - K + 1 = k
            /\ k + K - 1 \in 1..(K + M - 1)
        BY <1>1, <1>4, <3>3
      <4>2. w2[k + K - 1] = s
        BY <1>6, <3>1, <4>1
      <4> QED BY <1>6, <4>1, <4>2 DEF In
    <3> QED BY <3>2, <3>3
  <2>3. ASSUME In(kids, s) PROVE In(w2, s)
    <3>1. \A k \in 1..K : k \in 1..(K + M - 1)
      BY <1>1, <1>4
    <3> QED BY <1>6, <2>3, <3>1 DEF In, K
  <2>4. CASE d[s] = 0 \/ In(v, f[s])
    BY <1>3, <2>1, <2>2, <2>4
  <2>5. CASE d[s] # 0 /\ f[s] = p
    <3>1. d[s] > 0
      BY <1>2, <2>5
    <3> QED BY <1>4, <2>3, <2>5, <3>1
  <2>6. In(v2, f[s]) => In(v, f[s]) \/ f[s] = p
    BY <1>5, <1>7 DEF In, N
  <2> QED BY <2>4, <2>5, <2>6
<1>17. Searched(f, d, v2, w2)
  BY <1>5, <1>6, <1>10, <1>11, <1>12, <1>13, <1>14, <1>15, <1>16 DEF Searched, D
<1> QED BY <1>17 DEF v2, w2, kids, p

(* The walk meets no span twice, so its check for that never strikes.      *)
LEMMA TopIsNew ==
  ASSUME NEW f, NEW d, NEW t, Searched(f, d, t.visited, t.stack), t.stack # <<>>
  PROVE  Turn(f, d, t) =
           [visited |-> Append(t.visited, Head(t.stack)),
            stack |-> ChildrenIn(f, d, Head(t.stack)) \o Tail(t.stack)]
<1> DEFINE v == t.visited
           w == t.stack
<1>1. /\ v \in Seq(DOMAIN f) /\ w \in Seq(DOMAIN f)
      /\ \A i \in 1..Len(v), j \in 1..Len(w) : v[i] # w[j]
  BY DEF Searched
<1>2. Head(w) = w[1] /\ 1 \in 1..Len(w) /\ DOMAIN v = 1..Len(v)
  <2>1. Len(w) \in Nat \ {0}
    BY <1>1, EmptySeq, LenProperties
  <2> QED BY <1>1, <2>1, HeadTailProperties, LenProperties
<1>3. Head(w) \notin ToSet(v)
  <2> HIDE DEF v, w
  <2> QED BY <1>1, <1>2 DEF ToSet
<1> QED BY <1>3 DEF Turn

LEMMA TurnsSteps ==
  ASSUME NEW f \in Parents, NEW d, Deep(f, d)
  PROVE  LET turn == Turns(f, d)
             N == Cardinality(DOMAIN f)
         IN /\ turn[0] = [visited |-> <<>>, stack |-> Roots(f, d)]
            /\ \A n \in 1..N : turn[n] = Turn(f, d, turn[n - 1])
            /\ \A n \in 0..N : Searched(f, d, turn[n].visited, turn[n].stack)
<1> DEFINE N == Cardinality(DOMAIN f)
           V == {t \in [visited : Seq(DOMAIN f), stack : Seq(DOMAIN f)] :
                   Searched(f, d, t.visited, t.stack)}
           b == [visited |-> <<>>, stack |-> Roots(f, d)]
           step == [k \in 1..N |-> [t \in V |-> Turn(f, d, t)]]
           Eq(g) == g = [n \in 0..N |-> IF n = 0 THEN b ELSE Turn(f, d, g[n - 1])]
<1>1. N \in Nat
  BY ParentsAreFinite
<1>2. b \in V
  <2>1. Searched(f, d, <<>>, Roots(f, d))
    BY SearchStarts
  <2> QED BY <2>1 DEF Searched
<1>3. ASSUME NEW t \in V PROVE Turn(f, d, t) \in V
  <2>1. Searched(f, d, t.visited, t.stack)
    OBVIOUS
  <2>2. CASE t.stack = <<>>
    BY <2>2 DEF Turn
  <2>3. CASE t.stack # <<>>
    <3> DEFINE v2 == Append(t.visited, Head(t.stack))
               w2 == ChildrenIn(f, d, Head(t.stack)) \o Tail(t.stack)
    <3>1. Searched(f, d, v2, w2)
      BY <2>1, <2>3, SearchGoesOn
    <3>2. Turn(f, d, t) = [visited |-> v2, stack |-> w2]
      BY <2>1, <2>3, TopIsNew
    <3> HIDE DEF v2, w2
    <3>3. v2 \in Seq(DOMAIN f) /\ w2 \in Seq(DOMAIN f)
      BY <3>1 DEF Searched
    <3> QED BY <3>1, <3>2, <3>3
  <2> QED BY <2>2, <2>3
<1>4. \A t \in V : Searched(f, d, t.visited, t.stack)
  OBVIOUS
<1> HIDE DEF V
<1>5. Stepping(N, V, step)
  BY <1>3 DEF Stepping
<1>6. PICK g : g \in [0..N -> V] /\ g[0] = b /\ \A k \in 1..N : g[k] = step[k][g[k - 1]]
  <2> HIDE DEF step, N, b
  <2>1. \E g : Stepped(N, V, b, step, g)
    BY <1>1, <1>2, <1>5, Recursion
  <2> QED BY <2>1 DEF Stepped
<1> HIDE DEF b
<1>7. \A k \in 1..N : g[k] = Turn(f, d, g[k - 1])
  <2> SUFFICES ASSUME NEW k \in 1..N PROVE g[k] = Turn(f, d, g[k - 1])
    OBVIOUS
  <2>1. k - 1 \in 0..N
    BY <1>1
  <2>2. g[k - 1] \in V
    BY <1>6, <2>1
  <2> QED BY <1>6, <2>2
<1>8. Eq(g)
  <2>1. \A n \in 0..N : n # 0 => n \in 1..N
    BY <1>1
  <2> HIDE DEF N
  <2> QED BY <1>6, <1>7, <2>1
<1> DEFINE turn == Turns(f, d)
<1>9. turn = CHOOSE g2 : Eq(g2)
  BY DEF Turns, b
<1>10. Eq(turn)
  <2> HIDE DEF Eq, turn
  <2> QED BY <1>8, <1>9
<1>11. turn[0] = b /\ \A n \in 1..N : turn[n] = Turn(f, d, turn[n - 1])
  <2>1. \A k \in 1..N : k \in 0..N /\ k # 0
    BY <1>1
  <2>2. 0 \in 0..N
    BY <1>1
  <2> HIDE DEF N, turn
  <2> QED BY <1>10, <2>1, <2>2
<1>12. \A n \in 0..N : turn[n] \in V
  <2> DEFINE T == {n \in 0..N : turn[n] \in V}
  <2> HIDE DEF turn
  <2>1. T \in SUBSET (0..N) /\ 0 \in T
    BY <1>1, <1>2, <1>11
  <2>2. ASSUME NEW n \in 1..N, n - 1 \in T PROVE n \in T
    <3>1. n \in 0..N /\ turn[n - 1] \in V
      BY <2>2
    <3> QED BY <1>3, <1>11, <3>1
  <2>3. T = 0..N
    <3> HIDE DEF T, N
    <3> QED BY <1>1, <2>1, <2>2, Induction
  <2> QED BY <2>3
<1>13. \A n \in 0..N : Searched(f, d, turn[n].visited, turn[n].stack)
  BY <1>4, <1>12
<1> QED BY <1>11, <1>13 DEF b

(* The walk reaches every span: the stored order lists each once, and      *)
(* every child within the block of its parent.                             *)
LEMMA OrderIsComplete ==
  ASSUME NEW f \in Parents, NEW d, Deep(f, d)
  PROVE  LET q == DepthFirst(f, d)
         IN /\ Lists(q, DOMAIN f)
            /\ \A n \in 1..Len(q) : d[q[n]] > 0 => Hung(f, d, q, n - 1, q[n])
<1> DEFINE D == DOMAIN f
           N == Cardinality(D)
           turn == Turns(f, d)
           T == {n \in 0..N : turn[n].stack = <<>> \/ Len(turn[n].visited) = n}
           v == turn[N].visited
           w == turn[N].stack
<1>1. N \in Nat /\ IsFiniteSet(D)
  BY ParentsAreFinite
<1>2. /\ turn[0] = [visited |-> <<>>, stack |-> Roots(f, d)]
      /\ \A n \in 1..N : turn[n] = Turn(f, d, turn[n - 1])
      /\ \A n \in 0..N : Searched(f, d, turn[n].visited, turn[n].stack)
  BY TurnsSteps
<1>3. N \in T
  <2> HIDE DEF turn
  <2>1. T \in SUBSET (0..N) /\ 0 \in T
    BY <1>1, <1>2
  <2>2. ASSUME NEW n \in 1..N, n - 1 \in T PROVE n \in T
    <3>1. n \in 0..N /\ n - 1 \in 0..N /\ turn[n] = Turn(f, d, turn[n - 1])
      BY <1>1, <1>2
    <3>2. CASE turn[n - 1].stack = <<>>
      BY <3>1, <3>2 DEF Turn
    <3>3. CASE turn[n - 1].stack # <<>> /\ Len(turn[n - 1].visited) = n - 1
      <4>1. turn[n].visited = Append(turn[n - 1].visited, Head(turn[n - 1].stack))
        <5> DEFINE t == turn[n - 1]
        <5>1. Searched(f, d, t.visited, t.stack) /\ t.stack # <<>> /\ turn[n] = Turn(f, d, t)
          BY <1>2, <3>1, <3>3
        <5> HIDE DEF t
        <5>2. Turn(f, d, t) = [visited |-> Append(t.visited, Head(t.stack)),
                               stack |-> ChildrenIn(f, d, Head(t.stack)) \o Tail(t.stack)]
          BY <5>1, TopIsNew
        <5> QED BY <5>1, <5>2 DEF t
      <4>2. turn[n - 1].visited \in Seq(D) /\ turn[n - 1].stack \in Seq(D)
        BY <1>2, <3>1 DEF Searched
      <4>3. Head(turn[n - 1].stack) \in D
        BY <3>3, <4>2, HeadTailProperties
      <4>4. Len(turn[n].visited) = n - 1 + 1
        BY <3>3, <4>1, <4>2, <4>3
      <4> QED BY <3>1, <4>4
    <3> QED BY <2>2, <3>2, <3>3
  <2>3. T = 0..N
    <3> HIDE DEF T, N
    <3> QED BY <1>1, <2>1, <2>2, Induction
  <2> HIDE DEF T
  <2> QED BY <1>1, <2>3
<1>4. Searched(f, d, v, w) /\ (w = <<>> \/ Len(v) = N)
  <2> HIDE DEF turn
  <2> QED BY <1>1, <1>2, <1>3
<1> HIDE DEF v, w, T, turn
<1>5. v \in Seq(D) /\ Len(v) \in Nat /\ Distinct(v) /\ w \in Seq(D)
  BY <1>4, LenProperties DEF Searched
<1>6. w = <<>>
  <2> SUFFICES ASSUME w # <<>> PROVE FALSE
    OBVIOUS
  <2>1. Len(v) = N /\ Len(w) \in Nat \ {0} /\ 1 \in 1..Len(w) /\ w[1] \in D
    BY <1>4, <1>5, EmptySeq, ElementOfSeq
  <2>2. Lists(v, D)
    <3> HIDE DEF D
    <3> QED BY <1>1, <1>5, <2>1, DistinctIsShort
  <2>3. PICK k \in 1..Len(v) : v[k] = w[1]
    BY <2>1, <2>2 DEF Lists
  <2> QED BY <1>4, <2>1, <2>3 DEF Searched
<1>7. \A s \in D : d[s] = 0 \/ In(v, f[s]) => In(v, s)
  <2>1. Len(w) = 0
    BY <1>6
  <2>2. \A s : ~In(w, s)
    BY <2>1 DEF In
  <2> QED BY <1>4, <2>2 DEF Searched
<1>8. \A s \in D : d[s] \in Nat /\ (d[s] > 0 => f[s] \in D /\ d[f[s]] = d[s] - 1)
  BY DEF Deep, Depths
<1>9. \A s \in D : In(v, s)
  <2> SUFFICES ASSUME NEW x \in D, ~In(v, x) PROVE FALSE
    OBVIOUS
  <2> DEFINE Lost == {k \in Nat : \E s \in D : ~In(v, s) /\ d[s] = k}
  <2>1. Lost \in SUBSET Nat /\ Lost # {}
    <3>1. d[x] \in Lost
      BY <1>8
    <3> QED BY <3>1
  <2>2. PICK k \in Lost : \A m \in Lost : k <= m
    <3> HIDE DEF Lost
    <3> QED BY <2>1, LeastElement
  <2>3. PICK s \in D : ~In(v, s) /\ d[s] = k
    BY <2>2
  <2>4. d[s] > 0 /\ f[s] \in D /\ d[f[s]] = d[s] - 1 /\ ~In(v, f[s])
    BY <1>7, <1>8, <2>3
  <2>5. d[f[s]] \in Lost /\ d[f[s]] < k
    BY <1>8, <2>3, <2>4
  <2>6. k \in Nat /\ d[f[s]] \in Nat
    BY <1>8, <2>2, <2>4
  <2> HIDE DEF Lost
  <2> QED BY <2>2, <2>5, <2>6
<1>10. Len(v) = N
  <2>1. Len(v) <= N
    <3> HIDE DEF D
    <3> QED BY <1>1, <1>5, DistinctIsShort
  <2>2. v \in Surjection(1..Len(v), D)
    BY <1>5, <1>9, LenProperties DEF Surjection, In
  <2>3. 1 \in Int /\ Len(v) \in Int
    BY <1>5
  <2>4. /\ IsFiniteSet(1..Len(v))
        /\ Cardinality(1..Len(v)) = IF 1 > Len(v) THEN 0 ELSE Len(v) - 1 + 1
    BY ONLY <2>3, FS_Interval
  <2>5. N <= Cardinality(1..Len(v))
    <3> HIDE DEF D
    <3> QED BY <2>2, <2>4, FS_Surjection
  <2> HIDE DEF D, N
  <2> QED BY <1>1, <1>5, <2>1, <2>4, <2>5
<1>11. Lists(v, D)
  <2> HIDE DEF D
  <2> QED BY <1>1, <1>5, <1>10, DistinctIsShort
<1>12. DepthFirst(f, d) = v
  <2>1. DepthFirst(f, d) = v \o InOrder(D \ ToSet(v))
    BY DEF DepthFirst, v, turn
  <2>2. D \ ToSet(v) = {}
    <3>1. DOMAIN v = 1..Len(v)
      BY <1>5
    <3> QED BY <1>9, <3>1 DEF In, ToSet
  <2>3. InOrder({}) = <<>>
    <3>1. Cardinality({}) = 0 /\ 1..0 = {}
      BY FS_EmptySet
    <3>2. InOrder({}) = [k \in 1..0 |-> CHOOSE s \in {} : Cardinality({t \in {} : t <= s}) = k]
      BY <3>1 DEF InOrder
    <3> QED BY <3>1, <3>2
  <2> QED BY <1>5, <2>1, <2>2, <2>3, ConcatEmptySeq
<1>13. \A n \in 1..Len(v) : d[v[n]] > 0 => Hung(f, d, v, n - 1, v[n])
  BY <1>4 DEF Searched
<1> QED BY <1>11, <1>12, <1>13

-----------------------------------------------------------------------------
(* The persisted projection.                                               *)

LEMMA RowsAreProjected ==
  ASSUME NEW f \in Parents
  PROVE  LET rows == Projection(f)
             N == Cardinality(DOMAIN f)
             d == Layout(f)
         IN /\ rows \in Seq(Rows) /\ Len(rows) = N /\ DOMAIN rows = 1..N /\ N \in Nat
            /\ \A k \in 1..N :
                 LET s == rows[k].span
                 IN /\ s \in DOMAIN f /\ rows[k].order = k /\ rows[k].depth = d[s]
                    /\ rows[k].children <=> \E c \in DOMAIN f : d[c] > 0 /\ f[c] = s
                    /\ d[s] > 0 =>
                         \E i \in 1..(k - 1) :
                           rows[i].span = f[s] /\ \A j \in (i + 1)..(k - 1) : rows[j].depth >= d[s]
            /\ \A i, j \in 1..N : rows[i].span = rows[j].span => i = j
            /\ \A s \in DOMAIN f : \E k \in 1..N : rows[k].span = s
<1> DEFINE rows == Projection(f)
           D == DOMAIN f
           N == Cardinality(D)
           d == Layout(f)
           q == DepthFirst(f, d)
<1>1. N \in Nat /\ D \in SUBSET Spans
  BY ParentsAreFinite
<1>2. Deep(f, d) /\ \A s \in D : d[s] \in Nat
  <2>1. Deep(f, d)
    BY LayoutIsDeep DEF Deep
  <2> HIDE DEF d
  <2> QED BY <2>1 DEF Deep, Depths
<1>3. rows = [k \in DOMAIN q |-> [span |-> q[k], order |-> k, depth |-> d[q[k]],
                                  children |-> ChildrenIn(f, d, q[k]) # <<>>]]
  BY DEF Projection
<1>4. /\ Lists(q, D) /\ \A n \in 1..Len(q) : d[q[n]] > 0 => Hung(f, d, q, n - 1, q[n])
  <2> HIDE DEF d
  <2> QED BY <1>2, OrderIsComplete
<1> HIDE DEF q, d, rows
<1>5. /\ Len(q) = N /\ DOMAIN q = 1..N /\ \A k \in 1..N : q[k] \in D
      /\ \A i, j \in 1..N : q[i] = q[j] => i = j
      /\ \A s \in D : \E k \in 1..N : q[k] = s
  <2>1. q \in Seq(D) /\ Len(q) = N /\ Distinct(q) /\ \A s \in D : \E k \in 1..Len(q) : q[k] = s
    BY <1>4 DEF Lists
  <2>2. DOMAIN q = 1..N /\ q \in [1..N -> D]
    BY <2>1, LenProperties
  <2> HIDE DEF D, N
  <2> QED BY <2>1, <2>2 DEF Distinct
<1>6. ASSUME NEW k \in 1..N
      PROVE  ChildrenIn(f, d, q[k]) # <<>> <=> \E c \in D : d[c] > 0 /\ f[c] = q[k]
  <2> DEFINE kids == ChildrenIn(f, d, q[k])
  <2>1. /\ kids \in Seq(D) /\ Len(kids) \in Nat
        /\ \A i \in 1..Len(kids) : kids[i] \in D /\ f[kids[i]] = q[k] /\ d[kids[i]] > 0
        /\ \A s \in D : d[s] > 0 /\ f[s] = q[k] => In(kids, s)
    BY <1>2, ChildrenAreListed
  <2> HIDE DEF kids
  <2>2. ASSUME kids # <<>> PROVE \E c \in D : d[c] > 0 /\ f[c] = q[k]
    <3>1. 1 \in 1..Len(kids)
      BY <2>1, <2>2, EmptySeq
    <3> QED BY <2>1, <3>1
  <2>3. ASSUME NEW c \in D, d[c] > 0, f[c] = q[k] PROVE kids # <<>>
    <3>1. In(kids, c)
      BY <2>1, <2>3
    <3>2. Len(<<>>) = 0
      OBVIOUS
    <3>3. \A c2 : ~In(<<>>, c2)
      BY <3>2 DEF In
    <3> QED BY <3>1, <3>3
  <2> QED BY <2>2, <2>3 DEF kids
<1>7. ASSUME NEW k \in 1..N
      PROVE  /\ rows[k].span = q[k] /\ rows[k].order = k /\ rows[k].depth = d[q[k]]
             /\ rows[k].children = (ChildrenIn(f, d, q[k]) # <<>>)
             /\ rows[k] \in Rows
  <2>1. rows[k] = [span |-> q[k], order |-> k, depth |-> d[q[k]],
                   children |-> ChildrenIn(f, d, q[k]) # <<>>]
    BY <1>3, <1>5
  <2>2. q[k] \in Spans /\ d[q[k]] \in Nat /\ k \in Nat
    BY <1>1, <1>2, <1>5
  <2> HIDE DEF N, D
  <2>3. (ChildrenIn(f, d, q[k]) # <<>>) \in BOOLEAN
    OBVIOUS
  <2> QED BY <2>1, <2>2, <2>3 DEF Rows
<1>8. rows \in Seq(Rows) /\ Len(rows) = N /\ DOMAIN rows = 1..N
  <2>1. DOMAIN rows = 1..N /\ rows = [k \in 1..N |-> rows[k]]
    BY <1>3, <1>5
  <2>2. rows \in [1..N -> Rows]
    <3> HIDE DEF N, Rows
    <3> QED BY <1>7, <2>1
  <2> HIDE DEF N, Rows
  <2> QED BY <1>1, <2>1, <2>2
<1>9. ASSUME NEW k \in 1..N
      PROVE  LET s == rows[k].span
             IN /\ s \in D /\ rows[k].order = k /\ rows[k].depth = d[s]
                /\ rows[k].children <=> \E c \in D : d[c] > 0 /\ f[c] = s
                /\ d[s] > 0 =>
                     \E i \in 1..(k - 1) :
                       rows[i].span = f[s] /\ \A j \in (i + 1)..(k - 1) : rows[j].depth >= d[s]
  <2>1. rows[k].span = q[k] /\ q[k] \in D /\ rows[k].order = k /\ rows[k].depth = d[q[k]]
    BY <1>5, <1>7
  <2>2. rows[k].children <=> \E c \in D : d[c] > 0 /\ f[c] = q[k]
    BY <1>6, <1>7
  <2>3. ASSUME d[q[k]] > 0
        PROVE  \E i \in 1..(k - 1) :
                 rows[i].span = f[q[k]] /\ \A j \in (i + 1)..(k - 1) : rows[j].depth >= d[q[k]]
    <3>1. Hung(f, d, q, k - 1, q[k])
      BY <1>4, <1>5, <2>3
    <3>2. PICK i \in 1..(k - 1) :
            q[i] = f[q[k]] /\ \A j \in (i + 1)..(k - 1) : d[q[j]] >= d[q[k]]
      BY <3>1 DEF Hung
    <3>3. i \in 1..N /\ \A j \in (i + 1)..(k - 1) : j \in 1..N
      BY <1>1
    <3> HIDE DEF N
    <3>4. rows[i].span = q[i] /\ \A j \in (i + 1)..(k - 1) : rows[j].depth = d[q[j]]
      BY <1>7, <3>3
    <3> QED BY <3>2, <3>4
  <2> HIDE DEF D, N
  <2> QED BY <2>1, <2>2, <2>3
<1>10. /\ \A i, j \in 1..N : rows[i].span = rows[j].span => i = j
       /\ \A s \in D : \E k \in 1..N : rows[k].span = s
  <2> HIDE DEF D, N
  <2> QED BY <1>5, <1>7
<1> QED BY <1>1, <1>8, <1>9, <1>10 DEF rows, d

(* The columns of a span are those of its one row.                         *)
LEMMA ColumnsAreRows ==
  ASSUME NEW f \in Parents
  PROVE  /\ DOMAIN Columns(f) = DOMAIN f
         /\ \A k \in 1..Cardinality(DOMAIN f) :
              Columns(f)[Projection(f)[k].span] = Projection(f)[k]
<1> DEFINE rows == Projection(f)
           N == Cardinality(DOMAIN f)
           row(s) == CHOOSE k \in DOMAIN rows : rows[k].span = s
<1>1. DOMAIN rows = 1..N
  BY RowsAreProjected
<1>2. \A k \in 1..N : rows[k].span \in DOMAIN f
  BY RowsAreProjected
<1>3. \A i, j \in 1..N : rows[i].span = rows[j].span => i = j
  BY RowsAreProjected
<1>4. Columns(f) = [s \in DOMAIN f |-> rows[row(s)]]
  BY DEF Columns
<1>5. ASSUME NEW k \in 1..N PROVE Columns(f)[rows[k].span] = rows[k]
  <2>1. row(rows[k].span) \in 1..N /\ rows[row(rows[k].span)].span = rows[k].span
    <3>1. k \in DOMAIN rows
      BY <1>1
    <3> HIDE DEF rows
    <3> QED BY <1>1, <3>1
  <2>2. row(rows[k].span) = k
    <3> HIDE DEF row, rows, N
    <3> QED BY <1>3, <2>1
  <2> HIDE DEF rows, N, row
  <2> QED BY <1>2, <1>4, <2>2
<1> QED BY <1>4, <1>5

(* The persisted tree of any revision, whatever the parents of its spans   *)
(* are (cycles, spans that never arrived, spans of themselves), shows      *)
(* every span exactly once, with true markers, in blocks.                  *)
THEOREM TreesAreComplete ==
  ASSUME NEW f \in Parents
  PROVE  TreeIsComplete(f, Columns(f))
<1> DEFINE c == Columns(f)
           rows == Projection(f)
           D == DOMAIN f
           N == Cardinality(D)
           d == Layout(f)
<1>1. /\ N \in Nat
      /\ \A k \in 1..N :
           /\ rows[k].span \in D /\ rows[k].order = k /\ rows[k].depth = d[rows[k].span]
           /\ rows[k].children <=> \E x \in D : d[x] > 0 /\ f[x] = rows[k].span
           /\ d[rows[k].span] > 0 =>
                \E i \in 1..(k - 1) :
                  /\ rows[i].span = f[rows[k].span]
                  /\ \A j \in (i + 1)..(k - 1) : rows[j].depth >= d[rows[k].span]
      /\ \A s \in D : \E k \in 1..N : rows[k].span = s
  BY RowsAreProjected
<1>2. \A k \in 1..N : c[rows[k].span] = rows[k]
  BY ColumnsAreRows
<1>3. \A s \in D : d[s] \in Nat /\ (d[s] > 0 => f[s] \in D /\ d[f[s]] = d[s] - 1)
  <2>1. Depths(f, d) /\ DOMAIN d = D
    BY LayoutIsDeep
  <2> HIDE DEF d
  <2> QED BY <2>1 DEF Depths
<1> HIDE DEF c, rows, d, N
<1>4. ASSUME NEW s \in D
      PROVE  /\ c[s].depth = d[s] /\ c[s].order \in 1..N /\ rows[c[s].order].span = s
             /\ c[s].children <=> \E x \in D : d[x] > 0 /\ f[x] = s
  <2>1. PICK k \in 1..N : rows[k].span = s
    BY <1>1
  <2>2. c[s] = rows[k]
    BY <1>2, <2>1
  <2> QED BY <1>1, <2>1, <2>2
<1>5. \A k \in 1..N : rows[k].span \in D /\ c[rows[k].span].order = k
  BY <1>1, <1>2
<1>6. {c[s].order : s \in D} = 1..N
  BY <1>4, <1>5
<1>7. \A p : \A s : s \in ChildPage(f, c, p) <=> s \in D /\ f[s] = p /\ d[s] > 0
  BY <1>4 DEF ChildPage
<1>8. \A s : s \in RootPage(f, c) <=> s \in D /\ d[s] = 0
  BY <1>4 DEF RootPage
<1>9. UNION ({RootPage(f, c)} \cup {ChildPage(f, c, p) : p \in D}) = D
  <2>1. ASSUME NEW s \in D
        PROVE  s \in RootPage(f, c) \/ \E p \in D : s \in ChildPage(f, c, p)
    <3>1. d[s] = 0 \/ d[s] > 0
      BY <1>3
    <3> QED BY <1>3, <1>7, <1>8, <3>1
  <2>2. ASSUME NEW p \in D, NEW s \in ChildPage(f, c, p) PROVE s \in D
    BY <1>7
  <2>3. ASSUME NEW s \in RootPage(f, c) PROVE s \in D
    BY <1>8
  <2> HIDE DEF D
  <2> QED BY <2>1, <2>2, <2>3
<1>10. \A s \in D : c[s].depth > 0 => f[s] \in D /\ c[f[s]].depth = c[s].depth - 1
  BY <1>3, <1>4
<1>11. \A p \in D : c[p].children <=> ChildPage(f, c, p) # {}
  <2> SUFFICES ASSUME NEW p \in D PROVE c[p].children <=> \E s : s \in ChildPage(f, c, p)
    OBVIOUS
  <2> QED BY <1>4, <1>7
<1>12. ASSUME NEW p \in D, NEW s \in ChildPage(f, c, p)
       PROVE  /\ c[p].order < c[s].order
              /\ \A x \in D : c[x].order \in c[p].order + 1 .. c[s].order
                   => c[x].depth > c[p].depth
  <2>1. s \in D /\ f[s] = p /\ d[s] > 0
    BY <1>7
  <2> DEFINE k == c[s].order
  <2>2. k \in 1..N /\ rows[k].span = s
    BY <1>4, <2>1
  <2>3. PICK i \in 1..(k - 1) :
          rows[i].span = p /\ \A j \in (i + 1)..(k - 1) : rows[j].depth >= d[s]
    BY <1>1, <2>1, <2>2
  <2>4. i \in 1..N /\ i < k
    BY <1>1, <2>2
  <2>5. c[p].order = i
    BY <1>5, <2>3, <2>4
  <2>6. ASSUME NEW x \in D, c[x].order \in (i + 1)..k PROVE d[x] >= d[s]
    <3>1. c[x].order \in 1..N /\ rows[c[x].order].span = x
      BY <1>4
    <3>2. CASE c[x].order = k
      <4>1. x = s
        BY <2>2, <3>1, <3>2
      <4> QED BY <1>3, <2>1, <4>1
    <3>3. CASE c[x].order # k
      <4>1. c[x].order \in (i + 1)..(k - 1)
        BY <2>2, <2>6, <3>3
      <4>2. rows[c[x].order].depth = d[x]
        BY <1>1, <3>1
      <4> QED BY <2>3, <4>1, <4>2
    <3> QED BY <3>2, <3>3
  <2>7. ASSUME NEW x \in D, c[x].order \in (i + 1)..k PROVE c[x].depth > c[p].depth
    <3>1. d[x] >= d[s] /\ d[p] = d[s] - 1 /\ d[x] \in Nat /\ d[s] \in Nat
      BY <1>3, <2>1, <2>6, <2>7
    <3> QED BY <1>4, <3>1
  <2> HIDE DEF k
  <2> QED BY <2>4, <2>5, <2>7 DEF k
<1> HIDE DEF D
<1>13. TreeIsComplete(f, c)
  BY <1>6, <1>9, <1>10, <1>11, <1>12 DEF TreeIsComplete, D, N
<1> QED BY <1>13 DEF c

-----------------------------------------------------------------------------
(* The inductive invariant of Topology.                                    *)

Finished(st, r) == st[r] \notin {"none", "open"}

HasAll(par, col, r) == DOMAIN par[r] # {} /\ \A s \in DOMAIN par[r] : col[r][s] # None

(* Columns stand on finalized revisions only, and are those of its tree;   *)
(* what is ready has all of them, and clients were told of it unless there *)
(* is a later revision.                                                    *)
StoreFits(par, col, st, ann) ==
  /\ par \in [Revisions -> Parents]
  /\ col \in [Revisions -> [Spans -> Rows \cup {None}]]
  /\ st \in [Revisions -> {"none", "open", "pending", "running", "ready"}]
  /\ ann \subseteq Revisions
  /\ \E c \in Revisions : \A r \in Revisions : st[r] # "none" <=> r <= c
  /\ \A r \in Revisions : \A s \in Spans : col[r][s] # None =>
       Finished(st, r) /\ s \in DOMAIN par[r] /\ col[r][s] = Columns(par[r])[s]
  /\ \A r \in Revisions : st[r] = "ready" =>
       /\ HasAll(par, col, r)
       /\ r \in ann \/ \E r2 \in Revisions : r < r2 /\ st[r2] # "none"

(* The writer is in the middle of a batch that the rows already have.      *)
Projecting(w, r, rows) == w = [at |-> "projecting", revision |-> r, rows |-> rows]

WriterFits(w, b, st, par) ==
  \/ w = Free
  \/ w = [at |-> "publishing"] /\ b.at = "publishing"
  \/ \E r \in Revisions, rows \in Batches :
       Projecting(w, r, rows) /\ st[r] = "open" /\ Over(rows, par[r]) = par[r]

RowsOf(f) == {Projection(f)[k] : k \in 1..Len(Projection(f))}

BuilderFits(w, b, st, par) ==
  /\ b.at = "publishing" => w.at = "publishing"
  /\ \/ b = Idle
     \/ \E r \in Revisions :
          /\ st[r] = "running"
          /\ \/ b \in {[at |-> "claimed", revision |-> r], [at |-> "failed", revision |-> r]}
             \/ \E a \in {"built", "publishing"}, rest \in Seq(RowsOf(par[r])), z \in BOOLEAN :
                  b = [at |-> a, revision |-> r, rest |-> rest, first |-> z]

(* x has the rows f, or all but those of a batch under way.                *)
Follows(f, w, r, par) ==
  f = par[r] \/ \E rows \in Batches : Projecting(w, r, rows) /\ Over(rows, f) = par[r]

IndexOf(f, m) == [parents |-> f, depths |-> m]

IndexesFit(idx, w, par) ==
  /\ idx = [r \in Revisions |-> idx[r]]
  /\ \A r \in Revisions : idx[r] # None =>
       \E f \in Parents : \E m, q :
         idx[r] = IndexOf(f, m) /\ Reached(f, m, q) /\ Follows(f, w, r, par)

PageIsTrue(page, f) ==
  \A s \in DOMAIN page :
    /\ page[s].depth \in DepthsOf(f, s)
    /\ (\E c \in DOMAIN f : HasValidParent(f, Layout(f), c) /\ f[c] = s) => page[s].children

(* A page not raced is of a finalized revision, whose rows stay; the rows  *)
(* a reader loaded are those an index may be made of unless it moved.      *)
Asks(ids, f) == ids \in Seq(Spans) /\ \A i \in 1..Len(ids) : ids[i] \in DOMAIN f

ReaderFits(rd, w, st, par, col) ==
  \/ rd = Idle
  \/ \E r \in Revisions, z \in BOOLEAN :
       /\ z \/ Finished(st, r)
       /\ \/ \E p \in BOOLEAN :
               /\ rd = [at |-> "checked", revision |-> r, persisted |-> p, raced |-> z]
               /\ p /\ ~z => HasAll(par, col, r)
          \/ \E page :
               /\ rd = [at |-> "answer", revision |-> r, raced |-> z, page |-> page]
               /\ z \/ PageIsTrue(page, par[r])
          \/ \E ids : Asks(ids, par[r]) /\
               \/ rd = [at |-> "asking", revision |-> r, ids |-> ids, raced |-> z]
               \/ \E v \in BOOLEAN :
                    \/ rd = [at |-> "missed", revision |-> r, ids |-> ids, raced |-> z,
                             moved |-> v]
                    \/ \E rows \in Parents :
                         /\ rd = [at |-> "loaded", revision |-> r, ids |-> ids, raced |-> z,
                                  moved |-> v, rows |-> rows]
                         /\ v \/ Follows(rows, w, r, par)

TreesInv ==
  /\ StoreFits(parent, column, status, announced)
  /\ WriterFits(writer, builder, status, parent)
  /\ BuilderFits(writer, builder, status, parent)
  /\ IndexesFit(index, writer, parent)
  /\ ReaderFits(reader, writer, status, parent, column)
  /\ unrecorded \subseteq Revisions /\ batches \in 0..MaxBatches /\ faults \in 0..MaxFaults

LEMMA OverKeeps ==
  ASSUME NEW rows \in Batches, NEW f \in Parents
  PROVE  /\ Over(rows, f) \in Parents /\ DOMAIN f \subseteq DOMAIN Over(rows, f)
         /\ Over(rows, Over(rows, f)) = Over(rows, f)
         /\ Over(f, <<>>) = f
<1>1. /\ DOMAIN rows \in SUBSET Spans
      /\ \A x \in DOMAIN rows : rows[x] \in Spans \cup {NoParent, Missing}
  BY TopologyAssumption DEF Range
<1>2. PICK S \in SUBSET Spans : f \in [S -> Spans \cup {NoParent, Missing}]
  BY DEF Parents
<1>3. Over(rows, f) \in [DOMAIN rows \cup S -> Spans \cup {NoParent, Missing}]
  BY <1>1, <1>2 DEF Over
<1>4. Over(rows, f) \in Parents
  <2>1. DOMAIN rows \cup S \in SUBSET Spans
    BY <1>1
  <2> QED BY <1>3, <2>1 DEF Parents
<1>5. Over(rows, Over(rows, f)) = Over(rows, f)
  BY DEF Over
<1>6. Over(f, <<>>) = f
  <2>1. DOMAIN <<>> = {}
    OBVIOUS
  <2>2. Over(f, <<>>) = [x \in S |-> f[x]]
    BY <1>2, <2>1 DEF Over
  <2> QED BY <1>2, <2>2
<1> QED BY <1>4, <1>5, <1>6 DEF Over

(* A tree is as complete with any columns that agree on its spans.         *)
LEMMA SameTree ==
  ASSUME NEW f \in Parents, NEW c, \A s \in DOMAIN f : c[s] = Columns(f)[s]
  PROVE  TreeIsComplete(f, c)
<1> DEFINE e == Columns(f)
<1>1. TreeIsComplete(f, e)
  BY TreesAreComplete
<1> HIDE DEF e
<1>2. \A s \in DOMAIN f : c[s] = e[s]
  BY DEF e
<1>3. RootPage(f, c) = RootPage(f, e) /\ \A p : ChildPage(f, c, p) = ChildPage(f, e, p)
  BY <1>2 DEF RootPage, ChildPage
<1>4. {c[s].order : s \in DOMAIN f} = {e[s].order : s \in DOMAIN f}
  BY <1>2
<1>5. \A p : \A s \in ChildPage(f, e, p) : s \in DOMAIN f
  BY DEF ChildPage
<1>6. {ChildPage(f, c, p) : p \in DOMAIN f} = {ChildPage(f, e, p) : p \in DOMAIN f}
  BY <1>3
<1>7. \A s \in DOMAIN f : c[s].depth > 0 => f[s] \in DOMAIN f /\ c[f[s]].depth = c[s].depth - 1
  BY <1>1, <1>2 DEF TreeIsComplete
<1>8. \A p \in DOMAIN f : c[p].children <=> ChildPage(f, c, p) # {}
  BY <1>1, <1>2, <1>3 DEF TreeIsComplete
<1>9. ASSUME NEW p \in DOMAIN f, NEW s \in ChildPage(f, c, p)
      PROVE  /\ c[p].order < c[s].order
             /\ \A x \in DOMAIN f : c[x].order \in c[p].order + 1 .. c[s].order
                  => c[x].depth > c[p].depth
  <2>1. s \in ChildPage(f, e, p) /\ s \in DOMAIN f
    BY <1>3, <1>5
  <2>2. /\ e[p].order < e[s].order
        /\ \A x \in DOMAIN f : e[x].order \in e[p].order + 1 .. e[s].order
             => e[x].depth > e[p].depth
    BY <1>1, <2>1 DEF TreeIsComplete
  <2> QED BY <1>2, <2>1, <2>2
<1>10. /\ {e[s].order : s \in DOMAIN f} = 1..Cardinality(DOMAIN f)
       /\ UNION ({RootPage(f, e)} \cup {ChildPage(f, e, p) : p \in DOMAIN f}) = DOMAIN f
  BY <1>1 DEF TreeIsComplete
<1> QED BY <1>3, <1>4, <1>6, <1>7, <1>8, <1>9, <1>10 DEF TreeIsComplete

(* A row of the projection is what its span gets.                          *)
LEMMA RowsAreColumns ==
  ASSUME NEW f \in Parents, NEW row \in RowsOf(f)
  PROVE  /\ row \in Rows /\ row.span \in DOMAIN f /\ row.span \in Spans
         /\ Columns(f)[row.span] = row
<1> DEFINE N == Cardinality(DOMAIN f)
           rows == Projection(f)
<1>1. rows \in Seq(Rows) /\ Len(rows) = N /\ \A k \in 1..N : rows[k].span \in DOMAIN f
  BY RowsAreProjected
<1>2. \A k \in 1..N : Columns(f)[rows[k].span] = rows[k]
  BY ColumnsAreRows
<1>3. PICK k \in 1..N : row = rows[k]
  BY <1>1 DEF RowsOf
<1> HIDE DEF rows, N
<1>4. row \in Rows
  BY <1>1, <1>3, ElementOfSeq
<1>5. DOMAIN f \in SUBSET Spans
  BY ParentsAreFinite
<1> QED BY <1>1, <1>2, <1>3, <1>4, <1>5

(* Columns that a page is made from.                                       *)
LEMMA ColumnsTell ==
  ASSUME NEW f \in Parents, NEW s \in DOMAIN f
  PROVE  LET c == Columns(f)[s]
         IN /\ c.depth = Layout(f)[s] /\ c.depth \in DepthsOf(f, s)
            /\ (\E x \in DOMAIN f : HasValidParent(f, Layout(f), x) /\ f[x] = s) <=> c.children
<1> DEFINE N == Cardinality(DOMAIN f)
           rows == Projection(f)
           d == Layout(f)
<1>1. \E k \in 1..N : rows[k].span = s
  BY RowsAreProjected
<1>2. PICK k \in 1..N : rows[k].span = s
  BY <1>1
<1>3. /\ rows[k].depth = d[rows[k].span]
      /\ rows[k].children <=> \E x \in DOMAIN f : d[x] > 0 /\ f[x] = rows[k].span
  BY RowsAreProjected
<1>4. Columns(f)[s] = rows[k]
  <2>1. Columns(f)[rows[k].span] = rows[k]
    BY ColumnsAreRows
  <2> HIDE DEF rows
  <2> QED BY <1>2, <2>1
<1>5. Deep(f, d) /\ d[s] \in DepthsOf(f, s)
  BY LayoutIsDeep DEF Deep
<1> HIDE DEF rows, d, N
<1>6. \A x \in DOMAIN f : HasValidParent(f, d, x) <=> d[x] > 0
  BY <1>5, ValidParents
<1>7. Columns(f)[s].depth = d[s]
  BY <1>2, <1>3, <1>4
<1>8. Columns(f)[s].children <=> \E x \in DOMAIN f : d[x] > 0 /\ f[x] = s
  BY <1>2, <1>3, <1>4
<1> QED BY <1>5, <1>6, <1>7, <1>8 DEF d

LEMMA ReachedNothing ==
  ASSUME NEW f \in Parents
  PROVE  Reached(f, <<>>, <<>>)
<1>1. Depths(f, <<>>) /\ Len(<<>>) = 0 /\ Len(<<>>) \in Nat
  BY NoDepths
<1>2. Resolved(f, <<>>, <<>>)[0] = <<>>
  <2>1. LET e == Resolved(f, <<>>, <<>>) IN e[0] = <<>>
    BY ONLY <1>1, f \in Parents, ResolvedSteps
  <2> QED BY <2>1
<1>3. ResolveAll(f, <<>>, <<>>) = <<>>
  BY <1>1, <1>2 DEF ResolveAll
<1>4. <<>> \in Seq(DOMAIN f) /\ Distinct(<<>>)
  BY DEF Distinct
<1> QED BY <1>3, <1>4 DEF Reached

-----------------------------------------------------------------------------
(* The store.                                                              *)

LEMMA CurrentIs ==
  ASSUME StoreFits(parent, column, status, announced)
  PROVE  Current \in Revisions /\ \A r \in Revisions : status[r] # "none" <=> r <= Current
<1>1. LastRevision \in Nat
  BY TopologyAssumption
<1>2. PICK c \in Revisions : \A r \in Revisions : status[r] # "none" <=> r <= c
  BY DEF StoreFits
<1>3. \A r \in Revisions : r \in Nat
  BY <1>1 DEF Revisions
<1>4. c \in Opened /\ \A r \in Opened : c >= r
  BY <1>2, <1>3 DEF Opened
<1>5. Current \in Opened /\ \A r \in Opened : Current >= r
  <2>1. Current = CHOOSE x \in Opened : \A y \in Opened : x >= y
    BY DEF Current, Max
  <2> QED BY <1>4, <2>1
<1>6. Current = c
  <2>1. Current >= c /\ c >= Current /\ Current \in Nat /\ c \in Nat
    BY <1>3, <1>4, <1>5 DEF Opened
  <2> QED BY <2>1
<1> QED BY <1>2, <1>6

(* The status of a revision moves on: nothing finished is opened again and *)
(* nothing becomes ready by it.                                            *)
LEMMA StatusMoves ==
  ASSUME NEW par, NEW col, NEW st, NEW ann, StoreFits(par, col, st, ann),
         NEW st2 \in [Revisions -> {"none", "open", "pending", "running", "ready"}],
         \A r \in Revisions : /\ st2[r] = "none" <=> st[r] = "none"
                              /\ Finished(st, r) => Finished(st2, r)
                              /\ st2[r] = "ready" => st[r] = "ready"
  PROVE  StoreFits(par, col, st2, ann)
<1>1. \E c \in Revisions : \A r \in Revisions : st2[r] # "none" <=> r <= c
  <2>1. PICK c \in Revisions : \A r \in Revisions : st[r] # "none" <=> r <= c
    BY DEF StoreFits
  <2> QED BY <2>1
<1>2. \A r \in Revisions : \A s \in Spans : col[r][s] # None =>
        Finished(st2, r) /\ s \in DOMAIN par[r] /\ col[r][s] = Columns(par[r])[s]
  BY DEF StoreFits
<1>3. \A r \in Revisions : st2[r] = "ready" =>
        /\ HasAll(par, col, r)
        /\ r \in ann \/ \E r2 \in Revisions : r < r2 /\ st2[r2] # "none"
  BY DEF StoreFits
<1> QED BY <1>1, <1>2, <1>3 DEF StoreFits

LEMMA BatchStores ==
  ASSUME NEW par, NEW col, NEW st, NEW ann, StoreFits(par, col, st, ann),
         NEW rows \in Batches, NEW r \in Revisions, NEW cur \in Revisions,
         \A x \in Revisions : st[x] # "none" <=> x <= cur,
         \/ r = cur /\ st[r] = "open"
         \/ r = cur + 1
  PROVE  /\ ~Finished(st, r)
         /\ StoreFits([par EXCEPT ![r] = Over(rows, @)],
                      [col EXCEPT ![r] = [s \in Spans |-> IF s \in DOMAIN rows THEN None
                                                        ELSE @[s]]],
                      [st EXCEPT ![r] = "open"], ann)
<1> DEFINE par2 == [par EXCEPT ![r] = Over(rows, @)]
           col2 == [col EXCEPT ![r] = [s \in Spans |-> IF s \in DOMAIN rows THEN None
                                                     ELSE @[s]]]
           st2 == [st EXCEPT ![r] = "open"]
<1>1. /\ par \in [Revisions -> Parents] /\ col \in [Revisions -> [Spans -> Rows \cup {None}]]
      /\ st \in [Revisions -> {"none", "open", "pending", "running", "ready"}]
      /\ ann \subseteq Revisions
  BY DEF StoreFits
<1>2. \A x \in Revisions : x \in Nat
  BY TopologyAssumption DEF Revisions
<1>3. st[r] \in {"none", "open"}
  <2>1. r = cur + 1 => ~(r <= cur)
    BY <1>2
  <2> QED BY <2>1
<1>4. par2 \in [Revisions -> Parents] /\ \A x \in Revisions \ {r} : par2[x] = par[x]
  <2>1. Over(rows, par[r]) \in Parents
    BY <1>1, OverKeeps
  <2> QED BY <1>1, <2>1
<1>5. /\ col2 \in [Revisions -> [Spans -> Rows \cup {None}]]
      /\ \A x \in Revisions \ {r} : col2[x] = col[x]
      /\ \A s \in Spans : col2[r][s] \in {None, col[r][s]}
  BY <1>1
<1>6. /\ st2 \in [Revisions -> {"none", "open", "pending", "running", "ready"}]
      /\ st2[r] = "open" /\ \A x \in Revisions \ {r} : st2[x] = st[x]
  BY <1>1
<1>7. \A s \in Spans : col2[r][s] = None
  <2>1. \A s \in Spans : col[r][s] = None
    BY <1>3 DEF StoreFits, Finished
  <2> QED BY <1>5, <2>1
<1> HIDE DEF par2, col2, st2
<1>8. \E c \in Revisions : \A x \in Revisions : st2[x] # "none" <=> x <= c
  <2>1. CASE r = cur
    <3>1. r <= cur
      BY <1>2, <2>1
    <3> QED BY <1>6, <3>1
  <2>2. CASE r = cur + 1
    <3>1. \A x \in Revisions : x <= r <=> x <= cur \/ x = r
      BY <1>2, <2>2
    <3> QED BY <1>6, <3>1
  <2> QED BY <2>1, <2>2
<1>9. \A x \in Revisions : \A s \in Spans : col2[x][s] # None =>
        Finished(st2, x) /\ s \in DOMAIN par2[x] /\ col2[x][s] = Columns(par2[x])[s]
  <2> SUFFICES ASSUME NEW x \in Revisions, NEW s \in Spans, col2[x][s] # None
               PROVE  Finished(st2, x) /\ s \in DOMAIN par2[x]
                      /\ col2[x][s] = Columns(par2[x])[s]
    OBVIOUS
  <2>1. x # r
    BY <1>7
  <2>2. Finished(st, x) /\ s \in DOMAIN par[x] /\ col[x][s] = Columns(par[x])[s]
    BY <1>5, <2>1 DEF StoreFits
  <2> QED BY <1>4, <1>5, <1>6, <2>1, <2>2 DEF Finished
<1>10. \A x \in Revisions : st2[x] = "ready" =>
         /\ HasAll(par2, col2, x)
         /\ x \in ann \/ \E r2 \in Revisions : x < r2 /\ st2[r2] # "none"
  <2> SUFFICES ASSUME NEW x \in Revisions, st2[x] = "ready"
               PROVE  /\ HasAll(par2, col2, x)
                      /\ x \in ann \/ \E r2 \in Revisions : x < r2 /\ st2[r2] # "none"
    OBVIOUS
  <2>1. x # r /\ st[x] = "ready"
    BY <1>6
  <2>2. /\ HasAll(par, col, x)
        /\ x \in ann \/ \E r2 \in Revisions : x < r2 /\ st[r2] # "none"
    BY <2>1 DEF StoreFits
  <2>3. HasAll(par2, col2, x)
    BY <1>4, <1>5, <2>1, <2>2 DEF HasAll
  <2>4. \A r2 \in Revisions : st[r2] # "none" => st2[r2] # "none"
    BY <1>6
  <2> QED BY <2>2, <2>3, <2>4
<1>11. StoreFits(par2, col2, st2, ann)
  BY <1>1, <1>4, <1>5, <1>6, <1>8, <1>9, <1>10 DEF StoreFits
<1> QED BY <1>3, <1>11 DEF Finished, par2, col2, st2

(* A chunk of a revision's own projection.                                 *)
LEMMA ChunkStores ==
  ASSUME NEW par, NEW col, NEW st, NEW ann, StoreFits(par, col, st, ann),
         NEW r \in Revisions, st[r] = "running",
         NEW chunk \in Seq(RowsOf(par[r])), NEW first \in BOOLEAN
  PROVE  LET col2 == [col EXCEPT ![r] = Written(@, chunk, first)]
         IN /\ StoreFits(par, col2, st, ann)
            /\ \A x \in Revisions : x # r \/ ~first =>
                 (HasAll(par, col, x) => HasAll(par, col2, x))
<1> DEFINE col2 == [col EXCEPT ![r] = Written(@, chunk, first)]
           new == Written(col[r], chunk, first)
           f == par[r]
<1>1. /\ par \in [Revisions -> Parents] /\ col \in [Revisions -> [Spans -> Rows \cup {None}]]
      /\ f \in Parents
  BY DEF StoreFits
<1>2. ASSUME NEW s \in Spans
      PROVE  \/ new[s] \in Rows /\ s \in DOMAIN f /\ new[s] = Columns(f)[s]
             \/ new[s] = None /\ first
             \/ new[s] = col[r][s] /\ ~first
  <2>1. new[s] = IF \E k \in DOMAIN chunk : chunk[k].span = s
                 THEN chunk[CHOOSE k \in DOMAIN chunk : chunk[k].span = s]
                 ELSE IF first THEN None ELSE col[r][s]
    BY DEF Written
  <2>2. ASSUME \E k \in DOMAIN chunk : chunk[k].span = s
        PROVE  new[s] \in Rows /\ s \in DOMAIN f /\ new[s] = Columns(f)[s]
    <3> DEFINE k == CHOOSE k \in DOMAIN chunk : chunk[k].span = s
    <3>1. k \in DOMAIN chunk /\ chunk[k].span = s
      BY <2>2
    <3>2. new[s] = chunk[k]
      BY <2>1, <2>2
    <3> HIDE DEF k, new, f
    <3>3. chunk[k] \in RowsOf(f)
      BY <3>1, ElementOfSeq, LenProperties DEF f
    <3>4. chunk[k] \in Rows /\ chunk[k].span \in DOMAIN f /\ Columns(f)[chunk[k].span] = chunk[k]
      BY <1>1, <3>3, RowsAreColumns
    <3> QED BY <3>1, <3>2, <3>4
  <2> HIDE DEF new, f
  <2> QED BY <2>1, <2>2
<1>3. col2 \in [Revisions -> [Spans -> Rows \cup {None}]] /\ col2[r] = new
      /\ \A x \in Revisions \ {r} : col2[x] = col[x]
  <2>1. new \in [Spans -> Rows \cup {None}]
    <3>1. new = [s \in Spans |-> new[s]]
      BY DEF Written
    <3> HIDE DEF new, f
    <3> QED BY <1>1, <1>2, <3>1
  <2>2. col2 = [col EXCEPT ![r] = new]
    OBVIOUS
  <2> HIDE DEF new, col2
  <2> QED BY <1>1, <2>1, <2>2
<1> HIDE DEF col2, new, f
<1>4. \A x \in Revisions : \A s \in Spans : col2[x][s] # None =>
        Finished(st, x) /\ s \in DOMAIN par[x] /\ col2[x][s] = Columns(par[x])[s]
  <2> SUFFICES ASSUME NEW x \in Revisions, NEW s \in Spans, col2[x][s] # None
               PROVE  Finished(st, x) /\ s \in DOMAIN par[x] /\ col2[x][s] = Columns(par[x])[s]
    OBVIOUS
  <2>1. CASE x # r
    BY <1>3, <2>1 DEF StoreFits
  <2>2. CASE x = r
    <3>1. Finished(st, x)
      BY <2>2 DEF Finished
    <3>2. CASE s \in DOMAIN f /\ new[s] = Columns(f)[s]
      BY <1>3, <2>2, <3>1, <3>2 DEF f
    <3>3. CASE new[s] = col[r][s]
      BY <1>3, <2>2, <3>3 DEF StoreFits
    <3> QED BY <1>2, <1>3, <2>2, <3>2, <3>3
  <2> QED BY <2>1, <2>2
<1>5. ASSUME NEW x \in Revisions, x # r \/ ~first, HasAll(par, col, x)
      PROVE  HasAll(par, col2, x)
  <2>1. CASE x # r
    BY <1>3, <1>5, <2>1 DEF HasAll
  <2>2. CASE x = r /\ ~first
    <3>1. DOMAIN f \in SUBSET Spans
      BY <1>1, ParentsAreFinite
    <3>2. ASSUME NEW s \in DOMAIN f PROVE new[s] # None
      <4>1. col[r][s] # None /\ s \in Spans
        BY <1>5, <2>2, <3>1 DEF HasAll, f
      <4>2. col[r][s] = Columns(f)[s]
        BY <4>1 DEF StoreFits, f
      <4> QED BY <1>2, <2>2, <4>1, <4>2
    <3> QED BY <1>3, <1>5, <2>2, <3>2 DEF HasAll, f
  <2> QED BY <1>5, <2>1, <2>2
<1>6. \A x \in Revisions : st[x] = "ready" =>
        /\ HasAll(par, col2, x)
        /\ x \in ann \/ \E r2 \in Revisions : x < r2 /\ st[r2] # "none"
  <2> SUFFICES ASSUME NEW x \in Revisions, st[x] = "ready"
               PROVE  /\ HasAll(par, col2, x)
                      /\ x \in ann \/ \E r2 \in Revisions : x < r2 /\ st[r2] # "none"
    OBVIOUS
  <2>1. x # r
    OBVIOUS
  <2>2. /\ HasAll(par, col, x)
        /\ x \in ann \/ \E r2 \in Revisions : x < r2 /\ st[r2] # "none"
    BY DEF StoreFits
  <2> QED BY <1>5, <2>1, <2>2
<1>7. StoreFits(par, col2, st, ann)
  BY <1>3, <1>4, <1>6 DEF StoreFits
<1> QED BY <1>5, <1>7 DEF col2

LEMMA PublishStores ==
  ASSUME NEW par, NEW col, NEW st, NEW ann, StoreFits(par, col, st, ann),
         NEW r \in Revisions, st[r] = "running", HasAll(par, col, r), NEW cur \in Revisions,
         \A x \in Revisions : st[x] # "none" <=> x <= cur
  PROVE  StoreFits(par, col, [st EXCEPT ![r] = "ready"],
                   IF r = cur THEN ann \cup {r} ELSE ann)
<1> DEFINE st2 == [st EXCEPT ![r] = "ready"]
           ann2 == IF r = cur THEN ann \cup {r} ELSE ann
<1>1. /\ st2 \in [Revisions -> {"none", "open", "pending", "running", "ready"}]
      /\ st2[r] = "ready" /\ \A x \in Revisions \ {r} : st2[x] = st[x]
      /\ ann2 \subseteq Revisions /\ ann \subseteq ann2 /\ (r = cur => r \in ann2)
  BY DEF StoreFits
<1> HIDE DEF st2, ann2
<1>2. \A x \in Revisions : st2[x] # "none" <=> st[x] # "none"
  BY <1>1
<1>3. \E c \in Revisions : \A x \in Revisions : st2[x] # "none" <=> x <= c
  BY <1>2
<1>4. \A x \in Revisions : \A s \in Spans : col[x][s] # None =>
        Finished(st2, x) /\ s \in DOMAIN par[x] /\ col[x][s] = Columns(par[x])[s]
  <2>1. \A x \in Revisions : Finished(st, x) => Finished(st2, x)
    BY <1>1 DEF Finished
  <2> QED BY <2>1 DEF StoreFits
<1>5. \A x \in Revisions : st2[x] = "ready" =>
        /\ HasAll(par, col, x)
        /\ x \in ann2 \/ \E r2 \in Revisions : x < r2 /\ st2[r2] # "none"
  <2> SUFFICES ASSUME NEW x \in Revisions, st2[x] = "ready"
               PROVE  /\ HasAll(par, col, x)
                      /\ x \in ann2 \/ \E r2 \in Revisions : x < r2 /\ st2[r2] # "none"
    OBVIOUS
  <2>1. CASE x # r
    <3>1. st[x] = "ready"
      BY <1>1, <2>1
    <3> QED BY <1>1, <1>2, <3>1 DEF StoreFits
  <2>2. CASE x = r
    <3>1. r < cur \/ r = cur
      <4>1. r \in Nat /\ cur \in Nat /\ r <= cur
        BY TopologyAssumption DEF Revisions
      <4> QED BY <4>1
    <3>2. st2[cur] # "none"
      <4>1. cur \in Nat
        BY TopologyAssumption DEF Revisions
      <4> QED BY <1>2, <4>1
    <3> QED BY <1>1, <2>2, <3>1, <3>2
  <2> QED BY <2>1, <2>2
<1>6. StoreFits(par, col, st2, ann2)
  BY <1>1, <1>3, <1>4, <1>5 DEF StoreFits
<1> QED BY <1>6 DEF st2, ann2

-----------------------------------------------------------------------------
(* The writer and the worker.                                              *)

LEMMA WriterStays ==
  ASSUME NEW w, NEW b, NEW st, NEW par, WriterFits(w, b, st, par),
         NEW b2, b.at = "publishing" => b2.at = "publishing"
  PROVE  WriterFits(w, b2, st, par)
BY DEF WriterFits

LEMMA BuilderStays ==
  ASSUME NEW w, NEW b, NEW st, NEW par, BuilderFits(w, b, st, par),
         NEW w2, w.at = "publishing" => w2.at = "publishing",
         NEW st2, NEW par2,
         \A r \in Revisions : st[r] = "running" => st2[r] = "running" /\ par2[r] = par[r]
  PROVE  BuilderFits(w2, b, st2, par2)
<1>1. b.at = "publishing" => w2.at = "publishing"
  BY DEF BuilderFits
<1>2. CASE b = Idle
  BY <1>1, <1>2 DEF BuilderFits
<1>3. CASE b # Idle
  <2>1. PICK r \in Revisions :
          /\ st[r] = "running"
          /\ \/ b \in {[at |-> "claimed", revision |-> r], [at |-> "failed", revision |-> r]}
             \/ \E a \in {"built", "publishing"}, rest \in Seq(RowsOf(par[r])), z \in BOOLEAN :
                  b = [at |-> a, revision |-> r, rest |-> rest, first |-> z]
    BY <1>3 DEF BuilderFits
  <2>2. st2[r] = "running" /\ par2[r] = par[r]
    BY <2>1
  <2> QED BY <1>1, <2>1, <2>2 DEF BuilderFits
<1> QED BY <1>2, <1>3

-----------------------------------------------------------------------------
(* The indexes.                                                            *)

(* A writer that is still in the batch it was in.                          *)
SameBatch(w, w2) == \A r, rows : Projecting(w, r, rows) => Projecting(w2, r, rows)

LEMMA FollowsOn ==
  ASSUME NEW w, NEW w2, SameBatch(w, w2), NEW f, NEW r, NEW par, Follows(f, w, r, par)
  PROVE  Follows(f, w2, r, par)
BY DEF Follows, SameBatch

LEMMA IndexesStay ==
  ASSUME NEW idx, NEW w, NEW par, IndexesFit(idx, w, par), NEW w2, SameBatch(w, w2)
  PROVE  IndexesFit(idx, w2, par)
<1> SUFFICES ASSUME NEW r \in Revisions, idx[r] # None
             PROVE  \E f \in Parents : \E m, q :
                      idx[r] = IndexOf(f, m) /\ Reached(f, m, q) /\ Follows(f, w2, r, par)
  BY DEF IndexesFit
<1>1. PICK f \in Parents : \E m, q :
        idx[r] = IndexOf(f, m) /\ Reached(f, m, q) /\ Follows(f, w, r, par)
  BY DEF IndexesFit
<1>2. Follows(f, w2, r, par)
  BY <1>1, FollowsOn
<1> QED BY <1>1, <1>2

(* What was the rows before a batch lacks just that batch afterwards.      *)
LEMMA FollowsBatch ==
  ASSUME NEW par \in [Revisions -> Parents], NEW r \in Revisions, NEW rows \in Batches,
         NEW w, Projecting(w, r, rows), NEW x \in Revisions
  PROVE  Follows(par[x], w, x, [par EXCEPT ![r] = Over(rows, @)])
<1> DEFINE par2 == [par EXCEPT ![r] = Over(rows, @)]
<1>1. CASE x = r
  <2>1. par2[x] = Over(rows, par[x])
    BY <1>1
  <2> QED BY <1>1, <2>1 DEF Follows
<1>2. CASE x # r
  BY <1>2 DEF Follows
<1> QED BY <1>1, <1>2

LEMMA FollowsFree ==
  ASSUME NEW f, NEW w, w = Free \/ w = [at |-> "publishing"], NEW r, NEW par,
         Follows(f, w, r, par)
  PROVE  f = par[r]
<1>1. \A x, rows : ~Projecting(w, x, rows)
  <2> SUFFICES ASSUME NEW x, NEW rows, Projecting(w, x, rows) PROVE FALSE
    OBVIOUS
  <2>1. w.at = "projecting"
    BY DEF Projecting
  <2>2. w.at = "free" \/ w.at = "publishing"
    BY DEF Free
  <2> QED BY <2>1, <2>2
<1> QED BY <1>1 DEF Follows

LEMMA BatchIndexes ==
  ASSUME NEW idx, NEW par \in [Revisions -> Parents], IndexesFit(idx, Free, par),
         NEW r \in Revisions, NEW rows \in Batches, NEW w, Projecting(w, r, rows)
  PROVE  IndexesFit(idx, w, [par EXCEPT ![r] = Over(rows, @)])
<1> DEFINE par2 == [par EXCEPT ![r] = Over(rows, @)]
<1> SUFFICES ASSUME NEW x \in Revisions, idx[x] # None
             PROVE  \E f \in Parents : \E m, q :
                      idx[x] = IndexOf(f, m) /\ Reached(f, m, q) /\ Follows(f, w, x, par2)
  BY DEF IndexesFit
<1>1. PICK f \in Parents : \E m, q :
        idx[x] = IndexOf(f, m) /\ Reached(f, m, q) /\ Follows(f, Free, x, par)
  BY DEF IndexesFit
<1>2. f = par[x]
  BY <1>1, FollowsFree
<1>3. Follows(f, w, x, par2)
  BY <1>2, FollowsBatch
<1> QED BY <1>1, <1>3

(* The update of the indexes ends a batch: what it holds are the rows.     *)
LEMMA UpdatedIndexes ==
  ASSUME NEW idx, NEW par \in [Revisions -> Parents], NEW w, IndexesFit(idx, w, par),
         NEW r \in Revisions, NEW rows \in Batches, Projecting(w, r, rows),
         Over(rows, par[r]) = par[r]
  PROVE  IndexesFit([idx EXCEPT ![r] = IF @ = None THEN None ELSE Apply(@, rows)], Free, par)
<1> DEFINE idx2 == [idx EXCEPT ![r] = IF @ = None THEN None ELSE Apply(@, rows)]
<1>1. /\ idx2 = [x \in Revisions |-> idx2[x]] /\ \A x \in Revisions \ {r} : idx2[x] = idx[x]
      /\ idx2[r] = IF idx[r] = None THEN None ELSE Apply(idx[r], rows)
  BY DEF IndexesFit
<1> HIDE DEF idx2
<1> SUFFICES ASSUME NEW x \in Revisions, idx2[x] # None
             PROVE  \E f \in Parents : \E m, q :
                      idx2[x] = IndexOf(f, m) /\ Reached(f, m, q) /\ Follows(f, Free, x, par)
  BY <1>1 DEF IndexesFit, idx2
<1>2. idx[x] # None
  BY <1>1
<1>0. PICK f \in Parents : \E m, q :
        idx[x] = IndexOf(f, m) /\ Reached(f, m, q) /\ Follows(f, w, x, par)
  BY <1>2 DEF IndexesFit
<1>3. PICK m, q : idx[x] = IndexOf(f, m) /\ Reached(f, m, q) /\ Follows(f, w, x, par)
  BY <1>0
<1>4. ASSUME NEW y, NEW more, Projecting(w, y, more) PROVE y = r /\ more = rows
  <2>1. w.revision = r /\ w.rows = rows
    BY DEF Projecting
  <2>2. w.revision = y /\ w.rows = more
    BY <1>4 DEF Projecting
  <2> QED BY <2>1, <2>2
<1>5. CASE x # r
  <2>1. Follows(f, Free, x, par)
    BY <1>3, <1>4, <1>5 DEF Follows
  <2> QED BY <1>1, <1>3, <1>5, <2>1
<1>6. CASE x = r
  <2>1. Over(rows, f) = par[r] /\ par[r] \in Parents
    BY <1>3, <1>4, <1>6 DEF Follows
  <2>2. idx2[r] = Apply(idx[r], rows) /\ idx[r] = IndexOf(f, m)
    BY <1>1, <1>2, <1>3, <1>6
  <2>3. Apply(IndexOf(f, m), rows) = IndexOf(par[r], IF par[r] = f THEN m ELSE <<>>)
    BY <2>1 DEF Apply, IndexOf
  <2>4. \E q2 : Reached(par[r], IF par[r] = f THEN m ELSE <<>>, q2)
    <3>1. Reached(par[r], <<>>, <<>>)
      BY <2>1, ReachedNothing
    <3> QED BY <1>3, <3>1
  <2>5. Follows(par[r], Free, x, par)
    BY <1>6 DEF Follows
  <2> QED BY <1>6, <2>1, <2>2, <2>3, <2>4, <2>5
<1> QED BY <1>5, <1>6

LEMMA NoIndex ==
  ASSUME NEW idx, NEW w, NEW par, IndexesFit(idx, w, par), NEW r \in Revisions
  PROVE  IndexesFit([idx EXCEPT ![r] = None], w, par)
BY DEF IndexesFit

(* An answer from an index: it has the spans asked for, and its depths and *)
(* markers are true of the rows it was made of.                            *)
LEMMA AnswerTells ==
  ASSUME NEW f \in Parents, NEW m, NEW q, Reached(f, m, q), NEW ids \in Seq(Spans)
  PROVE  LET x == Asked(IndexOf(f, m), ids)
         IN /\ \E m2, q2 : x = IndexOf(f, m2) /\ Reached(f, m2, q2)
            /\ Asks(ids, f) => PageIsTrue([s \in ToSet(ids) |-> Annotation(x, s)], f)
<1> DEFINE x == Asked(IndexOf(f, m), ids)
           m2 == ResolveAll(f, m, ids)
           page == [s \in ToSet(ids) |-> Annotation(x, s)]
<1>1. x = IndexOf(f, m2)
  BY DEF Asked, IndexOf
<1>2. Len(ids) \in Nat /\ DOMAIN ids = 1..Len(ids)
  BY LenProperties
<1>3. PICK q2 :
        /\ Reached(f, m2, q2)
        /\ \A i \in 1..Len(ids) : ids[i] \in DOMAIN f => \E k \in 1..Len(q2) : q2[k] = ids[i]
  <2>1. \E longer :
          /\ Reached(f, ResolveAll(f, m, ids), longer) /\ Extends(ResolveAll(f, m, ids), m)
          /\ \A i \in 1..Len(ids) : ids[i] \in DOMAIN f =>
               \E k \in 1..Len(longer) : longer[k] = ids[i]
    BY ONLY <1>2, f \in Parents, Reached(f, m, q), Reaching
  <2> HIDE DEF m2
  <2> QED BY ONLY <2>1 DEF m2
<1> HIDE DEF m2, x
<1>4. \A i \in 1..Len(q2) : q2[i] \in DOMAIN m2
  BY <1>3, ReachedIsDeep
<1>5. ASSUME Asks(ids, f) PROVE PageIsTrue(page, f)
  <2> SUFFICES ASSUME NEW s \in ToSet(ids)
               PROVE  /\ page[s].depth \in DepthsOf(f, s)
                      /\ (\E c \in DOMAIN f : HasValidParent(f, Layout(f), c) /\ f[c] = s)
                           => page[s].children
    BY DEF PageIsTrue
  <2>1. PICK i \in 1..Len(ids) : ids[i] = s
    BY <1>2 DEF ToSet
  <2>2. s \in DOMAIN m2
    BY <1>3, <1>4, <1>5, <2>1 DEF Asks
  <2>3. page[s] = [depth |-> m2[s], children |-> \E c \in DOMAIN f : f[c] = s]
    BY <1>1, <2>2 DEF Annotation, IndexOf
  <2>4. m2[s] \in DepthsOf(f, s)
    BY <1>3, <2>2, ReachedDepths
  <2> HIDE DEF page
  <2> QED BY <2>3, <2>4
<1> QED BY <1>1, <1>3, <1>5 DEF x

-----------------------------------------------------------------------------
(* The reader.                                                             *)

(* While nobody touches what it depends on, a reader is where it was: the  *)
(* rows of finished revisions stay, the others only grow, and whoever      *)
(* found complete columns still has them.                                  *)
LEMMA ReaderStays ==
  ASSUME NEW rd, NEW w, NEW st, NEW par, NEW col, ReaderFits(rd, w, st, par, col),
         NEW rd2 \in {rd, Moved(rd)}, NEW w2, NEW st2, NEW par2, NEW col2,
         \A r \in Revisions : /\ Finished(st, r) => Finished(st2, r) /\ par2[r] = par[r]
                              /\ DOMAIN par[r] \subseteq DOMAIN par2[r],
         rd.at = "checked" /\ ~rd.raced /\ HasAll(par, col, rd.revision)
           => HasAll(par2, col2, rd.revision),
         \/ rd2 = Moved(rd)
         \/ \A f \in Parents, r \in Revisions : Follows(f, w, r, par) => Follows(f, w2, r, par2)
  PROVE  ReaderFits(rd2, w2, st2, par2, col2)
<1>1. CASE rd = Idle
  <2>1. Moved(rd) = Idle
    <3>1. "moved" \notin DOMAIN Idle
      BY DEF Idle
    <3> QED BY <1>1, <3>1 DEF Moved
  <2> QED BY <1>1, <2>1 DEF ReaderFits
<1>2. CASE rd # Idle
  <2>1. PICK r \in Revisions : \E z \in BOOLEAN :
         /\ z \/ Finished(st, r)
         /\ \/ \E p \in BOOLEAN :
                 /\ rd = [at |-> "checked", revision |-> r, persisted |-> p, raced |-> z]
                 /\ p /\ ~z => HasAll(par, col, r)
            \/ \E page :
                 /\ rd = [at |-> "answer", revision |-> r, raced |-> z, page |-> page]
                 /\ z \/ PageIsTrue(page, par[r])
            \/ \E ids : Asks(ids, par[r]) /\
                 \/ rd = [at |-> "asking", revision |-> r, ids |-> ids, raced |-> z]
                 \/ \E v \in BOOLEAN :
                      \/ rd = [at |-> "missed", revision |-> r, ids |-> ids, raced |-> z,
                               moved |-> v]
                      \/ \E rows \in Parents :
                           /\ rd = [at |-> "loaded", revision |-> r, ids |-> ids, raced |-> z,
                                    moved |-> v, rows |-> rows]
                           /\ v \/ Follows(rows, w, r, par)
    BY <1>2 DEF ReaderFits
  <2>2. PICK z \in BOOLEAN :
         /\ z \/ Finished(st, r)
         /\ \/ \E p \in BOOLEAN :
                 /\ rd = [at |-> "checked", revision |-> r, persisted |-> p, raced |-> z]
                 /\ p /\ ~z => HasAll(par, col, r)
            \/ \E page :
                 /\ rd = [at |-> "answer", revision |-> r, raced |-> z, page |-> page]
                 /\ z \/ PageIsTrue(page, par[r])
            \/ \E ids : Asks(ids, par[r]) /\
                 \/ rd = [at |-> "asking", revision |-> r, ids |-> ids, raced |-> z]
                 \/ \E v \in BOOLEAN :
                      \/ rd = [at |-> "missed", revision |-> r, ids |-> ids, raced |-> z,
                               moved |-> v]
                      \/ \E rows \in Parents :
                           /\ rd = [at |-> "loaded", revision |-> r, ids |-> ids, raced |-> z,
                                    moved |-> v, rows |-> rows]
                           /\ v \/ Follows(rows, w, r, par)
    BY <2>1
  <2>3. z \/ (Finished(st2, r) /\ par2[r] = par[r])
    BY <2>2
  <2>4. ASSUME NEW p \in BOOLEAN,
               rd = [at |-> "checked", revision |-> r, persisted |-> p, raced |-> z],
               p /\ ~z => HasAll(par, col, r)
        PROVE  ReaderFits(rd2, w2, st2, par2, col2)
    <3>1. Moved(rd) = rd
      BY <2>4 DEF Moved
    <3>2. p /\ ~z => HasAll(par2, col2, r)
      <4>1. rd.at = "checked" /\ rd.raced = z /\ rd.revision = r
        BY <2>4
      <4> QED BY <2>4, <4>1
    <3>3. rd2 = [at |-> "checked", revision |-> r, persisted |-> p, raced |-> z]
      BY <2>4, <3>1
    <3> QED BY <2>3, <3>2, <3>3 DEF ReaderFits
  <2>5. ASSUME NEW page,
               rd = [at |-> "answer", revision |-> r, raced |-> z, page |-> page],
               z \/ PageIsTrue(page, par[r])
        PROVE  ReaderFits(rd2, w2, st2, par2, col2)
    <3>1. Moved(rd) = rd
      BY <2>5 DEF Moved
    <3>2. z \/ PageIsTrue(page, par2[r])
      BY <2>3, <2>5
    <3>3. rd2 = [at |-> "answer", revision |-> r, raced |-> z, page |-> page]
      BY <2>5, <3>1
    <3> QED BY <2>3, <3>2, <3>3 DEF ReaderFits
  <2>6. ASSUME NEW ids, Asks(ids, par[r]) PROVE Asks(ids, par2[r])
    <3>1. DOMAIN par[r] \subseteq DOMAIN par2[r]
      OBVIOUS
    <3> QED BY <2>6, <3>1 DEF Asks
  <2>7. ASSUME NEW ids, Asks(ids, par[r]),
               rd = [at |-> "asking", revision |-> r, ids |-> ids, raced |-> z]
        PROVE  ReaderFits(rd2, w2, st2, par2, col2)
    <3>1. Moved(rd) = rd
      BY <2>7 DEF Moved
    <3>2. rd2 = [at |-> "asking", revision |-> r, ids |-> ids, raced |-> z]
      BY <2>7, <3>1
    <3>3. Asks(ids, par2[r])
      BY <2>6, <2>7
    <3> QED BY <2>3, <3>2, <3>3 DEF ReaderFits
  <2>8. ASSUME NEW ids, Asks(ids, par[r]), NEW v \in BOOLEAN,
               rd = [at |-> "missed", revision |-> r, ids |-> ids, raced |-> z, moved |-> v]
        PROVE  ReaderFits(rd2, w2, st2, par2, col2)
    <3>1. Moved(rd) = [at |-> "missed", revision |-> r, ids |-> ids, raced |-> z, moved |-> TRUE]
      BY <2>8 DEF Moved
    <3>2. \E v2 \in BOOLEAN :
            rd2 = [at |-> "missed", revision |-> r, ids |-> ids, raced |-> z, moved |-> v2]
      BY <2>8, <3>1
    <3>3. Asks(ids, par2[r])
      BY <2>6, <2>8
    <3>4. r \in Revisions /\ z \in BOOLEAN
      OBVIOUS
    <3> QED BY ONLY <2>3, <3>2, <3>3, <3>4 DEF ReaderFits
  <2>9. ASSUME NEW ids, Asks(ids, par[r]), NEW v \in BOOLEAN, NEW rows \in Parents,
               rd = [at |-> "loaded", revision |-> r, ids |-> ids, raced |-> z, moved |-> v,
                     rows |-> rows],
               v \/ Follows(rows, w, r, par)
        PROVE  ReaderFits(rd2, w2, st2, par2, col2)
    <3>1. Moved(rd) = [at |-> "loaded", revision |-> r, ids |-> ids, raced |-> z,
                       moved |-> TRUE, rows |-> rows]
      BY <2>9 DEF Moved
    <3>2. \E v2 \in BOOLEAN :
            /\ rd2 = [at |-> "loaded", revision |-> r, ids |-> ids, raced |-> z,
                      moved |-> v2, rows |-> rows]
            /\ v2 \/ Follows(rows, w2, r, par2)
      <4>1. CASE rd2 = Moved(rd)
        <5>1. rd2 = [at |-> "loaded", revision |-> r, ids |-> ids, raced |-> z,
                     moved |-> TRUE, rows |-> rows]
          BY <3>1, <4>1
        <5> QED BY <5>1
      <4>2. CASE rd2 # Moved(rd)
        <5>1. rd2 = rd /\ (v \/ Follows(rows, w2, r, par2))
          BY <2>9, <4>2
        <5> QED BY <2>9, <5>1
      <4> QED BY <4>1, <4>2
    <3>3. Asks(ids, par2[r])
      BY <2>6, <2>9
    <3>4. r \in Revisions /\ z \in BOOLEAN /\ rows \in Parents
      OBVIOUS
    <3> QED BY ONLY <2>3, <3>2, <3>3, <3>4 DEF ReaderFits
  <2> QED BY <2>2, <2>4, <2>5, <2>7, <2>8, <2>9
<1> QED BY <1>1, <1>2

LEMMA RacedFits ==
  ASSUME NEW rd, NEW w, NEW st, NEW par, NEW col, ReaderFits(rd, w, st, par, col),
         rd.at = "checked", NEW col2
  PROVE  ReaderFits([rd EXCEPT !.raced = TRUE], w, st, par, col2)
<1>0. rd # Idle
  BY DEF Idle
<1>1. PICK r \in Revisions, z \in BOOLEAN : \E p \in BOOLEAN :
        rd = [at |-> "checked", revision |-> r, persisted |-> p, raced |-> z]
  BY <1>0 DEF ReaderFits
<1>2. PICK p \in BOOLEAN :
        rd = [at |-> "checked", revision |-> r, persisted |-> p, raced |-> z]
  BY <1>1
<1>3. [rd EXCEPT !.raced = TRUE]
        = [at |-> "checked", revision |-> r, persisted |-> p, raced |-> TRUE]
  <2>1. \A y, e : [[at |-> "checked", revision |-> r, persisted |-> y, raced |-> z]
                     EXCEPT !.raced = e]
                    = [at |-> "checked", revision |-> r, persisted |-> y, raced |-> e]
    OBVIOUS
  <2> QED BY <1>2, <2>1
<1> QED BY <1>3 DEF ReaderFits

-----------------------------------------------------------------------------
(* The steps.                                                              *)

LEMMA InvAfter ==
  ASSUME StoreFits(parent', column', status', announced'),
         WriterFits(writer', builder', status', parent'),
         BuilderFits(writer', builder', status', parent'),
         IndexesFit(index', writer', parent'),
         ReaderFits(reader', writer', status', parent', column'),
         unrecorded' \subseteq Revisions, batches' \in 0..MaxBatches, faults' \in 0..MaxFaults
  PROVE  TreesInv'
BY DEF TreesInv

LEMMA BatchKeeps ==
  ASSUME TreesInv, ProjectBatch
  PROVE  TreesInv'
<1>1. PICK r \in Revisions : \E rows \in Batches :
        /\ \/ r = Current /\ status[r] = "open"
           \/ r = Current + 1 /\ status[Current] # "open"
        /\ parent' = [parent EXCEPT ![r] = Over(rows, @)]
        /\ column' = [column EXCEPT ![r] = [s \in Spans |-> IF s \in DOMAIN rows THEN None
                                                          ELSE @[s]]]
        /\ status' = [status EXCEPT ![r] = "open"]
        /\ writer' = [at |-> "projecting", revision |-> r, rows |-> rows]
  BY DEF ProjectBatch
<1>2. PICK rows \in Batches :
        /\ \/ r = Current /\ status[r] = "open"
           \/ r = Current + 1 /\ status[Current] # "open"
        /\ parent' = [parent EXCEPT ![r] = Over(rows, @)]
        /\ column' = [column EXCEPT ![r] = [s \in Spans |-> IF s \in DOMAIN rows THEN None
                                                          ELSE @[s]]]
        /\ status' = [status EXCEPT ![r] = "open"]
        /\ writer' = [at |-> "projecting", revision |-> r, rows |-> rows]
  BY <1>1
<1>3. /\ writer = Free /\ batches < MaxBatches /\ batches' = batches + 1
      /\ announced' = announced /\ index' = index /\ builder' = builder /\ reader' = reader
      /\ unrecorded' = unrecorded /\ faults' = faults
  BY DEF ProjectBatch
<1>4. /\ StoreFits(parent, column, status, announced)
      /\ BuilderFits(writer, builder, status, parent)
      /\ IndexesFit(index, writer, parent)
      /\ ReaderFits(reader, writer, status, parent, column)
      /\ unrecorded \subseteq Revisions /\ batches \in 0..MaxBatches /\ faults \in 0..MaxFaults
  BY DEF TreesInv
<1>5. Current \in Revisions /\ \A x \in Revisions : status[x] # "none" <=> x <= Current
  BY <1>4, CurrentIs
<1>6. /\ ~Finished(status, r)
      /\ StoreFits(parent', column', status', announced')
  <2>1. \/ r = Current /\ status[r] = "open"
        \/ r = Current + 1
    BY <1>2
  <2>2. /\ ~Finished(status, r)
        /\ StoreFits([parent EXCEPT ![r] = Over(rows, @)],
                     [column EXCEPT ![r] = [s \in Spans |-> IF s \in DOMAIN rows THEN None
                                                           ELSE @[s]]],
                     [status EXCEPT ![r] = "open"], announced)
    BY <1>4, <1>5, <2>1, BatchStores
  <2> QED BY <1>2, <1>3, <2>2
<1>7. parent \in [Revisions -> Parents] /\ status = [x \in Revisions |-> status[x]]
  BY <1>4 DEF StoreFits
<1>8. /\ \A x \in Revisions \ {r} : status'[x] = status[x] /\ parent'[x] = parent[x]
      /\ status'[r] = "open" /\ parent'[r] = Over(rows, parent[r])
  BY <1>2, <1>7
<1>9. Projecting(writer', r, rows)
  BY <1>2 DEF Projecting
<1>10. WriterFits(writer', builder', status', parent')
  <2>1. Over(rows, parent'[r]) = parent'[r]
    BY <1>7, <1>8, OverKeeps
  <2> QED BY <1>8, <1>9, <2>1 DEF WriterFits
<1>11. BuilderFits(writer', builder', status', parent')
  <2>1. writer.at # "publishing"
    BY <1>3 DEF Free
  <2>2. \A x \in Revisions :
          status[x] = "running" => status'[x] = "running" /\ parent'[x] = parent[x]
    BY <1>6, <1>8 DEF Finished
  <2>3. BuilderFits(writer', builder, status', parent')
    BY <1>4, <2>1, <2>2, BuilderStays
  <2> QED BY <1>3, <2>3
<1>12. IndexesFit(index', writer', parent')
  <2>1. IndexesFit(index, writer', [parent EXCEPT ![r] = Over(rows, @)])
    BY <1>3, <1>4, <1>7, <1>9, BatchIndexes
  <2> QED BY <1>2, <1>3, <2>1
<1>13. ReaderFits(reader', writer', status', parent', column')
  <2>1. ASSUME NEW x \in Revisions
        PROVE  /\ Finished(status, x) => Finished(status', x) /\ parent'[x] = parent[x]
               /\ DOMAIN parent[x] \subseteq DOMAIN parent'[x]
    <3>1. CASE x = r
      <4>1. DOMAIN parent[r] \subseteq DOMAIN Over(rows, parent[r])
        BY <1>7, OverKeeps
      <4> QED BY <1>6, <1>8, <3>1, <4>1
    <3>2. CASE x # r
      BY <1>8, <3>2 DEF Finished
    <3> QED BY <3>1, <3>2
  <2>2. ASSUME reader.at = "checked", ~reader.raced,
               HasAll(parent, column, reader.revision)
        PROVE  HasAll(parent', column', reader.revision)
    <3>1. reader.revision \in Revisions /\ Finished(status, reader.revision)
      BY <1>4, <2>2 DEF ReaderFits, Idle
    <3>2. reader.revision # r
      BY <1>6, <3>1
    <3>3. column'[reader.revision] = column[reader.revision]
      BY <1>2, <1>4, <3>1, <3>2 DEF StoreFits
    <3> QED BY <1>8, <2>2, <3>1, <3>2, <3>3 DEF HasAll
  <2>3. ASSUME NEW f \in Parents, NEW x \in Revisions, Follows(f, writer, x, parent)
        PROVE  Follows(f, writer', x, parent')
    <3>1. f = parent[x]
      BY <1>3, <2>3, FollowsFree
    <3>2. Follows(parent[x], writer', x, [parent EXCEPT ![r] = Over(rows, @)])
      BY <1>7, <1>9, FollowsBatch
    <3> QED BY <1>2, <3>1, <3>2
  <2>4. reader' \in {reader, Moved(reader)}
    BY <1>3
  <2> QED BY <1>4, <2>1, <2>2, <2>3, <2>4, ReaderStays
<1>14. batches' \in 0..MaxBatches
  BY <1>3, <1>4, TopologyAssumption
<1> QED BY <1>3, <1>4, <1>6, <1>10, <1>11, <1>12, <1>13, <1>14, InvAfter

LEMMA ReaderRests ==
  ASSUME NEW rd, NEW w, NEW st, NEW par, NEW col, ReaderFits(rd, w, st, par, col),
         NEW w2, SameBatch(w, w2), NEW st2,
         \A r \in Revisions : Finished(st, r) => Finished(st2, r)
  PROVE  ReaderFits(rd, w2, st2, par, col)
<1>1. \A f \in Parents, r \in Revisions : Follows(f, w, r, par) => Follows(f, w2, r, par)
  BY FollowsOn
<1>2. rd \in {rd, Moved(rd)}
  OBVIOUS
<1>3. \A r \in Revisions : /\ Finished(st, r) => Finished(st2, r) /\ par[r] = par[r]
                           /\ DOMAIN par[r] \subseteq DOMAIN par[r]
  OBVIOUS
<1> QED BY <1>1, <1>2, <1>3, ReaderStays

LEMMA FreeIsNoBatch ==
  ASSUME NEW w, w = Free \/ w.at = "publishing", NEW w2
  PROVE  SameBatch(w, w2)
<1> SUFFICES ASSUME NEW r, NEW rows, Projecting(w, r, rows) PROVE FALSE
  BY DEF SameBatch
<1>1. w.at = "projecting"
  BY DEF Projecting
<1>2. w.at = "free" \/ w.at = "publishing"
  BY DEF Free
<1> QED BY <1>1, <1>2

LEMMA UpdateKeeps ==
  ASSUME TreesInv, UpdateIndexes
  PROVE  TreesInv'
<1>1. /\ writer.at = "projecting" /\ writer' = Free /\ reader' = Moved(reader)
      /\ index' = [index EXCEPT ![writer.revision] =
                     IF @ = None THEN None ELSE Apply(@, writer.rows)]
      /\ parent' = parent /\ column' = column /\ status' = status /\ announced' = announced
      /\ builder' = builder /\ unrecorded' = unrecorded /\ batches' = batches /\ faults' = faults
  BY DEF UpdateIndexes, storeVars, otherVars
<1>2. /\ StoreFits(parent, column, status, announced)
      /\ WriterFits(writer, builder, status, parent)
      /\ BuilderFits(writer, builder, status, parent)
      /\ IndexesFit(index, writer, parent)
      /\ ReaderFits(reader, writer, status, parent, column)
      /\ unrecorded \subseteq Revisions /\ batches \in 0..MaxBatches /\ faults \in 0..MaxFaults
  BY DEF TreesInv
<1>3. PICK r \in Revisions : \E rows \in Batches :
        Projecting(writer, r, rows) /\ status[r] = "open" /\ Over(rows, parent[r]) = parent[r]
  BY <1>1, <1>2 DEF WriterFits, Free
<1>4. PICK rows \in Batches :
        Projecting(writer, r, rows) /\ status[r] = "open" /\ Over(rows, parent[r]) = parent[r]
  BY <1>3
<1>5. writer.revision = r /\ writer.rows = rows
  BY <1>4 DEF Projecting
<1>6. parent \in [Revisions -> Parents]
  BY <1>2 DEF StoreFits
<1>7. IndexesFit(index', writer', parent')
  <2>1. IndexesFit([index EXCEPT ![r] = IF @ = None THEN None ELSE Apply(@, rows)], Free, parent)
    BY <1>2, <1>4, <1>6, UpdatedIndexes
  <2> QED BY <1>1, <1>5, <2>1
<1>8. WriterFits(writer', builder', status', parent')
  BY <1>1 DEF WriterFits
<1>9. BuilderFits(writer', builder', status', parent')
  <2>1. writer.at # "publishing"
    BY <1>1
  <2>2. BuilderFits(Free, builder, status, parent)
    BY <1>2, <2>1, BuilderStays
  <2> QED BY <1>1, <2>2
<1>10. ReaderFits(reader', writer', status', parent', column')
  <2>1. /\ Moved(reader) \in {reader, Moved(reader)}
        /\ \A x \in Revisions : /\ Finished(status, x) => Finished(status, x) /\ parent[x] = parent[x]
                                /\ DOMAIN parent[x] \subseteq DOMAIN parent[x]
    OBVIOUS
  <2>2. ReaderFits(Moved(reader), Free, status, parent, column)
    BY <1>2, <2>1, ReaderStays
  <2> QED BY <1>1, <2>2
<1>11. StoreFits(parent', column', status', announced')
  BY <1>1, <1>2
<1> QED BY <1>1, <1>2, <1>7, <1>8, <1>9, <1>10, <1>11, InvAfter

(* Steps that touch neither rows nor columns nor an index, and take a      *)
(* revision on from one status to another.                                 *)
LEMMA StatusStep ==
  ASSUME TreesInv, WriterFits(writer', builder', status', parent'),
         BuilderFits(writer', builder', status', parent'),
         status' \in [Revisions -> {"none", "open", "pending", "running", "ready"}],
         \A r \in Revisions : /\ status'[r] = "none" <=> status[r] = "none"
                              /\ Finished(status, r) => Finished(status', r)
                              /\ status'[r] = "ready" => status[r] = "ready",
         SameBatch(writer, writer'),
         parent' = parent, column' = column, announced' = announced, index' = index,
         reader' = reader, unrecorded' \subseteq Revisions, batches' = batches,
         faults' \in 0..MaxFaults
  PROVE  TreesInv'
<1>1. /\ StoreFits(parent, column, status, announced)
      /\ IndexesFit(index, writer, parent)
      /\ ReaderFits(reader, writer, status, parent, column)
      /\ batches \in 0..MaxBatches
  BY DEF TreesInv
<1>2. StoreFits(parent, column, status', announced)
  BY <1>1, StatusMoves
<1>3. IndexesFit(index, writer', parent)
  BY <1>1, IndexesStay
<1>4. ReaderFits(reader, writer', status', parent, column)
  BY <1>1, ReaderRests
<1>5. /\ StoreFits(parent', column', status', announced')
      /\ IndexesFit(index', writer', parent')
      /\ ReaderFits(reader', writer', status', parent', column')
      /\ batches' \in 0..MaxBatches
  BY <1>1, <1>2, <1>3, <1>4
<1> QED BY <1>5, InvAfter

LEMMA FinalizeKeeps ==
  ASSUME TreesInv, Finalize
  PROVE  TreesInv'
<1>1. /\ writer = Free /\ status[Current] = "open" /\ writer' = Free
      /\ status' = [status EXCEPT ![Current] = "pending"]
      /\ parent' = parent /\ column' = column /\ announced' = announced /\ index' = index
      /\ builder' = builder /\ reader' = reader /\ unrecorded' = unrecorded
      /\ batches' = batches /\ faults' = faults
  BY DEF Finalize, otherVars
<1>2. /\ StoreFits(parent, column, status, announced)
      /\ BuilderFits(writer, builder, status, parent)
      /\ unrecorded \subseteq Revisions /\ faults \in 0..MaxFaults
  BY DEF TreesInv
<1>3. Current \in Revisions
  BY <1>2, CurrentIs
<1>4. /\ status' \in [Revisions -> {"none", "open", "pending", "running", "ready"}]
      /\ status'[Current] = "pending" /\ \A r \in Revisions \ {Current} : status'[r] = status[r]
  BY <1>1, <1>2, <1>3 DEF StoreFits
<1>5. ASSUME NEW r \in Revisions
      PROVE  /\ status'[r] = "none" <=> status[r] = "none"
             /\ Finished(status, r) => Finished(status', r)
             /\ status'[r] = "ready" => status[r] = "ready"
             /\ status[r] = "running" => status'[r] = "running" /\ parent'[r] = parent[r]
  <2>1. CASE r = Current
    BY <1>1, <1>4, <2>1 DEF Finished
  <2>2. CASE r # Current
    BY <1>1, <1>4, <2>2 DEF Finished
  <2> QED BY <2>1, <2>2
<1>6. BuilderFits(writer', builder', status', parent')
  <2>1. BuilderFits(writer, builder, status', parent')
    BY <1>2, <1>5, BuilderStays
  <2> QED BY <1>1, <2>1
<1>7. WriterFits(writer', builder', status', parent')
  BY <1>1 DEF WriterFits
<1>8. SameBatch(writer, writer')
  BY <1>1, FreeIsNoBatch
<1> QED BY <1>1, <1>2, <1>4, <1>5, <1>6, <1>7, <1>8, StatusStep

LEMMA ClaimKeeps ==
  ASSUME TreesInv, Claim
  PROVE  TreesInv'
<1> DEFINE r == Min(Pending)
<1>1. /\ writer = Free /\ writer' = Free /\ Pending # {}
      /\ status' = [status EXCEPT ![r] = "running"]
      /\ builder' = [at |-> "claimed", revision |-> r]
      /\ parent' = parent /\ column' = column /\ announced' = announced /\ index' = index
      /\ reader' = reader /\ unrecorded' = unrecorded
      /\ batches' = batches /\ faults' = faults
  BY DEF Claim, otherVars
<1>2. /\ StoreFits(parent, column, status, announced)
      /\ unrecorded \subseteq Revisions /\ faults \in 0..MaxFaults
  BY DEF TreesInv
<1>3. r \in Revisions /\ status[r] = "pending"
  <2>1. Pending \in SUBSET Nat
    BY TopologyAssumption DEF Pending, Revisions
  <2>2. \E x \in Pending : \A y \in Pending : x <= y
    BY <1>1, <2>1, LeastElement
  <2>3. r \in Pending
    BY <2>2 DEF Min
  <2> HIDE DEF r
  <2> QED BY <2>3 DEF Pending
<1> HIDE DEF r
<1>4. /\ status' \in [Revisions -> {"none", "open", "pending", "running", "ready"}]
      /\ status'[r] = "running" /\ \A x \in Revisions \ {r} : status'[x] = status[x]
  BY <1>1, <1>2, <1>3 DEF StoreFits
<1>5. ASSUME NEW x \in Revisions
      PROVE  /\ status'[x] = "none" <=> status[x] = "none"
             /\ Finished(status, x) => Finished(status', x)
             /\ status'[x] = "ready" => status[x] = "ready"
  <2>1. CASE x = r
    BY <1>3, <1>4, <2>1 DEF Finished
  <2>2. CASE x # r
    BY <1>4, <2>2 DEF Finished
  <2> QED BY <2>1, <2>2
<1>6. BuilderFits(writer', builder', status', parent')
  BY <1>1, <1>3, <1>4 DEF BuilderFits
<1>7. WriterFits(writer', builder', status', parent')
  BY <1>1 DEF WriterFits
<1>8. SameBatch(writer, writer')
  BY <1>1, FreeIsNoBatch
<1> QED BY <1>1, <1>2, <1>4, <1>5, <1>6, <1>7, <1>8, StatusStep

(* The revision of a builder at work is running, and what it has left to   *)
(* write are rows of its projection.                                       *)
LEMMA BuilderAt ==
  ASSUME NEW w, NEW b, NEW st, NEW par, BuilderFits(w, b, st, par), b.at # "idle"
  PROVE  /\ b.revision \in Revisions /\ st[b.revision] = "running"
         /\ b.at \in {"built", "publishing"} =>
              \E rest \in Seq(RowsOf(par[b.revision])), z \in BOOLEAN :
                b = [at |-> b.at, revision |-> b.revision, rest |-> rest, first |-> z]
<1>1. b # Idle
  BY DEF Idle
<1>2. PICK r \in Revisions :
        /\ st[r] = "running"
        /\ \/ b \in {[at |-> "claimed", revision |-> r], [at |-> "failed", revision |-> r]}
           \/ \E a \in {"built", "publishing"}, rest \in Seq(RowsOf(par[r])), z \in BOOLEAN :
                b = [at |-> a, revision |-> r, rest |-> rest, first |-> z]
  BY <1>1 DEF BuilderFits
<1>3. b.revision = r
  BY <1>2
<1>4. ASSUME b.at \in {"built", "publishing"}
      PROVE  \E rest \in Seq(RowsOf(par[r])), z \in BOOLEAN :
               b = [at |-> b.at, revision |-> r, rest |-> rest, first |-> z]
  <2>1. \E a \in {"built", "publishing"}, rest \in Seq(RowsOf(par[r])), z \in BOOLEAN :
          b = [at |-> a, revision |-> r, rest |-> rest, first |-> z]
    BY <1>2, <1>4
  <2> QED BY <2>1
<1> QED BY <1>2, <1>3, <1>4

LEMMA BuildKeeps ==
  ASSUME TreesInv, Build
  PROVE  TreesInv'
<1>1. PICK t \in Trees :
        /\ t.of = parent[builder.revision]
        /\ builder' = [at |-> "built", revision |-> builder.revision, rest |-> t.rows,
                       first |-> TRUE]
  BY DEF Build
<1>2. /\ builder.at = "claimed" /\ writer' = writer /\ status' = status
      /\ parent' = parent /\ column' = column /\ announced' = announced /\ index' = index
      /\ reader' = reader /\ unrecorded' = unrecorded
      /\ batches' = batches /\ faults' = faults
  BY DEF Build, storeVars, otherVars
<1>3. /\ StoreFits(parent, column, status, announced)
      /\ WriterFits(writer, builder, status, parent)
      /\ BuilderFits(writer, builder, status, parent)
      /\ unrecorded \subseteq Revisions /\ faults \in 0..MaxFaults
  BY DEF TreesInv
<1> DEFINE r == builder.revision
           rest == t.rows
<1>4. r \in Revisions /\ status[r] = "running"
  BY <1>2, <1>3, BuilderAt
<1>5. rest = Projection(parent[r]) /\ parent[r] \in Parents
  <2>1. PICK f \in Parents : t = [of |-> f, rows |-> Projection(f)]
    BY DEF Trees
  <2> QED BY <1>1, <2>1
<1>6. rest \in Seq(RowsOf(parent[r]))
  <2>1. rest \in Seq(Rows)
    BY <1>5, RowsAreProjected
  <2>2. \A k \in 1..Len(rest) : rest[k] \in RowsOf(parent[r])
    BY <1>5 DEF RowsOf
  <2>3. Len(rest) \in Nat /\ rest = [k \in 1..Len(rest) |-> rest[k]]
    BY <2>1, LenProperties
  <2> HIDE DEF rest, r
  <2>4. rest \in [1..Len(rest) -> RowsOf(parent[r])]
    BY <2>2, <2>3
  <2> QED BY <2>3, <2>4
<1> HIDE DEF rest, r
<1>7. BuilderFits(writer', builder', status', parent')
  <2>1. builder' = [at |-> "built", revision |-> r, rest |-> rest, first |-> TRUE]
    BY <1>1 DEF rest, r
  <2>2. builder'.at # "publishing"
    BY <2>1
  <2> QED BY <1>2, <1>4, <1>6, <2>1, <2>2 DEF BuilderFits
<1>8. WriterFits(writer', builder', status', parent')
  <2>1. WriterFits(writer, builder', status, parent)
    BY <1>2, <1>3, WriterStays
  <2> QED BY <1>2, <2>1
<1>9. SameBatch(writer, writer')
  BY <1>2 DEF SameBatch
<1>10. status' \in [Revisions -> {"none", "open", "pending", "running", "ready"}]
  BY <1>2, <1>3 DEF StoreFits
<1> QED BY <1>2, <1>3, <1>7, <1>8, <1>9, <1>10, StatusStep

LEMMA RestOfBuild ==
  ASSUME NEW r, NEW rest, NEW z, NEW more, NEW y, NEW b,
         b = [at |-> "built", revision |-> r, rest |-> rest, first |-> z]
  PROVE  [b EXCEPT !.rest = more, !.first = y]
           = [at |-> "built", revision |-> r, rest |-> more, first |-> y]
<1>1. [b EXCEPT !.rest = more] = [at |-> "built", revision |-> r, rest |-> more, first |-> z]
  OBVIOUS
<1>2. \A c : c = [at |-> "built", revision |-> r, rest |-> more, first |-> z] =>
        [c EXCEPT !.first = y] = [at |-> "built", revision |-> r, rest |-> more, first |-> y]
  OBVIOUS
<1>3. [[b EXCEPT !.rest = more] EXCEPT !.first = y] = [b EXCEPT !.rest = more, !.first = y]
  OBVIOUS
<1> QED BY <1>1, <1>2, <1>3

LEMMA ChunkKeeps ==
  ASSUME TreesInv, WriteChunk
  PROVE  TreesInv'
<1> DEFINE r == builder.revision
           chunk == Chunk
<1>1. /\ writer = Free /\ builder.at = "built"
      /\ column' = [column EXCEPT ![r] = Written(@, chunk, builder.first)]
      /\ reader' = IF builder.first /\ reader.at = "checked" /\ reader.revision = r
                   THEN [reader EXCEPT !.raced = TRUE] ELSE reader
      /\ \/ /\ writer' = [at |-> "publishing"]
            /\ builder' = [builder EXCEPT !.at = "publishing"]
         \/ /\ builder' = [builder EXCEPT !.rest = SubSeq(@, ChunkRows + 1, Len(@)),
                                          !.first = FALSE]
            /\ writer' = writer
      /\ parent' = parent /\ status' = status /\ announced' = announced /\ index' = index
      /\ unrecorded' = unrecorded /\ batches' = batches /\ faults' = faults
  BY DEF WriteChunk, otherVars
<1>2. /\ StoreFits(parent, column, status, announced)
      /\ WriterFits(writer, builder, status, parent)
      /\ BuilderFits(writer, builder, status, parent)
      /\ IndexesFit(index, writer, parent)
      /\ ReaderFits(reader, writer, status, parent, column)
      /\ unrecorded \subseteq Revisions /\ batches \in 0..MaxBatches /\ faults \in 0..MaxFaults
  BY DEF TreesInv
<1>3. r \in Revisions /\ status[r] = "running"
  BY <1>1, <1>2, BuilderAt
<1>4. PICK rest \in Seq(RowsOf(parent[r])) : \E z \in BOOLEAN :
        builder = [at |-> "built", revision |-> r, rest |-> rest, first |-> z]
  BY <1>1, <1>2, BuilderAt
<1>5. PICK first \in BOOLEAN :
        builder = [at |-> "built", revision |-> r, rest |-> rest, first |-> first]
  BY <1>4
<1>6. builder.rest = rest /\ builder.first = first
  BY <1>5
<1>7. chunk \in Seq(RowsOf(parent[r]))
  <2>1. ChunkRows \in Nat \ {0}
    BY TopologyAssumption
  <2>2. chunk = SubSeq(rest, 1, Min({ChunkRows, Len(rest)}))
    BY <1>6 DEF Chunk
  <2>3. Len(rest) \in Nat
    BY LenProperties
  <2>4. Min({ChunkRows, Len(rest)}) \in {ChunkRows, Len(rest)}
        /\ Min({ChunkRows, Len(rest)}) <= Len(rest)
    <3>1. \E x \in {ChunkRows, Len(rest)} : \A y \in {ChunkRows, Len(rest)} : x <= y
      <4>1. ChunkRows <= Len(rest) \/ Len(rest) <= ChunkRows
        BY <2>1, <2>3
      <4> QED BY <2>1, <2>3, <4>1
    <3> QED BY <3>1 DEF Min
  <2> DEFINE n == Min({ChunkRows, Len(rest)})
  <2>5. n \in Int /\ 1 \in Int /\ n <= Len(rest)
    BY <2>1, <2>3, <2>4
  <2> HIDE DEF n
  <2>6. \A i \in 1..n : rest[i] \in RowsOf(parent[r])
    <3>1. \A i \in 1..n : i \in 1..Len(rest)
      BY <2>3, <2>5
    <3> QED BY <3>1, ElementOfSeq
  <2>7. SubSeq(rest, 1, n) \in Seq(RowsOf(parent[r]))
    BY <2>5, <2>6, SubSeqProperties
  <2> QED BY <2>2, <2>7 DEF n
<1> HIDE DEF chunk
<1>8. /\ StoreFits(parent, column', status, announced)
      /\ \A x \in Revisions : x # r \/ ~first =>
           (HasAll(parent, column, x) => HasAll(parent, column', x))
  <2>1. LET col2 == [column EXCEPT ![r] = Written(@, chunk, first)]
        IN /\ StoreFits(parent, col2, status, announced)
           /\ \A x \in Revisions : x # r \/ ~first =>
                (HasAll(parent, column, x) => HasAll(parent, col2, x))
    <3> HIDE DEF r
    <3> QED BY <1>2, <1>3, <1>7, ChunkStores
  <2>2. column' = [column EXCEPT ![r] = Written(@, chunk, first)]
    BY <1>1, <1>6
  <2> QED BY <2>1, <2>2
<1>9. SameBatch(writer, writer')
  BY <1>1, FreeIsNoBatch
<1>10. ReaderFits(reader', writer', status, parent, column')
  <2>1. ReaderFits(reader, writer', status, parent, column)
    BY <1>2, <1>9, ReaderRests
  <2>2. CASE first /\ reader.at = "checked" /\ reader.revision = r
    <3>1. ReaderFits([reader EXCEPT !.raced = TRUE], writer', status, parent, column')
      BY <2>1, <2>2, RacedFits
    <3>2. reader' = [reader EXCEPT !.raced = TRUE]
      BY <1>1, <1>6, <2>2
    <3> QED BY <3>1, <3>2
  <2>3. CASE ~(first /\ reader.at = "checked" /\ reader.revision = r)
    <3>1. reader' = reader
      BY <1>1, <1>6, <2>3
    <3>2. ASSUME reader.at = "checked", ~reader.raced, HasAll(parent, column, reader.revision)
          PROVE  HasAll(parent, column', reader.revision)
      <4>1. reader.revision \in Revisions
        BY <1>2, <3>2 DEF ReaderFits, Idle
      <4>2. reader.revision # r \/ ~first
        BY <2>3, <3>2
      <4> QED BY <1>8, <3>2, <4>1, <4>2
    <3>3. /\ reader \in {reader, Moved(reader)}
          /\ \A x \in Revisions :
               /\ Finished(status, x) => Finished(status, x) /\ parent[x] = parent[x]
               /\ DOMAIN parent[x] \subseteq DOMAIN parent[x]
          /\ \A f \in Parents, x \in Revisions :
               Follows(f, writer', x, parent) => Follows(f, writer', x, parent)
      OBVIOUS
    <3>4. ReaderFits(reader, writer', status, parent, column')
      BY <2>1, <3>2, <3>3, ReaderStays
    <3> QED BY <3>1, <3>4
  <2> QED BY <2>2, <2>3
<1>11. IndexesFit(index', writer', parent')
  <2>1. IndexesFit(index, writer', parent)
    BY <1>2, <1>9, IndexesStay
  <2> QED BY <1>1, <2>1
<1>12. /\ WriterFits(writer', builder', status', parent')
       /\ BuilderFits(writer', builder', status', parent')
  <2>1. CASE writer' = [at |-> "publishing"] /\ builder' = [builder EXCEPT !.at = "publishing"]
    <3>1. builder' = [at |-> "publishing", revision |-> r, rest |-> rest, first |-> first]
      <4>1. \A e : [[at |-> "built", revision |-> r, rest |-> rest, first |-> e]
                      EXCEPT !.at = "publishing"]
                     = [at |-> "publishing", revision |-> r, rest |-> rest, first |-> e]
        OBVIOUS
      <4> HIDE DEF r
      <4> QED BY <1>5, <2>1, <4>1
    <3>2. builder'.at = "publishing" /\ writer'.at = "publishing"
      BY <2>1, <3>1
    <3>3. WriterFits(writer', builder', status', parent')
      BY <2>1, <3>2 DEF WriterFits
    <3> HIDE DEF r
    <3>4. BuilderFits(writer', builder', status', parent')
      BY <1>1, <1>3, <3>1, <3>2 DEF BuilderFits
    <3> QED BY <3>3, <3>4
  <2>2. CASE /\ writer' = writer
             /\ builder' = [builder EXCEPT !.rest = SubSeq(@, ChunkRows + 1, Len(@)),
                                           !.first = FALSE]
    <3> DEFINE more == SubSeq(rest, ChunkRows + 1, Len(rest))
    <3>1. builder' = [at |-> "built", revision |-> r, rest |-> more, first |-> FALSE]
      <4>2. builder' = [builder EXCEPT !.rest = more, !.first = FALSE]
        BY <1>6, <2>2
      <4> HIDE DEF r, more
      <4> QED BY <1>5, <4>2, RestOfBuild
    <3>2. more \in Seq(RowsOf(parent[r]))
      <4>1. ChunkRows + 1 \in Int /\ Len(rest) \in Int /\ ChunkRows \in Nat /\ Len(rest) \in Nat
        BY TopologyAssumption, LenProperties
      <4>2. \A i \in (ChunkRows + 1)..Len(rest) : rest[i] \in RowsOf(parent[r])
        <5>1. \A i \in (ChunkRows + 1)..Len(rest) : i \in 1..Len(rest)
          BY <4>1
        <5> QED BY <5>1, ElementOfSeq
      <4> QED BY <4>1, <4>2, SubSeqProperties
    <3> HIDE DEF more, r
    <3>3. builder'.at # "publishing"
      BY <3>1
    <3>4. WriterFits(writer', builder', status', parent')
      BY <1>1, <2>2 DEF WriterFits
    <3>5. BuilderFits(writer', builder', status', parent')
      BY <1>1, <1>3, <3>1, <3>2, <3>3 DEF BuilderFits
    <3> QED BY <3>4, <3>5
  <2> QED BY <1>1, <2>1, <2>2
<1>13. /\ StoreFits(parent', column', status', announced')
       /\ ReaderFits(reader', writer', status', parent', column')
       /\ unrecorded' \subseteq Revisions /\ batches' \in 0..MaxBatches /\ faults' \in 0..MaxFaults
  BY <1>1, <1>2, <1>8, <1>10
<1> QED BY <1>11, <1>12, <1>13, InvAfter

LEMMA PublishKeeps ==
  ASSUME TreesInv, Publish
  PROVE  TreesInv'
<1> DEFINE r == builder.revision
<1>1. /\ writer.at = "publishing" /\ Persisted(r) /\ status[r] = "running"
      /\ status' = [status EXCEPT ![r] = "ready"]
      /\ announced' = (IF r = Current THEN announced \cup {r} ELSE announced)
      /\ index' = [index EXCEPT ![r] = None]
      /\ reader' = Moved(reader) /\ writer' = Free /\ builder' = Idle
      /\ parent' = parent /\ column' = column
      /\ unrecorded' = unrecorded /\ batches' = batches /\ faults' = faults
  BY DEF Publish, otherVars
<1>2. /\ StoreFits(parent, column, status, announced)
      /\ WriterFits(writer, builder, status, parent)
      /\ BuilderFits(writer, builder, status, parent)
      /\ IndexesFit(index, writer, parent)
      /\ ReaderFits(reader, writer, status, parent, column)
      /\ unrecorded \subseteq Revisions /\ batches \in 0..MaxBatches /\ faults \in 0..MaxFaults
  BY DEF TreesInv
<1>3. builder.at = "publishing"
  BY <1>1, <1>2 DEF WriterFits, Free, Projecting
<1>4. r \in Revisions
  BY <1>2, <1>3, BuilderAt
<1>5. Current \in Revisions /\ \A x \in Revisions : status[x] # "none" <=> x <= Current
  BY <1>2, CurrentIs
<1>6. StoreFits(parent', column', status', announced')
  <2>1. HasAll(parent, column, r)
    BY <1>1 DEF Persisted, HasAll
  <2> HIDE DEF r
  <2>2. StoreFits(parent, column, [status EXCEPT ![r] = "ready"],
                  IF r = Current THEN announced \cup {r} ELSE announced)
    BY <1>1, <1>2, <1>4, <1>5, <2>1, PublishStores
  <2> QED BY <1>1, <2>2
<1> HIDE DEF r
<1>7. \A x \in Revisions : Finished(status, x) => Finished(status', x)
  <2>1. status = [x \in Revisions |-> status[x]]
    BY <1>2 DEF StoreFits
  <2> QED BY <1>1, <1>4, <2>1 DEF Finished
<1>8. SameBatch(writer, writer')
  BY <1>1, FreeIsNoBatch
<1>9. IndexesFit(index', writer', parent')
  <2>1. IndexesFit([index EXCEPT ![r] = None], writer, parent)
    BY <1>2, <1>4, NoIndex
  <2>2. IndexesFit([index EXCEPT ![r] = None], writer', parent)
    BY <1>8, <2>1, IndexesStay
  <2> QED BY <1>1, <2>2
<1>10. ReaderFits(reader', writer', status', parent', column')
  <2>1. /\ Moved(reader) \in {reader, Moved(reader)}
        /\ \A x \in Revisions :
             /\ Finished(status, x) => Finished(status', x) /\ parent[x] = parent[x]
             /\ DOMAIN parent[x] \subseteq DOMAIN parent[x]
    BY <1>7
  <2>2. ReaderFits(Moved(reader), writer', status', parent, column)
    BY <1>2, <2>1, ReaderStays
  <2> QED BY <1>1, <2>2
<1>11. WriterFits(writer', builder', status', parent')
  BY <1>1 DEF WriterFits
<1>12. BuilderFits(writer', builder', status', parent')
  BY <1>1 DEF BuilderFits, Idle
<1> QED BY <1>1, <1>2, <1>6, <1>9, <1>10, <1>11, <1>12, InvAfter

LEMMA ChunkFailsKeeps ==
  ASSUME TreesInv, ChunkFails
  PROVE  TreesInv'
<1>1. /\ faults < MaxFaults /\ faults' = faults + 1
      /\ builder.at \in {"claimed", "built", "publishing"}
      /\ builder.at # "publishing" => writer' = writer
      /\ builder.at = "publishing" => writer' = Free
      /\ builder' = [at |-> "failed", revision |-> builder.revision]
      /\ status' = status /\ parent' = parent /\ column' = column /\ announced' = announced
      /\ index' = index /\ reader' = reader /\ unrecorded' = unrecorded /\ batches' = batches
  BY DEF ChunkFails, storeVars
<1>2. /\ StoreFits(parent, column, status, announced)
      /\ WriterFits(writer, builder, status, parent)
      /\ BuilderFits(writer, builder, status, parent)
      /\ unrecorded \subseteq Revisions /\ faults \in 0..MaxFaults
  BY DEF TreesInv
<1>3. builder.revision \in Revisions /\ status[builder.revision] = "running"
  BY <1>1, <1>2, BuilderAt
<1>4. BuilderFits(writer', builder', status', parent')
  <2>1. builder'.at # "publishing"
    BY <1>1
  <2> QED BY <1>1, <1>3, <2>1 DEF BuilderFits
<1>5. WriterFits(writer', builder', status', parent') /\ SameBatch(writer, writer')
  <2>1. CASE builder.at = "publishing"
    <3>1. writer.at = "publishing" /\ writer' = Free
      BY <1>1, <1>2, <2>1 DEF BuilderFits
    <3>2. WriterFits(writer', builder', status', parent')
      BY <3>1 DEF WriterFits
    <3> QED BY <3>1, <3>2, FreeIsNoBatch
  <2>2. CASE builder.at # "publishing"
    <3>1. WriterFits(writer, builder', status, parent)
      BY <1>2, <2>2, WriterStays
    <3>2. SameBatch(writer, writer')
      BY <1>1, <2>2 DEF SameBatch
    <3> QED BY <1>1, <2>2, <3>1, <3>2
  <2> QED BY <2>1, <2>2
<1>6. /\ status' \in [Revisions -> {"none", "open", "pending", "running", "ready"}]
      /\ faults' \in 0..MaxFaults
  <2>1. status' \in [Revisions -> {"none", "open", "pending", "running", "ready"}]
    BY <1>1, <1>2 DEF StoreFits
  <2>2. faults' \in 0..MaxFaults
    BY <1>1, <1>2, TopologyAssumption
  <2> QED BY <2>1, <2>2
<1> QED BY <1>1, <1>2, <1>4, <1>5, <1>6, StatusStep

LEMMA RecordFailureKeeps ==
  ASSUME TreesInv, RecordFailure
  PROVE  TreesInv'
<1> DEFINE r == builder.revision
<1>1. /\ writer = Free /\ builder.at = "failed" /\ writer' = Free /\ builder' = Idle
      /\ status' = [status EXCEPT ![r] = "pending"]
      /\ parent' = parent /\ column' = column /\ announced' = announced /\ index' = index
      /\ reader' = reader /\ unrecorded' = unrecorded /\ batches' = batches /\ faults' = faults
  BY DEF RecordFailure, otherVars
<1>2. /\ StoreFits(parent, column, status, announced)
      /\ BuilderFits(writer, builder, status, parent)
      /\ unrecorded \subseteq Revisions /\ faults \in 0..MaxFaults
  BY DEF TreesInv
<1>3. r \in Revisions /\ status[r] = "running"
  BY <1>1, <1>2, BuilderAt
<1> HIDE DEF r
<1>4. /\ status' \in [Revisions -> {"none", "open", "pending", "running", "ready"}]
      /\ status'[r] = "pending" /\ \A x \in Revisions \ {r} : status'[x] = status[x]
  BY <1>1, <1>2, <1>3 DEF StoreFits
<1>5. ASSUME NEW x \in Revisions
      PROVE  /\ status'[x] = "none" <=> status[x] = "none"
             /\ Finished(status, x) => Finished(status', x)
             /\ status'[x] = "ready" => status[x] = "ready"
  <2>1. CASE x = r
    BY <1>3, <1>4, <2>1 DEF Finished
  <2>2. CASE x # r
    BY <1>4, <2>2 DEF Finished
  <2> QED BY <2>1, <2>2
<1>6. BuilderFits(writer', builder', status', parent')
  BY <1>1 DEF BuilderFits, Idle
<1>7. WriterFits(writer', builder', status', parent')
  BY <1>1 DEF WriterFits
<1>8. SameBatch(writer, writer')
  BY <1>1, FreeIsNoBatch
<1> QED BY <1>1, <1>2, <1>4, <1>5, <1>6, <1>7, <1>8, StatusStep

LEMMA RecordFailsKeeps ==
  ASSUME TreesInv, RecordFails
  PROVE  TreesInv'
<1>1. /\ faults < MaxFaults /\ faults' = faults + 1 /\ builder.at = "failed"
      /\ builder' = Idle /\ writer' = writer
      /\ unrecorded' = unrecorded \cup {builder.revision}
      /\ status' = status /\ parent' = parent /\ column' = column /\ announced' = announced
      /\ index' = index /\ reader' = reader /\ batches' = batches
  BY DEF RecordFails, storeVars
<1>2. /\ StoreFits(parent, column, status, announced)
      /\ WriterFits(writer, builder, status, parent)
      /\ BuilderFits(writer, builder, status, parent)
      /\ unrecorded \subseteq Revisions /\ faults \in 0..MaxFaults
  BY DEF TreesInv
<1>3. builder.revision \in Revisions
  BY <1>1, <1>2, BuilderAt
<1>4. BuilderFits(writer', builder', status', parent')
  BY <1>1 DEF BuilderFits, Idle
<1>5. WriterFits(writer', builder', status', parent') /\ SameBatch(writer, writer')
  <2>1. WriterFits(writer, builder', status, parent)
    BY <1>1, <1>2, WriterStays
  <2>2. SameBatch(writer, writer')
    BY <1>1 DEF SameBatch
  <2> QED BY <1>1, <2>1, <2>2
<1>6. status' \in [Revisions -> {"none", "open", "pending", "running", "ready"}]
  BY <1>1, <1>2 DEF StoreFits
<1>7. faults' \in 0..MaxFaults
  BY <1>1, <1>2, TopologyAssumption
<1>8. unrecorded' \subseteq Revisions
  BY <1>1, <1>2, <1>3
<1> QED BY <1>1, <1>4, <1>5, <1>6, <1>7, <1>8, StatusStep

LEMMA RestartKeeps ==
  ASSUME TreesInv, Restart
  PROVE  TreesInv'
<1>1. /\ faults < MaxFaults /\ faults' = faults + 1
      /\ status' = [r \in Revisions |-> IF status[r] = "running" THEN "pending" ELSE status[r]]
      /\ index' = [r \in Revisions |-> None]
      /\ writer' = Free /\ builder' = Idle /\ reader' = Idle /\ unrecorded' = {}
      /\ parent' = parent /\ column' = column /\ announced' = announced /\ batches' = batches
  BY DEF Restart
<1>2. /\ StoreFits(parent, column, status, announced)
      /\ batches \in 0..MaxBatches /\ faults \in 0..MaxFaults
  BY DEF TreesInv
<1>3. StoreFits(parent', column', status', announced')
  <2>1. status' \in [Revisions -> {"none", "open", "pending", "running", "ready"}]
    BY <1>1, <1>2 DEF StoreFits
  <2>2. \A r \in Revisions : /\ status'[r] = "none" <=> status[r] = "none"
                             /\ Finished(status, r) => Finished(status', r)
                             /\ status'[r] = "ready" => status[r] = "ready"
    BY <1>1 DEF Finished
  <2>3. StoreFits(parent, column, status', announced)
    BY <1>2, <2>1, <2>2, StatusMoves
  <2> QED BY <1>1, <2>3
<1>4. IndexesFit(index', writer', parent')
  BY <1>1 DEF IndexesFit
<1>5. /\ WriterFits(writer', builder', status', parent')
      /\ BuilderFits(writer', builder', status', parent')
      /\ ReaderFits(reader', writer', status', parent', column')
  BY <1>1 DEF WriterFits, BuilderFits, ReaderFits, Idle
<1>6. faults' \in 0..MaxFaults /\ batches' \in 0..MaxBatches /\ unrecorded' \subseteq Revisions
  BY <1>1, <1>2, TopologyAssumption
<1> QED BY <1>3, <1>4, <1>5, <1>6, InvAfter

(* A step of the reader.                                                   *)
LEMMA ReaderStep ==
  ASSUME TreesInv, UNCHANGED <<storeVars, writer, builder, otherVars>>,
         IndexesFit(index', writer, parent),
         ReaderFits(reader', writer, status, parent, column)
  PROVE  TreesInv'
<1>1. /\ parent' = parent /\ column' = column /\ status' = status /\ announced' = announced
      /\ writer' = writer /\ builder' = builder
      /\ unrecorded' = unrecorded /\ batches' = batches /\ faults' = faults
  BY DEF storeVars, otherVars
<1>2. /\ StoreFits(parent, column, status, announced)
      /\ WriterFits(writer, builder, status, parent)
      /\ BuilderFits(writer, builder, status, parent)
      /\ unrecorded \subseteq Revisions /\ batches \in 0..MaxBatches /\ faults \in 0..MaxFaults
  BY DEF TreesInv
<1>3. /\ StoreFits(parent', column', status', announced')
      /\ WriterFits(writer', builder', status', parent')
      /\ BuilderFits(writer', builder', status', parent')
      /\ IndexesFit(index', writer', parent')
      /\ ReaderFits(reader', writer', status', parent', column')
      /\ unrecorded' \subseteq Revisions /\ batches' \in 0..MaxBatches /\ faults' \in 0..MaxFaults
  BY <1>1, <1>2
<1> QED BY <1>3, InvAfter

LEMMA CheckPersistedKeeps ==
  ASSUME TreesInv, CheckPersisted
  PROVE  TreesInv'
<1>1. PICK r \in Opened :
        reader' = [at |-> "checked", revision |-> r, persisted |-> Persisted(r),
                   raced |-> status[r] = "open"]
  BY DEF CheckPersisted
<1>2. index' = index /\ UNCHANGED <<storeVars, writer, builder, otherVars>>
  BY DEF CheckPersisted
<1>3. IndexesFit(index, writer, parent)
  BY DEF TreesInv
<1>4. r \in Revisions /\ status[r] # "none"
  BY DEF Opened
<1>5. ReaderFits(reader', writer, status, parent, column)
  <2> DEFINE p == Persisted(r)
             z == status[r] = "open"
  <2>1. p \in BOOLEAN /\ z \in BOOLEAN
    BY DEF Persisted
  <2>2. z \/ Finished(status, r)
    BY <1>4 DEF Finished
  <2>3. p => HasAll(parent, column, r)
    BY DEF Persisted, HasAll
  <2>4. reader' = [at |-> "checked", revision |-> r, persisted |-> p, raced |-> z]
    BY <1>1
  <2> HIDE DEF p, z
  <2> QED BY <1>4, <2>1, <2>2, <2>3, <2>4 DEF ReaderFits
<1> QED BY <1>2, <1>3, <1>5, ReaderStep

LEMMA ReadRowsKeeps ==
  ASSUME TreesInv, ReadRows
  PROVE  TreesInv'
<1>1. /\ reader.at = "checked" /\ index' = index
      /\ UNCHANGED <<storeVars, writer, builder, otherVars>>
  BY DEF ReadRows
<1>2. /\ IndexesFit(index, writer, parent)
      /\ StoreFits(parent, column, status, announced)
      /\ ReaderFits(reader, writer, status, parent, column)
  BY DEF TreesInv
<1>3. PICK r \in Revisions, z \in BOOLEAN :
        /\ z \/ Finished(status, r)
        /\ \E p \in BOOLEAN :
             /\ reader = [at |-> "checked", revision |-> r, persisted |-> p, raced |-> z]
             /\ p /\ ~z => HasAll(parent, column, r)
  BY <1>1, <1>2 DEF ReaderFits, Idle
<1>4. PICK p \in BOOLEAN :
        /\ reader = [at |-> "checked", revision |-> r, persisted |-> p, raced |-> z]
        /\ p /\ ~z => HasAll(parent, column, r)
  BY <1>3
<1>5. reader.revision = r /\ reader.persisted = p /\ reader.raced = z
  BY <1>4
<1> DEFINE f == parent[r]
           page(S) == [s \in S |-> IF column[r][s] = None THEN [depth |-> 0, children |-> FALSE]
                                   ELSE [depth |-> column[r][s].depth,
                                         children |-> column[r][s].children]]
<1>6. PICK S \in {DOMAIN f} \cup {{s} : s \in DOMAIN f} :
        reader' = IF p THEN [at |-> "answer", revision |-> r, raced |-> z, page |-> page(S)]
                  ELSE [at |-> "asking", revision |-> r, ids |-> InOrder(S), raced |-> z]
  <2>1. PICK S \in {DOMAIN f} \cup {{s} : s \in DOMAIN f} :
          reader' = IF reader.persisted
                    THEN [at |-> "answer", revision |-> r, raced |-> reader.raced,
                          page |-> page(S)]
                    ELSE [at |-> "asking", revision |-> r, ids |-> InOrder(S),
                          raced |-> reader.raced]
    BY <1>5 DEF ReadRows
  <2> HIDE DEF page
  <2> QED BY <1>5, <2>1
<1>7. f \in Parents /\ S \in SUBSET DOMAIN f
  BY <1>2 DEF StoreFits
<1>8. CASE p
  <2>1. ASSUME ~z PROVE PageIsTrue(page(S), f)
    <3> SUFFICES ASSUME NEW s \in S
                 PROVE  /\ page(S)[s].depth \in DepthsOf(f, s)
                        /\ (\E c \in DOMAIN f : HasValidParent(f, Layout(f), c) /\ f[c] = s)
                             => page(S)[s].children
      BY DEF PageIsTrue
    <3>1. s \in DOMAIN f /\ s \in Spans
      BY <1>7, ParentsAreFinite
    <3>2. column[r][s] # None
      BY <1>4, <1>8, <2>1, <3>1 DEF HasAll
    <3>3. column[r][s] = Columns(f)[s]
      BY <1>2, <3>1, <3>2 DEF StoreFits
    <3>4. page(S)[s] = [depth |-> column[r][s].depth, children |-> column[r][s].children]
      BY <3>2
    <3> HIDE DEF page, f
    <3>5. /\ Columns(f)[s].depth \in DepthsOf(f, s)
          /\ (\E c \in DOMAIN f : HasValidParent(f, Layout(f), c) /\ f[c] = s)
               => Columns(f)[s].children
      BY <1>7, <3>1, ColumnsTell
    <3> QED BY <3>3, <3>4, <3>5
  <2>2. reader' = [at |-> "answer", revision |-> r, raced |-> z, page |-> page(S)]
    BY <1>6, <1>8
  <2> HIDE DEF page
  <2>3. ReaderFits(reader', writer, status, parent, column)
    BY <1>3, <2>1, <2>2 DEF ReaderFits
  <2> QED BY <1>1, <1>2, <2>3, ReaderStep
<1>9. CASE ~p
  <2> DEFINE ids == InOrder(S)
  <2>1. reader' = [at |-> "asking", revision |-> r, ids |-> ids, raced |-> z]
    BY <1>6, <1>9
  <2>2. Asks(ids, f)
    <3>1. /\ DOMAIN f \in SUBSET Spans /\ DOMAIN f \in SUBSET Nat /\ IsFiniteSet(DOMAIN f)
      BY <1>7, ParentsAreFinite
    <3> HIDE DEF f
    <3>2. ids \in Seq(DOMAIN f) /\ \A k \in 1..Len(ids) : ids[k] \in S
      BY <1>7, <3>1, ListsSubset
    <3> HIDE DEF ids
    <3>3. ids \in Seq(Spans)
      BY <3>1, <3>2, SeqMonotonic
    <3> QED BY <1>7, <3>2, <3>3 DEF Asks
  <2> HIDE DEF ids
  <2>3. ReaderFits(reader', writer, status, parent, column)
    BY <1>3, <2>1, <2>2 DEF ReaderFits
  <2> QED BY <1>1, <1>2, <2>3, ReaderStep
<1> QED BY <1>8, <1>9

(* A reader that asks the index.                                           *)
LEMMA AskerAt ==
  ASSUME NEW rd, NEW w, NEW st, NEW par, NEW col, ReaderFits(rd, w, st, par, col),
         rd.at \in {"asking", "missed", "loaded"}
  PROVE  /\ rd.revision \in Revisions /\ rd.raced \in BOOLEAN
         /\ rd.raced \/ Finished(st, rd.revision)
         /\ Asks(rd.ids, par[rd.revision])
         /\ rd.at \in {"missed", "loaded"} => rd.moved \in BOOLEAN
         /\ rd.at = "loaded" =>
              rd.rows \in Parents /\ (rd.moved \/ Follows(rd.rows, w, rd.revision, par))
<1>1. rd # Idle
  BY DEF Idle
<1>2. PICK r \in Revisions, z \in BOOLEAN :
        /\ z \/ Finished(st, r)
        /\ \E ids : Asks(ids, par[r]) /\
             \/ rd = [at |-> "asking", revision |-> r, ids |-> ids, raced |-> z]
             \/ \E v \in BOOLEAN :
                  \/ rd = [at |-> "missed", revision |-> r, ids |-> ids, raced |-> z,
                           moved |-> v]
                  \/ \E rows \in Parents :
                       /\ rd = [at |-> "loaded", revision |-> r, ids |-> ids, raced |-> z,
                                moved |-> v, rows |-> rows]
                       /\ v \/ Follows(rows, w, r, par)
  BY <1>1 DEF ReaderFits
<1>3. PICK ids : Asks(ids, par[r]) /\
             \/ rd = [at |-> "asking", revision |-> r, ids |-> ids, raced |-> z]
             \/ \E v \in BOOLEAN :
                  \/ rd = [at |-> "missed", revision |-> r, ids |-> ids, raced |-> z,
                           moved |-> v]
                  \/ \E rows \in Parents :
                       /\ rd = [at |-> "loaded", revision |-> r, ids |-> ids, raced |-> z,
                                moved |-> v, rows |-> rows]
                       /\ v \/ Follows(rows, w, r, par)
  BY <1>2
<1>4. rd.revision = r /\ rd.raced = z /\ rd.ids = ids
  BY <1>3
<1>5. rd.at \in {"missed", "loaded"} => rd.moved \in BOOLEAN
  BY <1>3
<1>6. rd.at = "loaded" => rd.rows \in Parents /\ (rd.moved \/ Follows(rd.rows, w, r, par))
  BY <1>3
<1> QED BY <1>2, <1>3, <1>4, <1>5, <1>6

(* A batch is under way in an open revision only.                          *)
LEMMA BatchIsOpen ==
  ASSUME NEW w, NEW b, NEW st, NEW par, WriterFits(w, b, st, par), NEW r, NEW rows,
         Projecting(w, r, rows)
  PROVE  st[r] = "open"
<1>1. w.at = "projecting" /\ w.revision = r
  BY DEF Projecting
<1>2. PICK x \in Revisions : \E more \in Batches : Projecting(w, x, more) /\ st[x] = "open"
  BY <1>1 DEF WriterFits, Free
<1>3. x = r
  BY <1>1, <1>2 DEF Projecting
<1> QED BY <1>2, <1>3

LEMMA AnswerKeeps ==
  ASSUME TreesInv, UNCHANGED <<storeVars, writer, builder, otherVars>>,
         reader.at \in {"asking", "loaded"},
         NEW f \in Parents, NEW m, NEW q, Reached(f, m, q),
         Follows(f, writer, reader.revision, parent),
         Answer(IndexOf(f, m), reader.revision, reader.ids)
  PROVE  TreesInv'
<1> DEFINE r == reader.revision
           ids == reader.ids
           z == reader.raced
           x == Asked(IndexOf(f, m), ids)
           page == [s \in ToSet(ids) |-> Annotation(x, s)]
<1>1. /\ index' = [index EXCEPT ![r] = x]
      /\ reader' = [at |-> "answer", revision |-> r, raced |-> z, page |-> page]
  BY DEF Answer
<1>2. /\ IndexesFit(index, writer, parent)
      /\ WriterFits(writer, builder, status, parent)
      /\ ReaderFits(reader, writer, status, parent, column)
  BY DEF TreesInv
<1>3. /\ r \in Revisions /\ z \in BOOLEAN /\ (z \/ Finished(status, r)) /\ Asks(ids, parent[r])
  BY <1>2, AskerAt
<1>4. ids \in Seq(Spans)
  BY <1>3 DEF Asks
<1>5. /\ \E m2, q2 : x = IndexOf(f, m2) /\ Reached(f, m2, q2)
      /\ Asks(ids, f) => PageIsTrue(page, f)
  <2> HIDE DEF ids
  <2> QED BY <1>4, AnswerTells
<1>6. PICK m2, q2 : x = IndexOf(f, m2) /\ Reached(f, m2, q2)
  BY <1>5
<1> HIDE DEF x, page, ids, z, r
<1>7. Follows(f, writer, r, parent)
  BY DEF r
<1>8. IndexesFit(index', writer, parent)
  <2>1. /\ index' = [y \in Revisions |-> index'[y]]
        /\ index'[r] = x /\ \A y \in Revisions \ {r} : index'[y] = index[y]
    BY <1>1, <1>2, <1>3 DEF IndexesFit
  <2> SUFFICES ASSUME NEW y \in Revisions, index'[y] # None
               PROVE  \E e \in Parents : \E n, o :
                        index'[y] = IndexOf(e, n) /\ Reached(e, n, o)
                        /\ Follows(e, writer, y, parent)
    BY <2>1 DEF IndexesFit
  <2>2. CASE y = r
    BY <1>6, <1>7, <2>1, <2>2
  <2>3. CASE y # r
    BY <1>2, <2>1, <2>3 DEF IndexesFit
  <2> QED BY <2>2, <2>3
<1>9. z \/ PageIsTrue(page, parent[r])
  <2> SUFFICES ASSUME ~z PROVE PageIsTrue(page, parent[r])
    OBVIOUS
  <2>1. Finished(status, r)
    BY <1>3
  <2>2. f = parent[r]
    <3>1. \A rows : ~Projecting(writer, r, rows)
      BY <1>2, <2>1, BatchIsOpen DEF Finished
    <3> QED BY <1>7, <3>1 DEF Follows
  <2> QED BY <1>3, <1>5, <2>2
<1>10. ReaderFits(reader', writer, status, parent, column)
  BY <1>1, <1>3, <1>9 DEF ReaderFits
<1> QED BY <1>8, <1>10, ReaderStep

LEMMA AskIndexKeeps ==
  ASSUME TreesInv, AskIndex
  PROVE  TreesInv'
<1> DEFINE r == reader.revision
<1>1. reader.at = "asking" /\ UNCHANGED <<storeVars, writer, builder, otherVars>>
  BY DEF AskIndex, otherVars
<1>2. /\ IndexesFit(index, writer, parent)
      /\ ReaderFits(reader, writer, status, parent, column)
  BY DEF TreesInv
<1>3. /\ r \in Revisions /\ reader.raced \in BOOLEAN
      /\ reader.raced \/ Finished(status, r)
      /\ Asks(reader.ids, parent[r])
  BY <1>1, <1>2, AskerAt
<1>4. CASE index[r] # None
  <2>1. Answer(index[r], r, reader.ids)
    BY <1>4 DEF AskIndex
  <2>2. PICK f \in Parents : \E m, q :
          index[r] = IndexOf(f, m) /\ Reached(f, m, q) /\ Follows(f, writer, r, parent)
    BY <1>2, <1>3, <1>4 DEF IndexesFit
  <2>3. PICK m, q : index[r] = IndexOf(f, m) /\ Reached(f, m, q) /\ Follows(f, writer, r, parent)
    BY <2>2
  <2>4. Answer(IndexOf(f, m), r, reader.ids)
    BY <2>1, <2>3
  <2> QED BY <1>1, <2>3, <2>4, AnswerKeeps
<1>5. CASE index[r] = None
  <2>1. /\ index' = index
        /\ reader' = [at |-> "missed", revision |-> r, ids |-> reader.ids,
                      raced |-> reader.raced, moved |-> FALSE]
    BY <1>5 DEF AskIndex
  <2> HIDE DEF r
  <2>2. ReaderFits(reader', writer, status, parent, column)
    BY <1>3, <2>1 DEF ReaderFits
  <2> QED BY <1>1, <1>2, <2>1, <2>2, ReaderStep
<1> QED BY <1>4, <1>5

LEMMA LoadRowsKeeps ==
  ASSUME TreesInv, LoadRows
  PROVE  TreesInv'
<1> DEFINE r == reader.revision
<1>1. /\ reader.at = "missed" /\ index' = index
      /\ UNCHANGED <<storeVars, writer, builder, otherVars>>
      /\ reader' = [at |-> "loaded", revision |-> r, ids |-> reader.ids,
                    raced |-> reader.raced, moved |-> reader.moved, rows |-> parent[r]]
  BY DEF LoadRows
<1>2. /\ IndexesFit(index, writer, parent)
      /\ StoreFits(parent, column, status, announced)
      /\ ReaderFits(reader, writer, status, parent, column)
  BY DEF TreesInv
<1>3. /\ r \in Revisions /\ reader.raced \in BOOLEAN /\ reader.moved \in BOOLEAN
      /\ reader.raced \/ Finished(status, r)
      /\ Asks(reader.ids, parent[r])
  BY <1>1, <1>2, AskerAt
<1> HIDE DEF r
<1>4. parent[r] \in Parents /\ Follows(parent[r], writer, r, parent)
  BY <1>2, <1>3 DEF StoreFits, Follows
<1>5. ReaderFits(reader', writer, status, parent, column)
  BY <1>1, <1>3, <1>4 DEF ReaderFits
<1> QED BY <1>1, <1>2, <1>5, ReaderStep

LEMMA FillIndexKeeps ==
  ASSUME TreesInv, FillIndex
  PROVE  TreesInv'
<1> DEFINE r == reader.revision
<1>1. reader.at = "loaded" /\ UNCHANGED <<storeVars, writer, builder, otherVars>>
  BY DEF FillIndex
<1>2. /\ IndexesFit(index, writer, parent)
      /\ ReaderFits(reader, writer, status, parent, column)
  BY DEF TreesInv
<1>3. /\ r \in Revisions /\ reader.raced \in BOOLEAN
      /\ reader.raced \/ Finished(status, r)
      /\ Asks(reader.ids, parent[r])
      /\ reader.moved \in BOOLEAN /\ reader.rows \in Parents
      /\ reader.moved \/ Follows(reader.rows, writer, r, parent)
  BY <1>1, <1>2, AskerAt
<1>4. CASE reader.moved
  <2>1. /\ index' = index
        /\ reader' = [at |-> "asking", revision |-> r, ids |-> reader.ids,
                      raced |-> reader.raced]
    BY <1>4 DEF FillIndex
  <2> HIDE DEF r
  <2>2. ReaderFits(reader', writer, status, parent, column)
    BY <1>3, <2>1 DEF ReaderFits
  <2> QED BY <1>1, <1>2, <2>1, <2>2, ReaderStep
<1>5. CASE ~reader.moved /\ index[r] = None
  <2>1. Answer(FromRows(reader.rows), r, reader.ids)
    BY <1>5 DEF FillIndex
  <2>2. FromRows(reader.rows) = IndexOf(reader.rows, <<>>)
    <3>1. Over(reader.rows, <<>>) = reader.rows
      <4>1. ASSUME NEW f \in Parents PROVE Over(f, <<>>) = f
        <5>1. f = [x \in DOMAIN f |-> f[x]]
          BY ParentsAreFinite
        <5>2. DOMAIN <<>> = {}
          OBVIOUS
        <5>3. Over(f, <<>>) = [x \in DOMAIN f |-> f[x]]
          BY <5>2 DEF Over
        <5> QED BY <5>1, <5>3
      <4> QED BY <1>3, <4>1
    <3>2. FromRows(reader.rows)
            = [parents |-> Over(reader.rows, <<>>),
               depths |-> IF Over(reader.rows, <<>>) = <<>> THEN <<>> ELSE <<>>]
      BY DEF FromRows, Apply
    <3>3. (IF Over(reader.rows, <<>>) = <<>> THEN <<>> ELSE <<>>) = <<>>
      OBVIOUS
    <3> QED BY <3>1, <3>2, <3>3 DEF IndexOf
  <2>3. Reached(reader.rows, <<>>, <<>>)
    BY <1>3, ReachedNothing
  <2>4. Answer(IndexOf(reader.rows, <<>>), r, reader.ids)
    BY <2>1, <2>2
  <2> QED BY <1>1, <1>3, <1>5, <2>3, <2>4, AnswerKeeps
<1>6. CASE ~reader.moved /\ index[r] # None
  <2>1. Answer(index[r], r, reader.ids)
    BY <1>6 DEF FillIndex
  <2>2. PICK f \in Parents : \E m, q :
          index[r] = IndexOf(f, m) /\ Reached(f, m, q) /\ Follows(f, writer, r, parent)
    BY <1>2, <1>3, <1>6 DEF IndexesFit
  <2>3. PICK m, q : index[r] = IndexOf(f, m) /\ Reached(f, m, q) /\ Follows(f, writer, r, parent)
    BY <2>2
  <2>4. Answer(IndexOf(f, m), r, reader.ids)
    BY <2>1, <2>3
  <2> QED BY <1>1, <2>3, <2>4, AnswerKeeps
<1> QED BY <1>4, <1>5, <1>6

LEMMA DeliverKeeps ==
  ASSUME TreesInv, Deliver
  PROVE  TreesInv'
<1>1. /\ reader' = Idle /\ index' = index
      /\ UNCHANGED <<storeVars, writer, builder, otherVars>>
  BY DEF Deliver
<1>2. IndexesFit(index, writer, parent)
  BY DEF TreesInv
<1>3. ReaderFits(reader', writer, status, parent, column)
  BY <1>1 DEF ReaderFits
<1> QED BY <1>1, <1>2, <1>3, ReaderStep

LEMMA TreesStart == Init => TreesInv
<1> SUFFICES ASSUME Init PROVE TreesInv
  OBVIOUS
<1>1. /\ parent = [r \in Revisions |-> <<>>]
      /\ column = [r \in Revisions |-> [s \in Spans |-> None]]
      /\ status = [r \in Revisions |-> IF r = 1 THEN "open" ELSE "none"]
      /\ announced = {} /\ index = [r \in Revisions |-> None]
      /\ writer = Free /\ builder = Idle /\ reader = Idle
      /\ unrecorded = {} /\ batches = 0 /\ faults = 0
  BY DEF Init
<1>2. 1 \in Revisions /\ \A r \in Revisions : r \in Nat /\ (r <= 1 <=> r = 1)
  BY TopologyAssumption DEF Revisions
<1>3. <<>> \in Parents
  <2>1. <<>> \in [{} -> Spans \cup {NoParent, Missing}]
    OBVIOUS
  <2>2. {} \in SUBSET Spans
    OBVIOUS
  <2> QED BY <2>1, <2>2 DEF Parents
<1>4. StoreFits(parent, column, status, announced)
  <2>1. \E c \in Revisions : \A r \in Revisions : status[r] # "none" <=> r <= c
    BY <1>1, <1>2
  <2>2. /\ parent \in [Revisions -> Parents]
        /\ column \in [Revisions -> [Spans -> Rows \cup {None}]]
        /\ status \in [Revisions -> {"none", "open", "pending", "running", "ready"}]
        /\ announced \subseteq Revisions
    BY <1>1, <1>3
  <2>3. \A r \in Revisions : status[r] # "ready" /\ \A s \in Spans : column[r][s] = None
    BY <1>1
  <2> QED BY <2>1, <2>2, <2>3 DEF StoreFits
<1>5. /\ WriterFits(writer, builder, status, parent)
      /\ BuilderFits(writer, builder, status, parent)
      /\ ReaderFits(reader, writer, status, parent, column)
  BY <1>1 DEF WriterFits, BuilderFits, ReaderFits, Idle
<1>6. IndexesFit(index, writer, parent)
  BY <1>1 DEF IndexesFit
<1>7. batches \in 0..MaxBatches /\ faults \in 0..MaxFaults
  BY <1>1, TopologyAssumption
<1> QED BY <1>1, <1>4, <1>5, <1>6, <1>7 DEF TreesInv

LEMMA TreesGoOn == TreesInv /\ [Next]_vars => TreesInv'
<1> SUFFICES ASSUME TreesInv, [Next]_vars PROVE TreesInv'
  OBVIOUS
<1>1. CASE ProjectBatch \/ UpdateIndexes \/ Finalize
  BY <1>1, BatchKeeps, UpdateKeeps, FinalizeKeeps
<1>2. CASE Work
  BY <1>2, ClaimKeeps, BuildKeeps, ChunkKeeps, PublishKeeps, RecordFailureKeeps DEF Work
<1>3. CASE ChunkFails \/ RecordFails
  BY <1>3, ChunkFailsKeeps, RecordFailsKeeps
<1>4. CASE Read
  BY <1>4, CheckPersistedKeeps, ReadRowsKeeps, AskIndexKeeps, LoadRowsKeeps, FillIndexKeeps,
     DeliverKeeps DEF Read
<1>5. CASE Restart
  BY <1>5, RestartKeeps
<1>6. CASE UNCHANGED vars
  <2>1. /\ UNCHANGED <<storeVars, writer, builder, otherVars>>
        /\ index' = index /\ reader' = reader
    BY <1>6 DEF vars
  <2>2. /\ IndexesFit(index, writer, parent)
        /\ ReaderFits(reader, writer, status, parent, column)
    BY DEF TreesInv
  <2> QED BY <2>1, <2>2, ReaderStep
<1> QED BY <1>1, <1>2, <1>3, <1>4, <1>5, <1>6 DEF Next

(* What TreesAreTrue says follows from the invariant.                      *)
LEMMA ReadyIsTrue ==
  ASSUME StoreFits(parent, column, status, announced)
  PROVE  ReadyIsProjected
<1> SUFFICES ASSUME NEW r \in Revisions, status[r] = "ready"
             PROVE  /\ Persisted(r)
                    /\ \A s \in DOMAIN parent[r] : column[r][s].depth = Layout(parent[r])[s]
                    /\ TreeIsComplete(parent[r], column[r])
                    /\ r \notin announced => r # Current
  BY DEF ReadyIsProjected
<1>1. /\ parent[r] \in Parents
      /\ HasAll(parent, column, r)
      /\ r \in announced \/ \E r2 \in Revisions : r < r2 /\ status[r2] # "none"
      /\ \A s \in Spans : column[r][s] # None => column[r][s] = Columns(parent[r])[s]
  BY DEF StoreFits
<1>2. DOMAIN parent[r] \in SUBSET Spans
  BY <1>1, ParentsAreFinite
<1>3. \A s \in DOMAIN parent[r] : column[r][s] = Columns(parent[r])[s]
  BY <1>1, <1>2 DEF HasAll
<1>4. \A s \in DOMAIN parent[r] : column[r][s].depth = Layout(parent[r])[s]
  <2> SUFFICES ASSUME NEW s \in DOMAIN parent[r]
               PROVE  column[r][s].depth = Layout(parent[r])[s]
    OBVIOUS
  <2>1. Columns(parent[r])[s].depth = Layout(parent[r])[s]
    BY <1>1, ColumnsTell
  <2> QED BY <1>3, <2>1
<1>5. TreeIsComplete(parent[r], column[r])
  BY <1>1, <1>3, SameTree
<1>6. r \notin announced => r # Current
  <2>1. Current \in Revisions /\ \A q \in Revisions : status[q] # "none" <=> q <= Current
    BY CurrentIs
  <2>2. \A q \in Revisions : q \in Int
    BY TopologyAssumption DEF Revisions
  <2> QED BY <1>1, <2>1, <2>2
<1>7. Persisted(r)
  BY <1>1 DEF Persisted, HasAll
<1> QED BY <1>4, <1>5, <1>6, <1>7

LEMMA TreesInvIsTrue == TreesInv => TreesAreTrue
<1> SUFFICES ASSUME TreesInv PROVE TreesAreTrue
  OBVIOUS
<1>1. /\ StoreFits(parent, column, status, announced)
      /\ WriterFits(writer, builder, status, parent)
      /\ BuilderFits(writer, builder, status, parent)
      /\ IndexesFit(index, writer, parent)
      /\ ReaderFits(reader, writer, status, parent, column)
      /\ unrecorded \subseteq Revisions /\ batches \in 0..MaxBatches /\ faults \in 0..MaxFaults
  BY DEF TreesInv
<1>2. ReadyIsProjected
  BY <1>1, ReadyIsTrue
<1>3. \A r \in Revisions : index[r] # None =>
        index[r].parents \in Parents /\ Follows(index[r].parents, writer, r, parent)
  BY <1>1 DEF IndexesFit, IndexOf
<1>4. IndexFollowsRows
  <2> SUFFICES ASSUME NEW r \in Revisions, index[r] # None,
                      index[r].parents # parent[r]
               PROVE  /\ writer.at = "projecting" /\ writer.revision = r
                      /\ Over(writer.rows, index[r].parents) = parent[r]
    BY DEF IndexFollowsRows
  <2>1. PICK rows \in Batches :
          Projecting(writer, r, rows) /\ Over(rows, index[r].parents) = parent[r]
    BY <1>3 DEF Follows
  <2>2. writer.at = "projecting" /\ writer.revision = r /\ writer.rows = rows
    BY <2>1 DEF Projecting
  <2> QED BY <2>1, <2>2
<1>5. writer.at \in {"free", "projecting", "publishing"}
  BY <1>1 DEF WriterFits, Projecting, Free
<1>6. builder.at \in {"idle", "claimed", "built", "publishing", "failed"}
  BY <1>1 DEF BuilderFits, Idle
<1>7. reader.at \in {"idle", "checked", "asking", "missed", "loaded", "answer"}
  BY <1>1 DEF ReaderFits, Idle
<1>8. TypeOK
  <2>1. /\ parent \in [Revisions -> Parents]
        /\ column \in [Revisions -> [Spans -> Rows \cup {None}]]
        /\ status \in [Revisions -> {"none", "open", "pending", "running", "ready"}]
        /\ announced \subseteq Revisions
    BY <1>1 DEF StoreFits
  <2> QED BY <1>1, <1>3, <1>5, <1>6, <1>7, <2>1 DEF TypeOK
<1>9. PagesAreTrue
  <2> SUFFICES ASSUME reader.at = "answer", ~reader.raced
               PROVE  PageIsTrue(reader.page, parent[reader.revision])
    BY DEF PagesAreTrue, PageIsTrue
  <2> QED BY <1>1 DEF ReaderFits, Idle
<1> QED BY <1>2, <1>4, <1>8, <1>9 DEF TreesAreTrue, TopologyIsSound

(* Of every trace, for any batches and any size of a chunk: what is marked *)
(* ready is the whole tree and was announced, no index that readers share  *)
(* lost an append, and pages of finalized revisions are true, across       *)
(* failed chunks, interrupted builds and restarts.                         *)
THEOREM TreesStayTrue == Spec => []TreesAreTrue
<1> QED BY TreesStart, TreesGoOn, TreesInvIsTrue, PTL DEF Spec

=============================================================================

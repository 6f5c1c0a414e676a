------------------------------- MODULE Reviews -------------------------------
(***************************************************************************)
(* Human reviews and calibration of one evaluator: blind review queues     *)
(* built from its assessments, the independent answers of two reviewers,   *)
(* adjudication, and the calibration releases, threshold policies and      *)
(* held-out reports made from completed cases.                             *)
(*                                                                         *)
(* Every action is one control-store transaction.  Building a queue takes  *)
(* one transaction for the queue and one for each task, and ends at the    *)
(* first error or with the process.  Builds are assumed not to overlap,    *)
(* which the application does not prevent: a second click while the first  *)
(* build runs starts another one.  The service only makes queues in        *)
(* blind mode whose cases are all random audits, so a case has at most one *)
(* task and that task's answers are the case's answers.  A case stands for *)
(* an exact revision with its binding and projection; the assessments of   *)
(* one case are the computed one and the copies the cache made of it, all  *)
(* with the same output.                                                   *)
(*                                                                         *)
(* Output is withheld by the task that holds an assessment, so before the  *)
(* queue is built nothing is, and of a case under review its copies never  *)
(* are.  The output of a task's own assessment and what is seen without    *)
(* one are kept apart: the code only orders the first.                     *)
(***************************************************************************)
EXTENDS Integers, FiniteSets, FiniteSetsExt, Sequences, Functions

CONSTANTS
  Assessments,      \* judged assessments, numbered in the order of their identities
  Cases,
  Case,             \* the case of each assessment
  Group,            \* the leakage group of each case
  Hashed,           \* the split that the hash of each group selects
  Abstentions,      \* assessments whose verdict is to abstain
  Reviewers,        \* the people who start the application as reviewer_ref
  Labels,
  Decisive,         \* the labels that say whether the task failed
  Required,         \* required_reviewers of the schema: 2
  FitMinimum,       \* resolved, scored cases a fit needs: 2
  MaxReleases,      \* bound on the calibration releases
  MaxCorrections,   \* bound on the answers that replace an earlier one
  MaxFaults,        \* bound on the interrupted builds
  None

Groups == {Group[c] : c \in Cases}
Splits == {"calibration", "test"}

ASSUME ReviewAssumption ==
  /\ IsFiniteSet(Assessments) /\ Assessments \subseteq Nat /\ Case \in [Assessments -> Cases]
  /\ IsFiniteSet(Cases) /\ DOMAIN Group = Cases /\ Groups \subseteq Nat
  /\ Hashed \in [Groups -> Splits] /\ Abstentions \subseteq Assessments
  /\ IsFiniteSet(Reviewers) /\ Decisive \subseteq Labels
  /\ {Required, FitMinimum} \subseteq Nat \ {0}
  /\ {MaxReleases, MaxCorrections, MaxFaults} \subseteq Nat
  /\ None \notin Labels /\ None \notin Assessments
  /\ None \notin [heads : UNION {[S -> Nat] : S \in SUBSET Reviewers}, label : Labels]

VARIABLES
  known,        \* assessments: those of the evaluator that hold an evaluation
  queues,       \* review_queues, oldest first: the split release of each
  tasks,        \* review_tasks: the task of each case
  builder,      \* create_review_queue_from_completed_assessments
  assigned,     \* review_assignments: the reviewers of each case
  answers,      \* annotation_revisions of each case and reviewer
  packet,       \* the adjudication packet that is open on each case
  verdict,      \* adjudication_revisions: the latest of each case
  releases,     \* calibration_releases with their policy and their report
  active,       \* the release of the latest threshold policy activation
  shown,        \* cases somebody was shown the output of, as their task's
  exposed,      \* cases somebody was shown the output of, with no task to withhold it
  seen,         \* who was shown the answers of which case
  corrections, faults

queueVars == <<queues, tasks, builder>>
answerVars == <<assigned, answers, packet, verdict>>
releaseVars == <<releases, active>>
vars == <<known, queueVars, answerVars, releaseVars, shown, exposed, seen, corrections, faults>>

Idle == [at |-> "idle"]
NoTask == [assessment |-> None, split |-> None, status |-> "absent"]

Init ==
  /\ known = {} /\ queues = <<>> /\ tasks = [c \in Cases |-> NoTask] /\ builder = Idle
  /\ assigned = [c \in Cases |-> {}]
  /\ answers = [c \in Cases |-> [r \in Reviewers |-> <<>>]]
  /\ packet = [c \in Cases |-> None] /\ verdict = [c \in Cases |-> None]
  /\ releases = <<>> /\ active = 0
  /\ shown = {} /\ exposed = {} /\ seen = {} /\ corrections = 0 /\ faults = 0

-----------------------------------------------------------------------------
(* Building queues.                                                        *)

(* An assessment worker commits a judgement or a copy of one.              *)
Produce(a) ==
  /\ a \notin known
  /\ known' = known \cup {a}
  /\ UNCHANGED <<queueVars, answerVars, releaseVars, shown, exposed, seen, corrections,
                 faults>>

(* ensure_split_coverage: the first fresh group goes to calibration when   *)
(* no group is there, the last one to test when none is there.             *)
Covered(split, fresh) ==
  LET lacks(s, f) == s \notin Range(f)
      first == IF lacks("calibration", split)
               THEN [split EXCEPT ![Min(fresh)] = "calibration"] ELSE split
  IN IF Cardinality(DOMAIN split) < 2 \/ fresh = {} THEN split
     ELSE IF lacks("test", first) THEN [first EXCEPT ![Max(fresh)] = "test"] ELSE first

SuccessorReassigns(frozen, groups) ==
  LET all == DOMAIN frozen \cup groups IN Covered([g \in all |-> Hashed[g]], all)

(* A frozen split is kept; only groups it lacks are assigned.              *)
Successor(frozen, groups) ==
  LET fresh == groups \ DOMAIN frozen
  IN Covered([g \in DOMAIN frozen \cup fresh |->
                IF g \in DOMAIN frozen THEN frozen[g] ELSE Hashed[g]], fresh)

Pending == {a \in known : \A c \in Cases : tasks[c].assessment # a}

(* The latest queue takes the cases when its split knows all groups; else  *)
(* a successor of its split is published under a new queue.  The schema    *)
(* and the split are rows nothing reads before there is a queue.           *)
Build ==
  /\ builder = Idle /\ Pending # {}
  /\ LET groups == {Group[Case[a]] : a \in Pending}
         frozen == IF queues = <<>> THEN <<>> ELSE queues[Len(queues)]
     IN queues' = IF groups \subseteq DOMAIN frozen THEN queues
                  ELSE Append(queues, Successor(frozen, groups))
  /\ builder' = [at |-> "filling", todo |-> Pending]
  /\ UNCHANGED <<known, tasks, answerVars, releaseVars, shown, exposed, seen,
                 corrections, faults>>

(* create_annotation_case and enqueue_review_task for the next assessment; *)
(* a second assessment of a case is refused, which ends the build.         *)
Fill ==
  /\ builder.at = "filling"
  /\ LET a == Min(builder.todo)
         c == Case[a]
         rest == builder.todo \ {a}
     IN IF tasks[c] = NoTask
        THEN /\ tasks' = [tasks EXCEPT ![c] =
                            [assessment |-> a, split |-> queues[Len(queues)][Group[c]],
                             status |-> "pending"]]
             /\ builder' = IF rest = {} THEN Idle ELSE [builder EXCEPT !.todo = rest]
        ELSE UNCHANGED tasks /\ builder' = Idle
  /\ UNCHANGED <<known, queues, answerVars, releaseVars, shown, exposed, seen,
                 corrections, faults>>

(* The process ends or a store error ends the build.                       *)
Interrupt ==
  /\ builder # Idle /\ faults < MaxFaults
  /\ builder' = Idle /\ faults' = faults + 1
  /\ UNCHANGED <<known, queues, tasks, answerVars, releaseVars, shown, exposed, seen,
                 corrections>>

-----------------------------------------------------------------------------
(* Answers.                                                                *)

Answered(c) == {r \in assigned[c] : answers[c][r] # <<>>}
Latest(c, r) == answers[c][r][Len(answers[c][r])]
Heads(c) == [r \in Answered(c) |-> Len(answers[c][r])]

(* resolved_truth: the label the reviewers agree on, or that of an         *)
(* adjudication of exactly their current answers.                          *)
Truth(c) ==
  LET given == {Latest(c, r) : r \in Answered(c)}
  IN IF Cardinality(Answered(c)) < Required THEN None
     ELSE IF Cardinality(given) = 1 THEN CHOOSE l \in given : TRUE
     ELSE IF verdict[c] # None /\ verdict[c].heads = Heads(c) THEN verdict[c].label ELSE None

(* resolve_task_status.                                                    *)
StatusOf(c) ==
  IF Cardinality(Answered(c)) < Required THEN "in_review"
  ELSE IF Truth(c) # None THEN "completed" ELSE "awaiting_adjudication"

Assign(c, r) ==
  /\ tasks[c].status \notin {"absent", "completed"}
  /\ r \notin assigned[c] /\ Cardinality(assigned[c]) < Required
  /\ assigned' = [assigned EXCEPT ![c] = @ \cup {r}]
  /\ tasks' = [tasks EXCEPT ![c].status = "in_review"]
  /\ UNCHANGED <<known, queues, builder, answers, packet, verdict, releaseVars, shown,
                 exposed, seen, corrections, faults>>

NeverLocked(c, r) == FALSE
(* The answers of a completed blind task are locked.                       *)
Locked(c, r) == tasks[c].status = "completed" /\ answers[c][r] # <<>>

(* submit_annotation_revision over the head the reviewer last saw.         *)
Submit(c, r, label) ==
  /\ r \in assigned[c] /\ ~Locked(c, r)
  /\ IF answers[c][r] = <<>> THEN UNCHANGED corrections
     ELSE corrections < MaxCorrections /\ corrections' = corrections + 1
  /\ answers' = [answers EXCEPT ![c][r] = Append(@, label)]
  /\ UNCHANGED <<known, queues, builder, assigned, packet, verdict, releaseVars, shown,
                 exposed, seen, faults>>
  /\ tasks' = [tasks EXCEPT ![c].status = StatusOf(c)']

(* review_adjudication_packet shows the answers to somebody who gave none. *)
OpenPacket(c, r) ==
  /\ tasks[c].status = "awaiting_adjudication" /\ r \notin assigned[c]
  /\ packet' = [packet EXCEPT ![c] = [by |-> r, heads |-> Heads(c)]]
  /\ seen' = seen \cup {<<r, c>>}
  /\ UNCHANGED <<known, queueVars, assigned, answers, verdict, releaseVars, shown,
                 exposed, corrections, faults>>

(* An adjudication binds the current answers, not those of its packet.     *)
Current(c) == packet[c].heads = Heads(c)

Adjudicate(c, label) ==
  /\ packet[c] # None /\ tasks[c].status = "awaiting_adjudication"
  /\ packet[c].by \notin assigned[c] /\ Current(c)
  /\ verdict' = [verdict EXCEPT ![c] = [heads |-> packet[c].heads, label |-> label]]
  /\ tasks' = [tasks EXCEPT ![c].status = "completed"]
  /\ UNCHANGED <<known, queues, builder, assigned, answers, packet, releaseVars, shown,
                 exposed, seen, corrections, faults>>

-----------------------------------------------------------------------------
(* What is shown.                                                          *)

(* A threshold policy is frozen on a release that tests the group.         *)
Frozen(c) ==
  \E k \in DOMAIN releases :
    /\ releases[k].policy
    /\ Group[c] \in DOMAIN releases[k].split /\ releases[k].split[Group[c]] = "test"

SealedUntilAnswered(c) == \E r \in assigned[c] : answers[c][r] = <<>>
Sealed(c) ==
  \/ tasks[c].status # "completed"
  \/ tasks[c].split = "test" /\ ~Frozen(c)

(* assessment_blind_embargo: a task withholds its own assessment, and      *)
(* nothing withholds one that no task holds.                               *)
Embargoed(a) == tasks[Case[a]].assessment = a /\ Sealed(Case[a])

(* The trace inspector, the exports and review_task_for_reviewer show an   *)
(* assessment that is not withheld to anybody.                             *)
Present(a) ==
  /\ a \in known /\ ~Embargoed(a)
  /\ IF tasks[Case[a]].assessment = a
     THEN /\ Case[a] \notin shown /\ shown' = shown \cup {Case[a]}
          /\ UNCHANGED exposed
     ELSE /\ Case[a] \notin exposed /\ exposed' = exposed \cup {Case[a]}
          /\ UNCHANGED shown
  /\ UNCHANGED <<known, queueVars, answerVars, releaseVars, seen, corrections, faults>>

-----------------------------------------------------------------------------
(* Calibration.                                                            *)

(* calibration_members: the completed tasks of a split that the split      *)
(* release agrees with, under their resolved label.                        *)
Members(split, part) ==
  {<<c, Truth(c)>> : c \in
     {x \in Cases : /\ tasks[x].status = "completed" /\ tasks[x].split = part
                    /\ Group[x] \in DOMAIN split /\ split[Group[x]] = part
                    /\ Truth(x) \in Decisive}}

(* fit_latest_review_calibration; whether the reviewers agree enough is a  *)
(* number computed from their answers.                                     *)
Fit ==
  /\ queues # <<>> /\ Len(releases) < MaxReleases
  /\ LET split == queues[Len(queues)]
         fit == {m \in Members(split, "calibration") : tasks[m[1]].assessment \notin Abstentions}
     IN /\ Cardinality(fit) >= FitMinimum
        /\ \E agrees \in BOOLEAN :
             releases' = Append(releases, [split |-> split, fit |-> fit, agrees |-> agrees,
                                           policy |-> FALSE, report |-> {}])
  /\ UNCHANGED <<known, queueVars, answerVars, active, shown, exposed, seen,
                 corrections, faults>>

(* publish_threshold_policy_release: once, with enough agreement, and      *)
(* before the held-out labels are looked at.                               *)
Freeze(k) ==
  /\ releases[k].agrees /\ releases[k].report = {} /\ ~releases[k].policy
  /\ releases' = [releases EXCEPT ![k].policy = TRUE]
  /\ UNCHANGED <<known, queueVars, answerVars, active, shown, exposed, seen,
                 corrections, faults>>

(* publish_calibration_test_report; a second call returns the first one.   *)
Report(k) ==
  /\ releases[k].policy /\ releases[k].report = {}
  /\ Members(releases[k].split, "test") # {}
  /\ releases' = [releases EXCEPT ![k].report = Members(releases[k].split, "test")]
  /\ UNCHANGED <<known, queueVars, answerVars, active, shown, exposed, seen,
                 corrections, faults>>

(* activate_threshold_policy, when the numbers of its report pass.         *)
Activate(k) ==
  /\ releases[k].policy /\ releases[k].report # {}
  /\ active' = k
  /\ UNCHANGED <<known, queueVars, answerVars, releases, shown, exposed, seen,
                 corrections, faults>>

-----------------------------------------------------------------------------
Next ==
  \/ \E a \in Assessments : Produce(a) \/ Present(a)
  \/ Build \/ Fill \/ Interrupt
  \/ \E c \in Cases, r \in Reviewers :
       \/ Assign(c, r) \/ OpenPacket(c, r)
       \/ \E label \in Labels : Submit(c, r, label)
  \/ \E c \in Cases, label \in Labels : Adjudicate(c, label)
  \/ Fit
  \/ \E k \in DOMAIN releases : Freeze(k) \/ Report(k) \/ Activate(k)

Spec == Init /\ [][Next]_vars

-----------------------------------------------------------------------------
(* Properties.                                                             *)

SplitFunctions == UNION {[G -> Splits] : G \in SUBSET Groups}
Statuses == {"pending", "in_review", "awaiting_adjudication", "completed"}

TypeOK ==
  /\ known \subseteq Assessments
  /\ \A i \in DOMAIN queues : queues[i] \in SplitFunctions
  /\ tasks \in [Cases -> {NoTask} \cup
                  [assessment : Assessments, split : Splits, status : Statuses]]
  /\ \/ builder = Idle
     \/ /\ builder.at = "filling"
        /\ builder.todo \in (SUBSET known) \ {{}}
  /\ assigned \in [Cases -> SUBSET Reviewers]
  /\ \A c \in Cases, r \in Reviewers : answers[c][r] \in Seq(Labels)
  /\ \A c \in Cases : packet[c] # None => packet[c].by \in Reviewers
  /\ \A c \in Cases : verdict[c] # None => verdict[c].label \in Labels
  /\ active \in 0..Len(releases)
  /\ shown \subseteq Cases /\ exposed \subseteq Cases /\ seen \subseteq Reviewers \X Cases
  /\ corrections \in 0..MaxCorrections /\ faults \in 0..MaxFaults

(* A task says it is completed exactly when its label is resolved, and     *)
(* that it awaits adjudication exactly when all reviewers answered and     *)
(* their current answers differ without a decision.                        *)
StatusIsResolved ==
  \A c \in Cases :
    IF assigned[c] = {} THEN tasks[c].status \in {"absent", "pending"}
    ELSE tasks[c].status = StatusOf(c)

(* Related revisions never cross the partitions: every split release that  *)
(* knows the leakage group of a task has it where the task has it, and no  *)
(* release is tested on a group that any release was fitted on.            *)
GroupsStayApart ==
  /\ \A i \in DOMAIN queues, c \in Cases :
       tasks[c] # NoTask /\ Group[c] \in DOMAIN queues[i] => queues[i][Group[c]] = tasks[c].split
  /\ \A k, n \in DOMAIN releases : \A m \in releases[k].fit, t \in releases[n].report :
       Group[m[1]] # Group[t[1]]

(* The labels a release was fitted to and tested on are still the resolved *)
(* labels of their cases.                                                  *)
ReleasesStayTrue ==
  \A k \in DOMAIN releases : \A m \in releases[k].fit \cup releases[k].report :
    Truth(m[1]) = m[2]

(* The output a task holds is only ever shown when its label is resolved   *)
(* and, for a held-out one, after thresholds were frozen (what was seen of *)
(* it before there was a task, and of a copy, is in exposed); the answers  *)
(* are only shown to somebody who is not one of the reviewers.             *)
ShownWhenAllowed ==
  /\ \A c \in shown :
       tasks[c].status = "completed" /\ (tasks[c].split = "test" => Frozen(c))
  /\ \A s \in seen : s[1] \notin assigned[s[2]]

ReviewsAreSound ==
  /\ TypeOK /\ StatusIsResolved /\ GroupsStayApart /\ ReleasesStayTrue /\ ShownWhenAllowed

(* As far as the embargo goes, review is blind: nobody answers, corrects   *)
(* an answer or decides between answers after the output the case's task   *)
(* holds was shown as that task's to anybody, and nobody answers after     *)
(* having been shown the answers.  See HiddenUntilSubmitted for what the   *)
(* embargo does not reach.                                                 *)
AnswersAreBlind ==
  [][\A c \in Cases :
       /\ answers'[c] # answers[c] \/ verdict'[c] # verdict[c] => c \notin shown
       /\ \A r \in Reviewers : answers'[c][r] # answers[c][r] => <<r, c>> \notin seen]_vars

(* What was resolved, fitted, frozen or reported is never changed.         *)
TruthIsFinal ==
  [][/\ \A c \in Cases : tasks[c].status = "completed" =>
          tasks'[c] = tasks[c] /\ Truth(c)' = Truth(c)
     /\ \A k \in DOMAIN releases :
          /\ releases'[k].fit = releases[k].fit /\ releases'[k].split = releases[k].split
          /\ releases[k].policy => releases'[k].policy
          /\ releases[k].report # {} => releases'[k].report = releases[k].report]_vars

(* What the guide says of blind calibration: it hides the automated output *)
(* until the reviewer submits, so nobody gives a first answer on a case    *)
(* whose output has been shown.                                            *)
HiddenUntilSubmitted ==
  [][\A c \in Cases, r \in Reviewers :
       answers[c][r] = <<>> /\ answers'[c][r] # <<>> => c \notin shown \cup exposed]_vars

(* What the comment of create_review_queue_from_completed_assessments says *)
(* of the queue it makes: a build that was not interrupted has put every   *)
(* case it set out to review into review.                                  *)
BaselineIsComplete ==
  [][builder # Idle /\ builder' = Idle /\ faults' = faults =>
       \A a \in builder.todo : tasks'[Case[a]] # NoTask]_vars

=============================================================================

----------------------------- MODULE ReviewProofs -----------------------------
(***************************************************************************)
(* Proofs about Reviews, for every set of assessments, cases, groups,      *)
(* reviewers and labels, any number of required reviewers and any number   *)
(* of releases, corrections and interrupted builds.                        *)
(*                                                                         *)
(* ReviewsAreSound becomes inductive when it also says where the splits    *)
(* agree (every queue's with the latest one, and every task's with that),  *)
(* that a case never has more reviewers than it needs, and what the cases  *)
(* of a release have in common.  A completed task is final because then    *)
(* every reviewer of the case has answered and no other can be assigned.   *)
(***************************************************************************)
EXTENDS Reviews, FiniteSetTheorems, SequenceTheorems, WellFoundedInduction, TLAPS

-----------------------------------------------------------------------------
(* Least and greatest elements of a finite set of numbers.                 *)

LEMMA LeastOfSet ==
  ASSUME NEW S \in SUBSET Nat, S # {}, IsFiniteSet(S)
  PROVE  \E n \in S : \A m \in S : n <= m
<1> DEFINE Bad == {X \in SUBSET S : X # {} /\ ~ \E n \in X : \A m \in X : n <= m}
           R == StrictSubsetOrdering(S)
<1>1. SUFFICES ASSUME Bad # {} PROVE FALSE
  OBVIOUS
<1>2. Bad \subseteq FiniteSubsetsOf(S)
  BY FS_Subset DEF FiniteSubsetsOf
<1>3. PICK X \in Bad : \A Y \in Bad : <<Y, X>> \notin R
  <2>1. IsWellFoundedOn(R, FiniteSubsetsOf(S))  BY FS_StrictSubsetOrderingWellFounded
  <2> HIDE DEF R, Bad
  <2> QED  BY <1>1, <1>2, <2>1, WFMin
<1>4. PICK x \in X : TRUE
  OBVIOUS
<1>5. X \ {x} \notin Bad
  <2>1. X \ {x} \in SUBSET S /\ X \in SUBSET S /\ X \ {x} \subseteq X /\ X \ {x} # X
    OBVIOUS
  <2>2. <<X \ {x}, X>> \in R
    BY <2>1 DEF StrictSubsetOrdering
  <2> QED  BY <1>3, <2>2
<1>6. CASE X \ {x} = {}
  BY <1>6, <1>3
<1>7. CASE X \ {x} # {}
  <2>1. PICK n \in X \ {x} : \A m \in X \ {x} : n <= m
    BY <1>5, <1>7
  <2>2. \A m \in X : (IF x <= n THEN x ELSE n) <= m
    BY <2>1
  <2> QED  BY <2>2, <1>3
<1> QED BY <1>6, <1>7

LEMMA GreatestOfSet ==
  ASSUME NEW S \in SUBSET Nat, S # {}, IsFiniteSet(S)
  PROVE  \E n \in S : \A m \in S : n >= m
<1> DEFINE Bad == {X \in SUBSET S : X # {} /\ ~ \E n \in X : \A m \in X : n >= m}
           R == StrictSubsetOrdering(S)
<1>1. SUFFICES ASSUME Bad # {} PROVE FALSE
  OBVIOUS
<1>2. Bad \subseteq FiniteSubsetsOf(S)
  BY FS_Subset DEF FiniteSubsetsOf
<1>3. PICK X \in Bad : \A Y \in Bad : <<Y, X>> \notin R
  <2>1. IsWellFoundedOn(R, FiniteSubsetsOf(S))  BY FS_StrictSubsetOrderingWellFounded
  <2> HIDE DEF R, Bad
  <2> QED  BY <1>1, <1>2, <2>1, WFMin
<1>4. PICK x \in X : TRUE
  OBVIOUS
<1>5. X \ {x} \notin Bad
  <2>1. X \ {x} \in SUBSET S /\ X \in SUBSET S /\ X \ {x} \subseteq X /\ X \ {x} # X
    OBVIOUS
  <2>2. <<X \ {x}, X>> \in R
    BY <2>1 DEF StrictSubsetOrdering
  <2> QED  BY <1>3, <2>2
<1>6. CASE X \ {x} = {}
  BY <1>6, <1>3
<1>7. CASE X \ {x} # {}
  <2>1. PICK n \in X \ {x} : \A m \in X \ {x} : n >= m
    BY <1>5, <1>7
  <2>2. \A m \in X : (IF x >= n THEN x ELSE n) >= m
    BY <2>1
  <2> QED  BY <2>2, <1>3
<1> QED BY <1>6, <1>7

LEMMA MinAndMaxAreMembers ==
  ASSUME NEW S \in SUBSET Nat, S # {}, IsFiniteSet(S)
  PROVE  Min(S) \in S /\ Max(S) \in S
BY LeastOfSet, GreatestOfSet DEF Min, Max

-----------------------------------------------------------------------------
(* The splits.                                                             *)

LEMMA GroupsAreFinite == IsFiniteSet(Groups) /\ Groups \subseteq Nat
<1>1. IsFiniteSet({Group[c] : c \in Cases})
  <2> DEFINE T == {Group[c] : c \in Cases}
             f == [c \in Cases |-> Group[c]]
  <2>1. f \in Surjection(Cases, T)
    BY DEF Surjection
  <2>2. IsFiniteSet(Cases)
    BY ReviewAssumption
  <2> HIDE DEF T, f
  <2>3. IsFiniteSet(T)
    BY <2>1, <2>2, FS_Surjection
  <2> QED BY <2>3 DEF T
<1> QED BY <1>1, ReviewAssumption DEF Groups

(* Completing a split only assigns groups that are fresh.                  *)
LEMMA CoveredKeeps ==
  ASSUME NEW G \in SUBSET Groups, NEW split \in [G -> Splits], NEW fresh \in SUBSET G
  PROVE  /\ Covered(split, fresh) \in [G -> Splits]
         /\ \A g \in G \ fresh : Covered(split, fresh)[g] = split[g]
<1> DEFINE first == IF "calibration" \notin Range(split)
                    THEN [split EXCEPT ![Min(fresh)] = "calibration"] ELSE split
<1>1. CASE Cardinality(DOMAIN split) < 2 \/ fresh = {}
  BY <1>1 DEF Covered
<1>2. CASE ~(Cardinality(DOMAIN split) < 2 \/ fresh = {})
  <2>1. Min(fresh) \in fresh /\ Max(fresh) \in fresh
    <3>1. IsFiniteSet(fresh) /\ fresh \in SUBSET Nat
      BY GroupsAreFinite, FS_Subset
    <3> QED BY <1>2, <3>1, MinAndMaxAreMembers
  <2>2. /\ first \in [G -> Splits]
        /\ \A g \in G \ fresh : first[g] = split[g]
    BY <2>1 DEF Splits
  <2> HIDE DEF first
  <2>3. /\ [first EXCEPT ![Max(fresh)] = "test"] \in [G -> Splits]
        /\ \A g \in G \ fresh : [first EXCEPT ![Max(fresh)] = "test"][g] = split[g]
    BY <2>1, <2>2 DEF Splits
  <2>4. Covered(split, fresh) = IF "test" \notin Range(first)
                                THEN [first EXCEPT ![Max(fresh)] = "test"] ELSE first
    BY <1>2 DEF Covered, first
  <2> QED BY <2>2, <2>3, <2>4
<1> QED BY <1>1, <1>2

(* A successor knows the old and the new groups and keeps the old ones'    *)
(* partitions.                                                             *)
LEMMA SuccessorExtends ==
  ASSUME NEW G \in SUBSET Groups, NEW frozen \in [G -> Splits], NEW groups \in SUBSET Groups
  PROVE  /\ Successor(frozen, groups) \in [G \cup groups -> Splits]
         /\ \A g \in G : Successor(frozen, groups)[g] = frozen[g]
<1> DEFINE fresh == groups \ DOMAIN frozen
           split == [g \in DOMAIN frozen \cup fresh |->
                       IF g \in DOMAIN frozen THEN frozen[g] ELSE Hashed[g]]
<1>1. G \cup groups = DOMAIN frozen \cup fresh /\ G \cup groups \in SUBSET Groups
      /\ fresh \in SUBSET (G \cup groups)
  OBVIOUS
<1>2. split \in [G \cup groups -> Splits] /\ \A g \in G : split[g] = frozen[g]
  BY ReviewAssumption
<1>3. Successor(frozen, groups) = Covered(split, fresh)
  BY DEF Successor
<1>4. \A g \in G : g \in (G \cup groups) \ fresh
  OBVIOUS
<1> HIDE DEF fresh, split
<1> QED BY <1>1, <1>2, <1>3, <1>4, CoveredKeeps

-----------------------------------------------------------------------------
(* The inductive invariant.                                                *)

MemberSets == SUBSET (Cases \X Labels)
ReleaseRows == [split : SplitFunctions, fit : MemberSets, agrees : BOOLEAN,
                policy : BOOLEAN, report : MemberSets]
TaskRows == [assessment : Assessments, split : Splits, status : Statuses]

Typed ==
  /\ TypeOK
  /\ queues \in Seq(SplitFunctions) /\ releases \in Seq(ReleaseRows)
  /\ answers \in [Cases -> [Reviewers -> Seq(Labels)]]
  /\ packet = [c \in Cases |-> packet[c]] /\ verdict = [c \in Cases |-> verdict[c]]

(* Only reviewers of a case answer, and there are no more than it needs;   *)
(* who was shown the answers of a case cannot become one of them.          *)
ReviewersAnswer ==
  /\ \A c \in Cases :
       /\ Cardinality(assigned[c]) <= Required
       /\ \A r \in Reviewers : answers[c][r] # <<>> => r \in assigned[c]
  /\ \A s \in seen : Cardinality(assigned[s[2]]) = Required

Last == queues[Len(queues)]

(* Every split agrees with the latest one, which knows all groups under    *)
(* review and has them where the tasks have them.                          *)
SplitsAgree ==
  /\ \A i \in DOMAIN queues : \A g \in DOMAIN queues[i] :
       g \in DOMAIN Last /\ queues[i][g] = Last[g]
  /\ \A c \in Cases : tasks[c] # NoTask =>
       queues # <<>> /\ Group[c] \in DOMAIN Last /\ Last[Group[c]] = tasks[c].split
  /\ builder # Idle => queues # <<>> /\ \A a \in builder.todo : Group[Case[a]] \in DOMAIN Last

Resolved(m, part) ==
  /\ tasks[m[1]].status = "completed" /\ tasks[m[1]].split = part
  /\ Truth(m[1]) = m[2]

(* A release was fitted to resolved calibration cases and is tested on     *)
(* resolved test cases.                                                    *)
MembersAreResolved ==
  \A k \in DOMAIN releases :
    /\ \A m \in releases[k].fit : Resolved(m, "calibration")
    /\ \A m \in releases[k].report : Resolved(m, "test")

IInv ==
  /\ Typed /\ StatusIsResolved /\ ReviewersAnswer /\ SplitsAgree /\ MembersAreResolved
  /\ ShownWhenAllowed

LEMMA InitIInv == Init => IInv
<1> SUFFICES ASSUME Init PROVE IInv
  OBVIOUS
<1> USE ReviewAssumption
<1>1. TypeOK
  BY DEF Init, TypeOK, NoTask, Idle
<1>2. Typed
  BY <1>1, EmptySeq DEF Init, Typed
<1>3. StatusIsResolved
  BY DEF Init, StatusIsResolved, NoTask
<1>4. ReviewersAnswer
  BY FS_EmptySet DEF Init, ReviewersAnswer
<1>5. SplitsAgree /\ MembersAreResolved /\ ShownWhenAllowed
  BY DEF Init, SplitsAgree, MembersAreResolved, ShownWhenAllowed
<1> QED BY <1>2, <1>3, <1>4, <1>5 DEF IInv

-----------------------------------------------------------------------------
(* Answers and truth.                                                      *)

LEMMA AnsweredIsFinite ==
  ASSUME Typed, NEW c \in Cases
  PROVE  /\ IsFiniteSet(assigned[c]) /\ IsFiniteSet(Answered(c))
         /\ Answered(c) \subseteq assigned[c] /\ assigned[c] \subseteq Reviewers
         /\ Cardinality(assigned[c]) \in Nat /\ Cardinality(Answered(c)) \in Nat
         /\ Cardinality(Answered(c)) <= Cardinality(assigned[c])
<1>1. IsFiniteSet(assigned[c]) /\ assigned[c] \subseteq Reviewers
  BY ReviewAssumption, FS_Subset DEF Typed, TypeOK
<1>2. Answered(c) \subseteq assigned[c]
  BY DEF Answered
<1> QED BY <1>1, <1>2, FS_Subset, FS_CardinalityType

LEMMA TaskTypes ==
  ASSUME Typed, NEW c \in Cases
  PROVE  /\ tasks[c] = NoTask \/ tasks[c] \in TaskRows
         /\ tasks[c] = NoTask <=> tasks[c].status = "absent"
         /\ tasks \in [Cases -> {NoTask} \cup TaskRows]
BY DEF Typed, TypeOK, TaskRows, NoTask, Statuses

LEMMA TruthIsLabel ==
  ASSUME Typed, NEW c \in Cases, Truth(c) # None
  PROVE  Truth(c) \in Labels
<1> DEFINE given == {Latest(c, r) : r \in Answered(c)}
<1>1. given \subseteq Labels
  <2> SUFFICES ASSUME NEW r \in Answered(c) PROVE Latest(c, r) \in Labels
    OBVIOUS
  <2>1. r \in Reviewers /\ answers[c][r] # <<>>
    BY AnsweredIsFinite DEF Answered
  <2>2. answers[c][r] \in Seq(Labels)
    BY <2>1 DEF Typed
  <2> QED BY <2>1, <2>2 DEF Latest
<1>2. CASE Cardinality(given) = 1
  <2>1. IsFiniteSet(given)
    <3> DEFINE f == [r \in Answered(c) |-> Latest(c, r)]
    <3>1. f \in Surjection(Answered(c), given)
      BY DEF Surjection
    <3>2. IsFiniteSet(Answered(c))
      BY AnsweredIsFinite
    <3> HIDE DEF given, f
    <3> QED BY <3>1, <3>2, FS_Surjection
  <2>2. given # {}
    BY <1>2, FS_EmptySet
  <2>3. (CHOOSE l \in given : TRUE) \in Labels
    BY <1>1, <2>2
  <2> QED BY <1>2, <2>3 DEF Truth
<1>3. CASE Cardinality(given) # 1
  BY <1>3 DEF Truth, Typed, TypeOK
<1> QED BY <1>2, <1>3

(* What makes a completed task final.                                      *)
LEMMA EverybodyAnswered ==
  ASSUME IInv, NEW c \in Cases, tasks[c].status = "completed"
  PROVE  /\ \A r \in assigned[c] : answers[c][r] # <<>>
         /\ Cardinality(assigned[c]) = Required
<1>1. assigned[c] # {} /\ StatusOf(c) = "completed"
  BY DEF IInv, StatusIsResolved
<1>2. Required \in Nat /\ ~(Cardinality(Answered(c)) < Required)
  BY <1>1, ReviewAssumption DEF StatusOf
<1>3. Cardinality(Answered(c)) = Cardinality(assigned[c]) /\ Cardinality(assigned[c]) = Required
  BY <1>2, AnsweredIsFinite DEF IInv, ReviewersAnswer
<1>4. Answered(c) = assigned[c]
  BY <1>3, AnsweredIsFinite, FS_Subset DEF IInv
<1> QED BY <1>3, <1>4 DEF Answered

LEMMA SameTruth ==
  ASSUME NEW c \in Cases, assigned'[c] = assigned[c], answers'[c] = answers[c],
         verdict'[c] = verdict[c]
  PROVE  /\ Answered(c)' = Answered(c) /\ Heads(c)' = Heads(c)
         /\ Truth(c)' = Truth(c) /\ StatusOf(c)' = StatusOf(c)
<1>1. Answered(c)' = Answered(c)
  BY DEF Answered
<1>2. Heads(c)' = Heads(c)
  BY <1>1 DEF Heads
<1>3. \A r \in Answered(c) : Latest(c, r)' = Latest(c, r)
  BY DEF Latest
<1> DEFINE given == {Latest(c, r) : r \in Answered(c)}
<1>4. given' = given
  BY <1>1, <1>3
<1>5. Truth(c) = IF Cardinality(Answered(c)) < Required THEN None
                 ELSE IF Cardinality(given) = 1 THEN CHOOSE l \in given : TRUE
                 ELSE IF verdict[c] # None /\ verdict[c].heads = Heads(c)
                      THEN verdict[c].label ELSE None
  BY DEF Truth
<1>6. Truth(c)' = Truth(c)
  <2>1. Truth(c)' = IF Cardinality(Answered(c)') < Required THEN None
                    ELSE IF Cardinality(given') = 1 THEN CHOOSE l \in given' : TRUE
                    ELSE IF verdict'[c] # None /\ verdict'[c].heads = Heads(c)'
                         THEN verdict'[c].label ELSE None
    BY DEF Truth
  <2> HIDE DEF given
  <2> QED BY <1>1, <1>2, <1>4, <1>5, <2>1
<1> QED BY <1>1, <1>2, <1>6 DEF StatusOf

-----------------------------------------------------------------------------
(* What no step changes.                                                   *)

LEMMA CompletedStays ==
  ASSUME IInv, [Next]_vars, NEW c \in Cases, tasks[c].status = "completed"
  PROVE  /\ tasks'[c] = tasks[c] /\ assigned'[c] = assigned[c]
         /\ answers'[c] = answers[c] /\ verdict'[c] = verdict[c]
         /\ Truth(c)' = Truth(c)
<1> SUFFICES /\ tasks'[c] = tasks[c] /\ assigned'[c] = assigned[c]
             /\ answers'[c] = answers[c] /\ verdict'[c] = verdict[c]
  BY SameTruth
<1>1. \A r \in assigned[c] : answers[c][r] # <<>>
  BY EverybodyAnswered
<1>2. /\ tasks \in [Cases -> {NoTask} \cup TaskRows] /\ tasks[c] # NoTask
      /\ assigned \in [Cases -> SUBSET Reviewers]
      /\ answers \in [Cases -> [Reviewers -> Seq(Labels)]]
      /\ verdict = [x \in Cases |-> verdict[x]]
  BY TaskTypes DEF IInv, Typed, TypeOK, NoTask
<1>3. CASE \E x \in Cases, r \in Reviewers : Assign(x, r)
  BY <1>2, <1>3 DEF Assign
<1>4. CASE \E x \in Cases, r \in Reviewers, label \in Labels : Submit(x, r, label)
  BY <1>1, <1>2, <1>4 DEF Submit, Locked
<1>5. CASE \E x \in Cases, label \in Labels : Adjudicate(x, label)
  BY <1>2, <1>5 DEF Adjudicate
<1>6. CASE Fill
  BY <1>2, <1>6 DEF Fill, answerVars
<1>7. CASE \/ \E a \in Assessments : Produce(a) \/ Present(a)
           \/ Build \/ Interrupt \/ Fit
           \/ \E x \in Cases, r \in Reviewers : OpenPacket(x, r)
           \/ \E k \in DOMAIN releases : Freeze(k) \/ Report(k) \/ Activate(k)
           \/ UNCHANGED vars
  BY <1>7 DEF Produce, Build, Interrupt, Fit, Present, OpenPacket, Freeze, Report, Activate,
              vars, queueVars, answerVars, releaseVars
<1> QED BY <1>3, <1>4, <1>5, <1>6, <1>7 DEF Next

LEMMA TaskStays ==
  ASSUME IInv, [Next]_vars, NEW c \in Cases, tasks[c] # NoTask
  PROVE  /\ tasks'[c] # NoTask
         /\ tasks'[c].split = tasks[c].split /\ tasks'[c].assessment = tasks[c].assessment
<1>1. /\ tasks \in [Cases -> {NoTask} \cup TaskRows] /\ tasks[c] \in TaskRows
      /\ tasks[c].status # "absent"
  BY TaskTypes DEF IInv
<1>2. CASE \E x \in Cases, r \in Reviewers : Assign(x, r)
  BY <1>1, <1>2 DEF Assign, NoTask, TaskRows
<1>3. CASE \E x \in Cases, r \in Reviewers, label \in Labels : Submit(x, r, label)
  <2>1. PICK x \in Cases : tasks' = [tasks EXCEPT ![x].status = StatusOf(x)']
    BY <1>3 DEF Submit
  <2>2. StatusOf(x)' # "absent"
    BY DEF StatusOf
  <2> QED BY <1>1, <2>1, <2>2 DEF NoTask, TaskRows
<1>4. CASE \E x \in Cases, label \in Labels : Adjudicate(x, label)
  BY <1>1, <1>4 DEF Adjudicate, NoTask, TaskRows
<1>5. CASE Fill
  BY <1>1, <1>5 DEF Fill
<1>6. CASE \/ \E a \in Assessments : Produce(a) \/ Present(a)
           \/ Build \/ Interrupt \/ Fit
           \/ \E x \in Cases, r \in Reviewers : OpenPacket(x, r)
           \/ \E k \in DOMAIN releases : Freeze(k) \/ Report(k) \/ Activate(k)
           \/ UNCHANGED vars
  BY <1>6 DEF Produce, Build, Interrupt, Fit, Present, OpenPacket, Freeze, Report, Activate,
              vars, queueVars, answerVars, releaseVars
<1> QED BY <1>2, <1>3, <1>4, <1>5, <1>6 DEF Next

(* A release keeps its members, its split and its policy.                  *)
LEMMA ReleaseStays ==
  ASSUME IInv, [Next]_vars, NEW k \in DOMAIN releases
  PROVE  /\ k \in DOMAIN releases'
         /\ releases'[k].fit = releases[k].fit /\ releases'[k].split = releases[k].split
         /\ releases[k].policy => releases'[k].policy
         /\ releases[k].report # {} => releases'[k].report = releases[k].report
<1>1. releases \in Seq(ReleaseRows) /\ Len(releases) \in Nat /\ DOMAIN releases = 1..Len(releases)
      /\ releases[k] \in ReleaseRows
  BY LenProperties, ElementOfSeq DEF IInv, Typed
<1>2. CASE Fit
  BY <1>1, <1>2 DEF Fit
<1>3. CASE \E n \in DOMAIN releases : Freeze(n)
  BY <1>1, <1>3 DEF Freeze, ReleaseRows
<1>4. CASE \E n \in DOMAIN releases : Report(n)
  BY <1>1, <1>4 DEF Report, ReleaseRows
<1>5. CASE UNCHANGED releases
  BY <1>5
<1>6. UNCHANGED releases \/ Fit \/ \E n \in DOMAIN releases : Freeze(n) \/ Report(n)
  BY DEF Next, Produce, Build, Fill, Interrupt, Assign, OpenPacket, Submit, Present, Adjudicate,
         Activate, vars, releaseVars
<1> QED BY <1>2, <1>3, <1>4, <1>5, <1>6

-----------------------------------------------------------------------------
(* The queues.                                                             *)

BuilderTyped ==
  \/ builder = Idle
  \/ /\ builder.at = "filling"
     /\ builder.todo \in (SUBSET known) \ {{}}

LEMMA QueueTypes ==
  ASSUME IInv
  PROVE  /\ queues \in Seq(SplitFunctions) /\ Len(queues) \in Nat
         /\ DOMAIN queues = 1..Len(queues)
         /\ queues # <<>> => Last \in SplitFunctions
<1>1. queues \in Seq(SplitFunctions)
  BY DEF IInv, Typed
<1> QED BY <1>1, LenProperties, ElementOfSeq, EmptySeq DEF Last

LEMMA BuildKeeps ==
  ASSUME IInv, Build
  PROVE  /\ queues' \in Seq(SplitFunctions) /\ BuilderTyped' /\ SplitsAgree'
<1> DEFINE groups == {Group[Case[a]] : a \in Pending}
           frozen == IF queues = <<>> THEN <<>> ELSE Last
           G == DOMAIN frozen
<1>1. Pending \subseteq known /\ known \subseteq Assessments /\ Pending # {}
  BY DEF IInv, Typed, TypeOK, Pending, Build
<1>2. groups \in SUBSET Groups
  BY <1>1, ReviewAssumption DEF Groups
<1>3. G \in SUBSET Groups /\ frozen \in [G -> Splits]
  BY QueueTypes DEF SplitFunctions
<1>4. queues' = IF groups \subseteq G THEN queues ELSE Append(queues, Successor(frozen, groups))
  BY DEF Build, Last
<1>5. /\ builder' = [at |-> "filling", todo |-> Pending]
      /\ tasks' = tasks /\ known' = known
  BY DEF Build
<1>6. BuilderTyped'
  BY <1>1, <1>5 DEF BuilderTyped
<1>7. /\ Successor(frozen, groups) \in [G \cup groups -> Splits]
      /\ \A g \in G : Successor(frozen, groups)[g] = frozen[g]
  <2> HIDE DEF groups, frozen, G
  <2> QED BY <1>2, <1>3, SuccessorExtends
<1>8. Successor(frozen, groups) \in SplitFunctions
  <2> HIDE DEF groups, frozen, G
  <2>1. G \cup groups \in SUBSET Groups
    BY <1>2, <1>3
  <2> QED BY <1>7, <2>1 DEF SplitFunctions
<1>9. CASE groups \subseteq G
  <2>1. queues # <<>>
    <3>1. groups # {}
      BY <1>1
    <3>2. queues = <<>> => G = {}
      OBVIOUS
    <3> QED BY <3>1, <3>2, <1>9
  <2>2. \A a \in builder'.todo : Group[Case[a]] \in DOMAIN Last
    BY <1>5, <1>9, <2>1
  <2>3. queues' = queues
    BY <1>4, <1>9
  <2> QED BY <1>5, <1>6, <2>1, <2>2, <2>3, QueueTypes DEF IInv, SplitsAgree, Last
<1>10. CASE ~(groups \subseteq G)
  <2> DEFINE new == Successor(frozen, groups)
  <2>1. queues' = Append(queues, new)
    BY <1>4, <1>10
  <2>2. /\ queues' \in Seq(SplitFunctions) /\ Len(queues') = Len(queues) + 1
        /\ \A i \in 1..Len(queues) : queues'[i] = queues[i]
        /\ Last' = new /\ queues' # <<>> /\ DOMAIN queues' = 1..(Len(queues) + 1)
    <3> HIDE DEF new
    <3> QED BY <2>1, <1>8, QueueTypes, AppendProperties, LenProperties DEF Last, new
  <2>3. DOMAIN new = G \cup groups
    BY <1>7
  <2>4. \A i \in DOMAIN queues : \A g \in DOMAIN queues[i] :
          g \in DOMAIN new /\ queues[i][g] = new[g]
    BY <1>7, <2>3, QueueTypes DEF IInv, SplitsAgree
  <2>5. \A i \in DOMAIN queues' : \A g \in DOMAIN queues'[i] :
          g \in DOMAIN Last' /\ queues'[i][g] = Last'[g]
    <3> HIDE DEF new
    <3>1. TAKE i \in DOMAIN queues'
    <3>2. CASE i = Len(queues) + 1
      BY <3>2, <2>2 DEF Last
    <3>3. CASE i # Len(queues) + 1
      BY <3>3, <2>2, <2>4, QueueTypes
    <3> QED BY <3>2, <3>3
  <2>6. \A c \in Cases : tasks[c] # NoTask =>
          Group[c] \in DOMAIN new /\ new[Group[c]] = tasks[c].split
    <3>1. TAKE c \in Cases
    <3>2. HAVE tasks[c] # NoTask
    <3>3. queues # <<>> /\ Group[c] \in DOMAIN Last /\ Last[Group[c]] = tasks[c].split
      BY <3>2 DEF IInv, SplitsAgree
    <3>4. Group[c] \in G /\ frozen[Group[c]] = tasks[c].split
      BY <3>3
    <3> QED BY <3>4, <1>7, <2>3
  <2>7. \A a \in builder'.todo : Group[Case[a]] \in DOMAIN new
    BY <1>5, <2>3
  <2> HIDE DEF new
  <2> QED BY <1>5, <1>6, <2>2, <2>5, <2>6, <2>7 DEF SplitsAgree
<1> QED BY <1>9, <1>10

LEMMA FillKeeps ==
  ASSUME IInv, Fill
  PROVE  /\ tasks' \in [Cases -> {NoTask} \cup TaskRows] /\ BuilderTyped' /\ SplitsAgree'
         /\ \A c \in Cases : tasks'[c] = tasks[c] \/ tasks[c] = NoTask
         /\ \A c \in Cases : tasks'[c] # tasks[c] => tasks'[c].status = "pending"
<1> DEFINE a == Min(builder.todo)
           c == Case[a]
           rest == builder.todo \ {a}
<1>1. builder.todo \in (SUBSET known) \ {{}} /\ known \subseteq Assessments
  BY DEF IInv, Typed, TypeOK, Fill, Idle
<1>2. a \in builder.todo
  <2>1. IsFiniteSet(builder.todo) /\ builder.todo \in SUBSET Nat /\ builder.todo # {}
    BY <1>1, ReviewAssumption, FS_Subset
  <2> QED BY <2>1, MinAndMaxAreMembers
<1> HIDE DEF a
<1>3. a \in Assessments /\ c \in Cases
  BY <1>1, <1>2, ReviewAssumption
<1>4. /\ queues # <<>> /\ \A b \in builder.todo : Group[Case[b]] \in DOMAIN Last
  BY DEF IInv, SplitsAgree, Fill, Idle
<1>5. Last[Group[c]] \in Splits
  BY <1>2, <1>4, QueueTypes DEF SplitFunctions
<1>6. /\ UNCHANGED <<queues, known>>
      /\ Last' = Last
  BY DEF Fill, Last
<1>7. tasks \in [Cases -> {NoTask} \cup TaskRows]
  BY TaskTypes, <1>3 DEF IInv
<1>8. CASE tasks[c] = NoTask
  <2> DEFINE new == [assessment |-> a, split |-> Last[Group[c]], status |-> "pending"]
  <2>1. tasks' = [tasks EXCEPT ![c] = new]
    BY <1>8 DEF Fill, a, Last
  <2>2. builder' = IF rest = {} THEN Idle ELSE [builder EXCEPT !.todo = rest]
    BY <1>8 DEF Fill, a
  <2>3. new \in TaskRows
    BY <1>3, <1>5 DEF TaskRows, Statuses
  <2>4. tasks' \in [Cases -> {NoTask} \cup TaskRows]
    BY <1>7, <2>1, <2>3
  <2>5. /\ BuilderTyped'
        /\ builder' # Idle => \A b \in builder'.todo : Group[Case[b]] \in DOMAIN Last
    <3>1. CASE rest = {}
      BY <2>2, <3>1 DEF BuilderTyped
    <3>2. CASE rest # {}
      <4>1. builder' = [builder EXCEPT !.todo = rest]
        BY <2>2, <3>2
      <4>2. /\ builder'.at = builder.at
            /\ builder'.todo = builder.todo \/ builder'.todo = rest
        BY <4>1
      <4>3. builder'.at = "filling"
        BY <4>2 DEF Fill
      <4>4. builder'.todo \in (SUBSET known) \ {{}} /\ builder'.todo \subseteq builder.todo
        BY <1>1, <4>2, <3>2
      <4> QED BY <4>3, <4>4, <1>4, <1>6 DEF BuilderTyped
    <3> QED BY <3>1, <3>2
  <2>6. \A x \in Cases : tasks'[x] # NoTask =>
          Group[x] \in DOMAIN Last /\ Last[Group[x]] = tasks'[x].split
    <3>1. TAKE x \in Cases
    <3>2. CASE x = c
      BY <3>2, <2>1, <1>2, <1>4, <1>7
    <3>3. CASE x # c
      BY <3>3, <2>1, <1>7 DEF IInv, SplitsAgree
    <3> QED BY <3>2, <3>3
  <2>7. \A x \in Cases : x # c => tasks'[x] = tasks[x]
    BY <2>1, <1>7
  <2>8. tasks'[c].status = "pending"
    BY <2>1, <1>7, <1>3
  <2>9. SplitsAgree'
    BY <1>4, <1>6, <2>5, <2>6 DEF IInv, SplitsAgree
  <2> QED BY <1>8, <2>4, <2>5, <2>7, <2>8, <2>9
<1>9. CASE tasks[c] # NoTask
  <2>1. tasks' = tasks /\ builder' = Idle
    BY <1>9 DEF Fill, a
  <2> QED BY <1>6, <1>7, <2>1 DEF IInv, SplitsAgree, BuilderTyped
<1> QED BY <1>8, <1>9

(* Only Build and Fill change the queues.                                  *)
LEMMA SplitsKept ==
  ASSUME IInv, [Next]_vars
  PROVE  /\ queues' \in Seq(SplitFunctions) /\ BuilderTyped' /\ SplitsAgree'
<1>1. CASE Build
  BY <1>1, BuildKeeps
<1>2. CASE Fill
  BY <1>2, FillKeeps, QueueTypes DEF Fill
<1>3. CASE ~Build /\ ~Fill
  <2>1. /\ queues' = queues /\ known \subseteq known'
        /\ builder' = builder \/ builder' = Idle
    BY <1>3 DEF Next, Produce, Interrupt, Assign, OpenPacket, Submit, Present, Adjudicate, Fit,
           Freeze, Report, Activate, vars, queueVars
  <2>2. BuilderTyped
    BY DEF IInv, Typed, TypeOK, BuilderTyped
  <2>3. BuilderTyped'
    BY <2>1, <2>2 DEF BuilderTyped
  <2>4. Last' = Last
    BY <2>1 DEF Last
  <2>5. \A c \in Cases : tasks'[c] # NoTask =>
          queues # <<>> /\ Group[c] \in DOMAIN Last /\ Last[Group[c]] = tasks'[c].split
    <3>1. TAKE c \in Cases
    <3>2. CASE tasks[c] # NoTask
      BY <3>2, TaskStays DEF IInv, SplitsAgree
    <3>3. CASE tasks[c] = NoTask
      <4>1. \/ tasks' = tasks
            \/ \E x \in Cases : tasks[x] # NoTask /\ tasks' = [tasks EXCEPT ![x] = tasks'[x]]
        <5>1. CASE \E x \in Cases, r \in Reviewers : Assign(x, r)
          <6>1. PICK x \in Cases, r \in Reviewers : Assign(x, r)
            BY <5>1
          <6>2. tasks[x] # NoTask /\ tasks \in [Cases -> {NoTask} \cup TaskRows]
            BY <6>1, TaskTypes DEF IInv, Assign
          <6> QED BY <6>1, <6>2 DEF Assign
        <5>2. CASE \E x \in Cases, r \in Reviewers, label \in Labels : Submit(x, r, label)
          <6>1. PICK x \in Cases, r \in Reviewers, label \in Labels : Submit(x, r, label)
            BY <5>2
          <6>2. assigned[x] # {}
            BY <6>1 DEF Submit
          <6>3. tasks[x].status # "absent"
            BY <6>2 DEF IInv, StatusIsResolved, StatusOf
          <6>4. tasks[x] # NoTask /\ tasks \in [Cases -> {NoTask} \cup TaskRows]
            BY <6>3, TaskTypes DEF IInv
          <6>5. tasks' = [tasks EXCEPT ![x].status = StatusOf(x)']
            BY <6>1 DEF Submit
          <6> QED BY <6>4, <6>5
        <5>3. CASE \E x \in Cases, label \in Labels : Adjudicate(x, label)
          <6>1. PICK x \in Cases, label \in Labels : Adjudicate(x, label)
            BY <5>3
          <6>2. tasks[x] # NoTask /\ tasks \in [Cases -> {NoTask} \cup TaskRows]
            BY <6>1, TaskTypes DEF IInv, Adjudicate, NoTask
          <6> QED BY <6>1, <6>2 DEF Adjudicate
        <5> QED BY <1>3, <5>1, <5>2, <5>3 DEF Next, Produce, Interrupt, OpenPacket, Present,
                   Fit, Freeze, Report, Activate, vars, queueVars
      <4>2. tasks'[c] = tasks[c]
        <5>1. tasks \in [Cases -> {NoTask} \cup TaskRows]
          BY TaskTypes DEF IInv
        <5> QED BY <4>1, <3>3, <5>1
      <4> QED BY <4>2, <3>3
    <3> QED BY <3>2, <3>3
  <2> QED BY <2>1, <2>3, <2>4, <2>5, QueueTypes DEF IInv, SplitsAgree
<1> QED BY <1>1, <1>2, <1>3

-----------------------------------------------------------------------------
(* Types.                                                                  *)

LEMMA MembersTypes ==
  ASSUME IInv, NEW split, NEW part
  PROVE  Members(split, part) \in MemberSets
<1>1. \A x \in Cases : Truth(x) \in Decisive => Truth(x) \in Labels
  BY ReviewAssumption
<1> QED BY <1>1 DEF Members, MemberSets

LEMMA ReleasesKept ==
  ASSUME IInv, [Next]_vars
  PROVE  /\ releases' \in Seq(ReleaseRows) /\ active' \in 0..Len(releases')
<1>1. releases \in Seq(ReleaseRows) /\ Len(releases) \in Nat /\ DOMAIN releases = 1..Len(releases)
      /\ active \in 0..Len(releases)
  BY LenProperties DEF IInv, Typed, TypeOK
<1>2. CASE Fit
  <2> DEFINE split == queues[Len(queues)]
             fit == {m \in Members(split, "calibration") :
                       tasks[m[1]].assessment \notin Abstentions}
  <2>1. PICK agrees \in BOOLEAN :
          releases' = Append(releases, [split |-> split, fit |-> fit, agrees |-> agrees,
                                        policy |-> FALSE, report |-> {}])
    BY <1>2 DEF Fit
  <2>2. split \in SplitFunctions
    BY <1>2, QueueTypes DEF Fit, Last
  <2>3. fit \in MemberSets
    BY MembersTypes DEF MemberSets
  <2> DEFINE new == [split |-> split, fit |-> fit, agrees |-> agrees,
                     policy |-> FALSE, report |-> {}]
  <2>4. new \in ReleaseRows
    <3> HIDE DEF split, fit
    <3>1. {} \in MemberSets
      BY DEF MemberSets
    <3> QED BY <2>2, <2>3, <3>1 DEF ReleaseRows
  <2>5. releases' = Append(releases, new) /\ active' = active
    BY <2>1, <1>2 DEF Fit
  <2> HIDE DEF new
  <2>6. releases' \in Seq(ReleaseRows) /\ Len(releases') = Len(releases) + 1
    BY <1>1, <2>4, <2>5, AppendProperties
  <2> QED BY <1>1, <2>5, <2>6
<1>3. CASE \E k \in DOMAIN releases : Freeze(k)
  <2>1. PICK k \in DOMAIN releases : releases' = [releases EXCEPT ![k].policy = TRUE]
    BY <1>3 DEF Freeze
  <2>2. releases[k] \in ReleaseRows
    BY <1>1, ElementOfSeq
  <2>3. [releases[k] EXCEPT !.policy = TRUE] \in ReleaseRows
    BY <2>2 DEF ReleaseRows
  <2>4. releases' \in Seq(ReleaseRows) /\ Len(releases') = Len(releases)
    BY <1>1, <2>1, <2>3
  <2> QED BY <1>1, <1>3, <2>4 DEF Freeze
<1>4. CASE \E k \in DOMAIN releases : Report(k)
  <2>1. PICK k \in DOMAIN releases :
          releases' = [releases EXCEPT ![k].report = Members(releases[k].split, "test")]
    BY <1>4 DEF Report
  <2>2. releases[k] \in ReleaseRows
    BY <1>1, ElementOfSeq
  <2>3. [releases[k] EXCEPT !.report = Members(releases[k].split, "test")] \in ReleaseRows
    BY <2>2, MembersTypes DEF ReleaseRows
  <2>4. releases' \in Seq(ReleaseRows) /\ Len(releases') = Len(releases)
    BY <1>1, <2>1, <2>3
  <2> QED BY <1>1, <1>4, <2>4 DEF Report
<1>5. CASE \E k \in DOMAIN releases : Activate(k)
  BY <1>1, <1>5 DEF Activate
<1>6. CASE UNCHANGED releaseVars
  BY <1>1, <1>6 DEF releaseVars
<1>7. \/ UNCHANGED releaseVars
      \/ Fit \/ \E k \in DOMAIN releases : Freeze(k) \/ Report(k) \/ Activate(k)
  BY DEF Next, Produce, Build, Fill, Interrupt, Assign, OpenPacket, Submit, Present, Adjudicate,
         vars
<1> QED BY <1>2, <1>3, <1>4, <1>5, <1>6, <1>7

(* The rows of the answers.                                                *)
AnswersTyped ==
  /\ tasks \in [Cases -> {NoTask} \cup TaskRows]
  /\ assigned \in [Cases -> SUBSET Reviewers]
  /\ answers \in [Cases -> [Reviewers -> Seq(Labels)]]
  /\ packet = [c \in Cases |-> packet[c]] /\ verdict = [c \in Cases |-> verdict[c]]
  /\ \A c \in Cases : packet[c] # None => packet[c].by \in Reviewers
  /\ \A c \in Cases : verdict[c] # None => verdict[c].label \in Labels

LEMMA AnswersKept ==
  ASSUME IInv, [Next]_vars
  PROVE  AnswersTyped'
<1>1. AnswersTyped
  BY TaskTypes DEF IInv, Typed, TypeOK, AnswersTyped
<1>2. CASE \E c \in Cases, r \in Reviewers : Assign(c, r)
  <2>1. PICK c \in Cases, r \in Reviewers : Assign(c, r)
    BY <1>2
  <2>2. tasks[c] \in TaskRows
    BY <1>1, <2>1 DEF AnswersTyped, Assign, NoTask
  <2>3. [tasks[c] EXCEPT !.status = "in_review"] \in TaskRows
    BY <2>2 DEF TaskRows, Statuses
  <2> QED BY <1>1, <2>1, <2>3 DEF AnswersTyped, Assign
<1>3. CASE \E c \in Cases, r \in Reviewers, label \in Labels : Submit(c, r, label)
  <2>1. PICK c \in Cases, r \in Reviewers, label \in Labels : Submit(c, r, label)
    BY <1>3
  <2>2. assigned[c] # {}
    BY <2>1 DEF Submit
  <2>3. tasks[c].status # "absent"
    BY <2>2 DEF IInv, StatusIsResolved, StatusOf
  <2>4. tasks[c] \in TaskRows
    BY <2>3, TaskTypes DEF IInv
  <2>5. StatusOf(c)' \in Statuses
    BY DEF StatusOf, Statuses
  <2>6. [tasks[c] EXCEPT !.status = StatusOf(c)'] \in TaskRows
    BY <2>4, <2>5 DEF TaskRows
  <2>7. tasks' = [tasks EXCEPT ![c].status = StatusOf(c)']
    BY <2>1 DEF Submit
  <2>8. tasks' \in [Cases -> {NoTask} \cup TaskRows]
    BY <1>1, <2>6, <2>7 DEF AnswersTyped
  <2>9. answers' \in [Cases -> [Reviewers -> Seq(Labels)]]
    <3>1. answers' = [answers EXCEPT ![c][r] = Append(answers[c][r], label)]
      BY <2>1 DEF Submit
    <3>2. answers[c][r] \in Seq(Labels)
      BY <1>1 DEF AnswersTyped
    <3>3. Append(answers[c][r], label) \in Seq(Labels)
      BY <3>2, AppendProperties
    <3> QED BY <1>1, <3>1, <3>3 DEF AnswersTyped
  <2> QED BY <1>1, <2>1, <2>8, <2>9 DEF AnswersTyped, Submit
<1>4. CASE \E c \in Cases, label \in Labels : Adjudicate(c, label)
  <2>1. PICK c \in Cases, label \in Labels : Adjudicate(c, label)
    BY <1>4
  <2>2. tasks[c] \in TaskRows
    BY <1>1, <2>1 DEF AnswersTyped, Adjudicate, NoTask
  <2>3. [tasks[c] EXCEPT !.status = "completed"] \in TaskRows
    BY <2>2 DEF TaskRows, Statuses
  <2> QED BY <1>1, <2>1, <2>3 DEF AnswersTyped, Adjudicate
<1>5. CASE \E c \in Cases, r \in Reviewers : OpenPacket(c, r)
  <2>1. PICK c \in Cases, r \in Reviewers : OpenPacket(c, r)
    BY <1>5
  <2>2. packet' = [packet EXCEPT ![c] = [by |-> r, heads |-> Heads(c)]]
    BY <2>1 DEF OpenPacket
  <2>3. /\ packet' = [x \in Cases |-> packet'[x]]
        /\ \A x \in Cases : packet'[x] # None => packet'[x].by \in Reviewers
    BY <1>1, <2>2 DEF AnswersTyped
  <2>4. UNCHANGED <<tasks, assigned, answers, verdict>>
    BY <2>1 DEF OpenPacket, queueVars
  <2> QED BY <1>1, <2>3, <2>4 DEF AnswersTyped
<1>6. CASE Fill
  BY <1>1, <1>6, FillKeeps DEF AnswersTyped, Fill, answerVars
<1>7. CASE \/ \E a \in Assessments : Produce(a) \/ Present(a)
           \/ Build \/ Interrupt \/ Fit
           \/ \E k \in DOMAIN releases : Freeze(k) \/ Report(k) \/ Activate(k)
           \/ UNCHANGED vars
  BY <1>1, <1>7 DEF AnswersTyped, Produce, Build, Interrupt, Fit, Present, Freeze, Report,
              Activate, vars, queueVars, answerVars, releaseVars
<1> QED BY <1>2, <1>3, <1>4, <1>5, <1>6, <1>7 DEF Next

LEMMA TypedKept ==
  ASSUME IInv, [Next]_vars
  PROVE  Typed'
<1> USE ReviewAssumption
<1>1. /\ known \subseteq Assessments /\ shown \subseteq Cases /\ exposed \subseteq Cases
      /\ seen \subseteq Reviewers \X Cases
      /\ corrections \in 0..MaxCorrections /\ faults \in 0..MaxFaults
  BY DEF IInv, Typed, TypeOK
<1>2. known' \subseteq Assessments
  <2>1. UNCHANGED known \/ \E a \in Assessments : known' = known \cup {a}
    BY DEF Next, Produce, Build, Fill, Interrupt, Assign, OpenPacket, Submit, Present,
           Adjudicate, Fit, Freeze, Report, Activate, vars
  <2> QED BY ONLY <1>1, <2>1
<1>3. shown' \subseteq Cases /\ exposed' \subseteq Cases /\ seen' \subseteq Reviewers \X Cases
  <2>1. /\ UNCHANGED shown \/ \E a \in Assessments : shown' = shown \cup {Case[a]}
        /\ UNCHANGED exposed \/ \E a \in Assessments : exposed' = exposed \cup {Case[a]}
    BY DEF Next, Produce, Build, Fill, Interrupt, Assign, OpenPacket, Submit, Present,
           Adjudicate, Fit, Freeze, Report, Activate, vars
  <2>3. Case \in [Assessments -> Cases]
    BY ReviewAssumption
  <2>2. UNCHANGED seen \/ \E c \in Cases, r \in Reviewers : seen' = seen \cup {<<r, c>>}
    BY DEF Next, Produce, Build, Fill, Interrupt, Assign, OpenPacket, Submit, Present,
           Adjudicate, Fit, Freeze, Report, Activate, vars
  <2> QED BY ONLY <1>1, <2>1, <2>2, <2>3
<1>4. corrections' \in 0..MaxCorrections /\ faults' \in 0..MaxFaults
  <2>1. UNCHANGED corrections \/ (corrections < MaxCorrections /\ corrections' = corrections + 1)
    BY DEF Next, Produce, Build, Fill, Interrupt, Assign, OpenPacket, Submit, Present,
           Adjudicate, Fit, Freeze, Report, Activate, vars
  <2>2. UNCHANGED faults \/ (faults < MaxFaults /\ faults' = faults + 1)
    BY DEF Next, Produce, Build, Fill, Interrupt, Assign, OpenPacket, Submit, Present,
           Adjudicate, Fit, Freeze, Report, Activate, vars
  <2>3. MaxCorrections \in Nat /\ MaxFaults \in Nat
    OBVIOUS
  <2> QED BY ONLY <1>1, <2>1, <2>2, <2>3
<1>5. queues' \in Seq(SplitFunctions) /\ BuilderTyped'
  BY SplitsKept
<1>6. \A i \in DOMAIN queues' : queues'[i] \in SplitFunctions
  BY <1>5, LenProperties, ElementOfSeq
<1>7. releases' \in Seq(ReleaseRows) /\ active' \in 0..Len(releases')
  BY ReleasesKept
<1>8. AnswersTyped'
  BY AnswersKept
<1>9. TypeOK'
  <2>1. /\ tasks' \in [Cases -> {NoTask} \cup
                        [assessment : Assessments, split : Splits, status : Statuses]]
        /\ assigned' \in [Cases -> SUBSET Reviewers]
        /\ \A c \in Cases : packet'[c] # None => packet'[c].by \in Reviewers
        /\ \A c \in Cases : verdict'[c] # None => verdict'[c].label \in Labels
    BY ONLY <1>8 DEF AnswersTyped, TaskRows
  <2>2. \A c \in Cases, r \in Reviewers : answers'[c][r] \in Seq(Labels)
    BY ONLY <1>8 DEF AnswersTyped
  <2>3. \/ builder' = Idle
        \/ /\ builder'.at = "filling"
           /\ builder'.todo \in (SUBSET known') \ {{}}
    BY ONLY <1>5 DEF BuilderTyped
  <2> QED BY ONLY <1>2, <1>3, <1>4, <1>6, <1>7, <2>1, <2>2, <2>3 DEF TypeOK
<1> QED BY <1>5, <1>7, <1>8, <1>9 DEF Typed, AnswersTyped

-----------------------------------------------------------------------------
(* Statuses.                                                               *)

StatusFits(c) ==
  IF assigned[c] = {} THEN tasks[c].status \in {"absent", "pending"}
  ELSE tasks[c].status = StatusOf(c)

LEMMA SameStatus ==
  ASSUME StatusIsResolved, NEW c \in Cases, assigned'[c] = assigned[c],
         answers'[c] = answers[c], verdict'[c] = verdict[c], tasks'[c] = tasks[c]
  PROVE  StatusFits(c)'
BY SameTruth DEF StatusIsResolved, StatusFits

LEMMA AssignFits ==
  ASSUME IInv, NEW c \in Cases, NEW r \in Reviewers, Assign(c, r)
  PROVE  StatusIsResolved'
<1>1. AnswersTyped
  BY TaskTypes DEF IInv, Typed, TypeOK, AnswersTyped
<1>2. \A d \in Cases : d # c => StatusFits(d)'
  <2> SUFFICES ASSUME NEW d \in Cases, d # c PROVE StatusFits(d)'
    OBVIOUS
  <2>1. /\ assigned'[d] = assigned[d] /\ answers'[d] = answers[d] /\ verdict'[d] = verdict[d]
        /\ tasks'[d] = tasks[d]
    BY <1>1 DEF AnswersTyped, Assign
  <2> QED BY <2>1, SameStatus DEF IInv
<1>3. assigned'[c] = assigned[c] \cup {r} /\ answers' = answers /\ tasks'[c].status = "in_review"
  BY <1>1 DEF AnswersTyped, Assign, NoTask, TaskRows
<1>4. Answered(c)' = Answered(c)
  BY <1>3 DEF Answered, IInv, ReviewersAnswer, Assign
<1>5. Cardinality(Answered(c)) < Required
  <2>1. Cardinality(assigned[c]) < Required
    BY DEF Assign
  <2> QED BY <2>1, AnsweredIsFinite, ReviewAssumption DEF IInv
<1>6. StatusFits(c)'
  BY <1>3, <1>4, <1>5 DEF StatusFits, StatusOf
<1> QED BY <1>2, <1>6 DEF StatusIsResolved, StatusFits

LEMMA SubmitFits ==
  ASSUME IInv, NEW c \in Cases, NEW r \in Reviewers, NEW label \in Labels, Submit(c, r, label)
  PROVE  StatusIsResolved'
<1>1. AnswersTyped
  BY TaskTypes DEF IInv, Typed, TypeOK, AnswersTyped
<1>2. \A d \in Cases : d # c => StatusFits(d)'
  <2> SUFFICES ASSUME NEW d \in Cases, d # c PROVE StatusFits(d)'
    OBVIOUS
  <2>1. /\ assigned'[d] = assigned[d] /\ answers'[d] = answers[d] /\ verdict'[d] = verdict[d]
        /\ tasks'[d] = tasks[d]
    BY <1>1 DEF AnswersTyped, Submit
  <2> QED BY <2>1, SameStatus DEF IInv
<1>3. assigned'[c] # {} /\ tasks' = [tasks EXCEPT ![c].status = StatusOf(c)']
  BY DEF Submit
<1>4. tasks[c] \in TaskRows
  <2>1. tasks[c].status # "absent"
    BY <1>3 DEF Submit, IInv, StatusIsResolved, StatusOf
  <2> QED BY <2>1, TaskTypes DEF IInv
<1>5. tasks'[c].status = StatusOf(c)'
  <2>1. tasks \in [Cases -> {NoTask} \cup TaskRows]
    BY <1>1 DEF AnswersTyped
  <2>2. tasks'[c] = [tasks[c] EXCEPT !.status = StatusOf(c)']
    BY <1>3, <2>1
  <2> QED BY <1>4, <2>2 DEF TaskRows
<1>6. StatusFits(c)'
  BY <1>3, <1>5 DEF StatusFits
<1> QED BY <1>2, <1>6 DEF StatusIsResolved, StatusFits

LEMMA AdjudicateFits ==
  ASSUME IInv, NEW c \in Cases, NEW label \in Labels, Adjudicate(c, label)
  PROVE  StatusIsResolved'
<1>1. AnswersTyped
  BY TaskTypes DEF IInv, Typed, TypeOK, AnswersTyped
<1>2. \A d \in Cases : d # c => StatusFits(d)'
  <2> SUFFICES ASSUME NEW d \in Cases, d # c PROVE StatusFits(d)'
    OBVIOUS
  <2>1. /\ assigned'[d] = assigned[d] /\ answers'[d] = answers[d] /\ verdict'[d] = verdict[d]
        /\ tasks'[d] = tasks[d]
    BY <1>1 DEF AnswersTyped, Adjudicate
  <2> QED BY <2>1, SameStatus DEF IInv
<1>3. /\ tasks[c].status = "awaiting_adjudication" /\ packet[c].heads = Heads(c)
      /\ assigned' = assigned /\ answers' = answers
      /\ verdict' = [verdict EXCEPT ![c] = [heads |-> packet[c].heads, label |-> label]]
      /\ tasks' = [tasks EXCEPT ![c].status = "completed"]
  BY DEF Adjudicate, Current
<1>4. /\ assigned[c] # {} /\ ~(Cardinality(Answered(c)) < Required) /\ Truth(c) = None
  <2>1. assigned[c] # {} /\ StatusOf(c) = "awaiting_adjudication"
    BY <1>3 DEF IInv, StatusIsResolved
  <2> QED BY <2>1 DEF StatusOf
<1>5. Answered(c)' = Answered(c) /\ Heads(c)' = Heads(c)
  BY <1>3 DEF Answered, Heads
<1> DEFINE given == {Latest(c, r) : r \in Answered(c)}
<1>6. given' = given
  <2>1. \A r \in Answered(c) : Latest(c, r)' = Latest(c, r)
    BY <1>3 DEF Latest
  <2> QED BY <1>5, <2>1
<1>7. verdict'[c] # None /\ verdict'[c].heads = Heads(c)' /\ verdict'[c].label = label
  <2>1. verdict'[c] = [heads |-> Heads(c), label |-> label]
    BY <1>1, <1>3 DEF AnswersTyped
  <2>2. Heads(c) \in [Answered(c) -> Nat] /\ Answered(c) \in SUBSET Reviewers
    <3>1. Answered(c) \subseteq Reviewers
      BY AnsweredIsFinite DEF IInv
    <3>2. \A r \in Answered(c) : Len(answers[c][r]) \in Nat
      BY <3>1, <1>1, LenProperties DEF AnswersTyped
    <3> QED BY <3>1, <3>2 DEF Heads
  <2>3. Heads(c) \in UNION {[S -> Nat] : S \in SUBSET Reviewers}
    BY <2>2
  <2>4. [heads |-> Heads(c), label |-> label] # None
    BY <2>3, ReviewAssumption
  <2> QED BY <2>1, <2>4, <1>5
<1>8. Truth(c)' # None
  <2>1. Truth(c) = IF Cardinality(given) = 1 THEN CHOOSE l \in given : TRUE
                   ELSE IF verdict[c] # None /\ verdict[c].heads = Heads(c)
                        THEN verdict[c].label ELSE None
    BY <1>4 DEF Truth
  <2>2. Truth(c)' = IF Cardinality(given') = 1 THEN CHOOSE l \in given' : TRUE
                    ELSE IF verdict'[c] # None /\ verdict'[c].heads = Heads(c)'
                         THEN verdict'[c].label ELSE None
    BY <1>4, <1>5 DEF Truth
  <2>3. CASE Cardinality(given) = 1
    <3>1. Truth(c)' = Truth(c)
      <4> HIDE DEF given
      <4> QED BY <1>6, <2>1, <2>2, <2>3
    <3>2. (CHOOSE l \in given : TRUE) \in Labels
      <4>1. given \subseteq Labels /\ given # {}
        <5>1. given \subseteq Labels
          <6> SUFFICES ASSUME NEW r \in Answered(c) PROVE Latest(c, r) \in Labels
            OBVIOUS
          <6>1. r \in Reviewers /\ answers[c][r] # <<>>
            BY AnsweredIsFinite DEF IInv, Answered
          <6>2. answers[c][r] \in Seq(Labels)
            BY <1>1, <6>1 DEF AnswersTyped
          <6> QED BY <6>1, <6>2 DEF Latest
        <5>2. given # {}
          BY <2>3, FS_EmptySet
        <5> QED BY <5>1, <5>2
      <4> QED BY <4>1
    <3>3. Truth(c) \in Labels
      BY <2>1, <2>3, <3>2
    <3> QED BY <1>4, <3>3, ReviewAssumption
  <2>4. CASE Cardinality(given) # 1
    <3>1. Truth(c)' = label
      <4> HIDE DEF given
      <4> QED BY <1>6, <1>7, <2>2, <2>4
    <3> QED BY <3>1, ReviewAssumption
  <2> QED BY <2>3, <2>4
<1>9. tasks'[c].status = "completed"
  <2>1. tasks[c] \in TaskRows
    BY <1>3, TaskTypes DEF IInv, NoTask
  <2> QED BY <1>1, <1>3, <2>1 DEF AnswersTyped, TaskRows
<1>10. StatusFits(c)'
  BY <1>3, <1>4, <1>5, <1>8, <1>9 DEF StatusFits, StatusOf
<1> QED BY <1>2, <1>10 DEF StatusIsResolved, StatusFits

LEMMA StatusKept ==
  ASSUME IInv, [Next]_vars
  PROVE  StatusIsResolved'
<1>1. CASE \E c \in Cases, r \in Reviewers : Assign(c, r)
  BY <1>1, AssignFits
<1>2. CASE \E c \in Cases, r \in Reviewers, label \in Labels : Submit(c, r, label)
  BY <1>2, SubmitFits
<1>3. CASE \E c \in Cases, label \in Labels : Adjudicate(c, label)
  BY <1>3, AdjudicateFits
<1>4. CASE Fill
  <2> SUFFICES ASSUME NEW c \in Cases PROVE StatusFits(c)'
    BY DEF StatusIsResolved, StatusFits
  <2>1. UNCHANGED <<assigned, answers, verdict>>
    BY <1>4 DEF Fill, answerVars
  <2>2. CASE tasks'[c] = tasks[c]
    BY <2>1, <2>2, SameStatus DEF IInv
  <2>3. CASE tasks'[c] # tasks[c]
    <3>1. tasks[c] = NoTask /\ tasks'[c].status = "pending"
      BY <1>4, <2>3, FillKeeps
    <3>2. assigned[c] = {}
      BY <3>1 DEF IInv, StatusIsResolved, StatusOf, NoTask
    <3> QED BY <2>1, <3>1, <3>2 DEF StatusFits
  <2> QED BY <2>2, <2>3
<1>5. CASE UNCHANGED <<tasks, assigned, answers, verdict>>
  <2> SUFFICES ASSUME NEW c \in Cases PROVE StatusFits(c)'
    BY DEF StatusIsResolved, StatusFits
  <2> QED BY <1>5, SameStatus DEF IInv
<1>6. \/ UNCHANGED <<tasks, assigned, answers, verdict>> \/ Fill
      \/ \E c \in Cases, r \in Reviewers :
           Assign(c, r) \/ \E label \in Labels : Submit(c, r, label)
      \/ \E c \in Cases, label \in Labels : Adjudicate(c, label)
  BY DEF Next, Produce, Build, Interrupt, OpenPacket, Present, Fit, Freeze, Report, Activate,
         vars, queueVars, answerVars, releaseVars
<1> QED BY <1>1, <1>2, <1>3, <1>4, <1>5, <1>6

-----------------------------------------------------------------------------
(* Reviewers, releases and what is shown.                                  *)

LEMMA ReviewersKept ==
  ASSUME IInv, [Next]_vars
  PROVE  ReviewersAnswer' /\ \A s \in seen' : s[1] \notin assigned'[s[2]]
<1>1. /\ AnswersTyped /\ seen \subseteq Reviewers \X Cases
      /\ \A s \in seen : s[1] \notin assigned[s[2]]
      /\ ReviewersAnswer
  BY TaskTypes DEF IInv, Typed, TypeOK, AnswersTyped, ShownWhenAllowed
<1>2. CASE \E c \in Cases, r \in Reviewers : Assign(c, r)
  <2>1. PICK c \in Cases, r \in Reviewers : Assign(c, r)
    BY <1>2
  <2>2. /\ r \notin assigned[c] /\ Cardinality(assigned[c]) < Required
        /\ assigned' = [assigned EXCEPT ![c] = assigned[c] \cup {r}]
        /\ answers' = answers /\ seen' = seen
    BY <2>1 DEF Assign
  <2>3. /\ Cardinality(assigned[c] \cup {r}) = Cardinality(assigned[c]) + 1
        /\ Cardinality(assigned[c]) \in Nat /\ Required \in Nat
    BY <2>2, AnsweredIsFinite, FS_AddElement, ReviewAssumption DEF IInv
  <2>4. Cardinality(assigned[c] \cup {r}) <= Required
    BY <2>2, <2>3
  <2>5. \A s \in seen : s[2] \in Cases /\ s[2] # c
    BY <1>1, <2>2, <2>3 DEF ReviewersAnswer
  <2>6. assigned'[c] = assigned[c] \cup {r} /\ \A d \in Cases : d # c => assigned'[d] = assigned[d]
    BY <1>1, <2>2 DEF AnswersTyped
  <2> QED BY <1>1, <2>2, <2>4, <2>5, <2>6 DEF ReviewersAnswer
<1>3. CASE \E c \in Cases, r \in Reviewers, label \in Labels : Submit(c, r, label)
  BY <1>1, <1>3 DEF Submit, AnswersTyped, ReviewersAnswer
<1>4. CASE \E c \in Cases, r \in Reviewers : OpenPacket(c, r)
  <2>1. PICK c \in Cases, r \in Reviewers : OpenPacket(c, r)
    BY <1>4
  <2>2. /\ seen' = seen \cup {<<r, c>>} /\ r \notin assigned[c]
        /\ assigned' = assigned /\ answers' = answers
        /\ tasks[c].status = "awaiting_adjudication"
    BY <2>1 DEF OpenPacket
  <2>3. assigned[c] # {} /\ ~(Cardinality(Answered(c)) < Required)
    BY <2>2 DEF IInv, StatusIsResolved, StatusOf
  <2>4. Cardinality(assigned[c]) <= Required
    BY <1>1 DEF ReviewersAnswer
  <2>5. Cardinality(assigned[c]) = Required
    BY <2>3, <2>4, AnsweredIsFinite, ReviewAssumption DEF IInv
  <2> QED BY <1>1, <2>2, <2>5 DEF ReviewersAnswer
<1>5. CASE UNCHANGED <<assigned, answers, seen>>
  BY <1>1, <1>5 DEF ReviewersAnswer
<1>6. \/ UNCHANGED <<assigned, answers, seen>>
      \/ \E c \in Cases, r \in Reviewers :
           \/ Assign(c, r) \/ OpenPacket(c, r)
           \/ \E label \in Labels : Submit(c, r, label)
  BY DEF Next, Produce, Build, Fill, Interrupt, Present, Adjudicate, Fit, Freeze, Report,
         Activate, vars, answerVars
<1> QED BY <1>2, <1>3, <1>4, <1>5, <1>6

LEMMA MembersResolved ==
  ASSUME IInv, NEW split, NEW part, NEW m \in Members(split, part)
  PROVE  Resolved(m, part) /\ m[1] \in Cases
BY DEF Members, Resolved

LEMMA ResolvedStays ==
  ASSUME IInv, [Next]_vars, NEW m \in Cases \X Labels, NEW part, Resolved(m, part)
  PROVE  Resolved(m, part)'
<1>1. m[1] \in Cases /\ tasks[m[1]].status = "completed"
  BY DEF Resolved
<1>2. tasks'[m[1]] = tasks[m[1]] /\ Truth(m[1])' = Truth(m[1])
  BY <1>1, CompletedStays
<1> QED BY <1>2 DEF Resolved

LEMMA MembersKept ==
  ASSUME IInv, [Next]_vars
  PROVE  MembersAreResolved'
<1>1. /\ releases \in Seq(ReleaseRows) /\ Len(releases) \in Nat
      /\ DOMAIN releases = 1..Len(releases)
  BY LenProperties DEF IInv, Typed
<1>2. \A k \in DOMAIN releases : releases[k] \in ReleaseRows
  BY <1>1, ElementOfSeq
<1>3. \A k \in DOMAIN releases :
        /\ \A m \in releases[k].fit : Resolved(m, "calibration")'
        /\ \A m \in releases[k].report : Resolved(m, "test")'
  <2>1. TAKE k \in DOMAIN releases
  <2>2. releases[k].fit \subseteq Cases \X Labels /\ releases[k].report \subseteq Cases \X Labels
    BY <1>2 DEF ReleaseRows, MemberSets
  <2> QED BY <2>2, ResolvedStays DEF IInv, MembersAreResolved
<1>4. \A split, part : \A m \in Members(split, part) : Resolved(m, part)'
  <2>1. TAKE split, part
  <2>2. Members(split, part) \subseteq Cases \X Labels
    BY MembersTypes DEF MemberSets
  <2> QED BY <2>2, MembersResolved, ResolvedStays
<1>5. CASE Fit
  <2> DEFINE split == queues[Len(queues)]
             fit == {m \in Members(split, "calibration") :
                       tasks[m[1]].assessment \notin Abstentions}
  <2>1. PICK agrees \in BOOLEAN :
          releases' = Append(releases, [split |-> split, fit |-> fit, agrees |-> agrees,
                                        policy |-> FALSE, report |-> {}])
    BY <1>5 DEF Fit
  <2> DEFINE new == [split |-> split, fit |-> fit, agrees |-> agrees,
                     policy |-> FALSE, report |-> {}]
  <2>2. /\ DOMAIN releases' = 1..(Len(releases) + 1)
        /\ \A k \in 1..Len(releases) : releases'[k] = releases[k]
        /\ releases'[Len(releases) + 1] = new
    <3>1. releases' = Append(releases, new)
      BY <2>1
    <3> HIDE DEF new
    <3> QED BY <1>1, <3>1
  <2>3. \A m \in new.fit : Resolved(m, "calibration")'
    BY <1>4
  <2>4. new.report = {}
    OBVIOUS
  <2> HIDE DEF new
  <2>5. \A k \in DOMAIN releases' : k \in DOMAIN releases \/ k = Len(releases) + 1
    BY <1>1, <2>2
  <2> QED BY <1>1, <1>3, <2>2, <2>3, <2>4, <2>5 DEF MembersAreResolved
<1>6. CASE \E k \in DOMAIN releases : Report(k)
  <2>1. PICK k \in DOMAIN releases :
          releases' = [releases EXCEPT ![k].report = Members(releases[k].split, "test")]
    BY <1>6 DEF Report
  <2>2. /\ DOMAIN releases' = DOMAIN releases
        /\ \A n \in DOMAIN releases : releases'[n].fit = releases[n].fit
        /\ \A n \in DOMAIN releases : n # k => releases'[n] = releases[n]
        /\ releases'[k].report = Members(releases[k].split, "test")
    BY <2>1, <1>1, <1>2 DEF ReleaseRows
  <2> QED BY <1>3, <1>4, <2>2 DEF MembersAreResolved
<1>7. CASE \E k \in DOMAIN releases : Freeze(k)
  <2>1. PICK k \in DOMAIN releases : releases' = [releases EXCEPT ![k].policy = TRUE]
    BY <1>7 DEF Freeze
  <2>2. /\ DOMAIN releases' = DOMAIN releases
        /\ \A n \in DOMAIN releases :
             releases'[n].fit = releases[n].fit /\ releases'[n].report = releases[n].report
    BY <2>1, <1>1, <1>2 DEF ReleaseRows
  <2> QED BY <1>3, <2>2 DEF MembersAreResolved
<1>8. CASE UNCHANGED releases
  BY <1>3, <1>8 DEF MembersAreResolved
<1>9. UNCHANGED releases \/ Fit \/ \E k \in DOMAIN releases : Freeze(k) \/ Report(k)
  BY DEF Next, Produce, Build, Fill, Interrupt, Assign, OpenPacket, Submit, Present, Adjudicate,
         Activate, vars, releaseVars
<1> QED BY <1>5, <1>6, <1>7, <1>8, <1>9

LEMMA ShownKept ==
  ASSUME IInv, [Next]_vars
  PROVE  ShownWhenAllowed'
<1>1. \A c \in Cases : Frozen(c) => Frozen(c)'
  BY ReleaseStays DEF Frozen
<1>2. \A c \in shown :
        c \in Cases /\ tasks[c].status = "completed" /\ (tasks[c].split = "test" => Frozen(c))
  BY DEF IInv, ShownWhenAllowed, Typed, TypeOK
<1>3. \A c \in shown : tasks'[c].status = "completed" /\ (tasks'[c].split = "test" => Frozen(c)')
  BY <1>1, <1>2, CompletedStays
<1>4. CASE \E a \in Assessments : Present(a) /\ tasks[Case[a]].assessment = a
  <2>1. PICK c \in Cases : ~Sealed(c) /\ shown' = shown \cup {c}
    BY <1>4, ReviewAssumption DEF Present, Embargoed
  <2>2. tasks[c].status = "completed" /\ (tasks[c].split = "test" => Frozen(c))
    BY <2>1 DEF Sealed
  <2>3. tasks'[c].status = "completed" /\ (tasks'[c].split = "test" => Frozen(c)')
    BY <1>1, <2>2, CompletedStays
  <2> QED BY <1>3, <2>1, <2>3, ReviewersKept DEF ShownWhenAllowed
<1>5. CASE ~ \E a \in Assessments : Present(a) /\ tasks[Case[a]].assessment = a
  <2>1. shown' = shown
    BY <1>5 DEF Next, Present, Produce, Build, Fill, Interrupt, Assign, OpenPacket, Submit,
           Adjudicate, Fit, Freeze, Report, Activate, vars
  <2> QED BY <1>3, <2>1, ReviewersKept DEF ShownWhenAllowed
<1> QED BY <1>4, <1>5

-----------------------------------------------------------------------------
(* The theorems.                                                           *)

LEMMA Invariant == Spec => []IInv
<1>1. IInv /\ [Next]_vars => IInv'
  BY TypedKept, StatusKept, ReviewersKept, SplitsKept, MembersKept, ShownKept DEF IInv
<1> QED BY InitIInv, <1>1, PTL DEF Spec

(* Whatever the reviewers, the builds and the releases do in between, a    *)
(* task's status says what its answers resolve to, no leakage group is in  *)
(* both partitions, what a release was fitted to and tested on stays       *)
(* resolved as it was, and the output a task holds is not shown as that    *)
(* task's before it may be.                                                *)
THEOREM ReviewsStaySound == Spec => []ReviewsAreSound
<1>1. IInv => ReviewsAreSound
  <2> SUFFICES ASSUME IInv PROVE ReviewsAreSound
    OBVIOUS
  <2>1. releases \in Seq(ReleaseRows) /\ DOMAIN releases = 1..Len(releases)
    BY LenProperties DEF IInv, Typed
  <2>2. \A k \in DOMAIN releases :
          releases[k].fit \subseteq Cases \X Labels /\ releases[k].report \subseteq Cases \X Labels
    <3>1. TAKE k \in DOMAIN releases
    <3>2. releases[k] \in ReleaseRows
      BY <2>1, ElementOfSeq
    <3> QED BY <3>2 DEF ReleaseRows, MemberSets
  <2>3. ReleasesStayTrue
    BY DEF IInv, MembersAreResolved, Resolved, ReleasesStayTrue
  <2>4. ASSUME NEW k \in DOMAIN releases, NEW n \in DOMAIN releases,
               NEW m \in releases[k].fit, NEW t \in releases[n].report
        PROVE  Group[m[1]] # Group[t[1]]
    <3>1. m[1] \in Cases /\ t[1] \in Cases
      BY <2>2
    <3>2. /\ tasks[m[1]].status = "completed" /\ tasks[m[1]].split = "calibration"
          /\ tasks[t[1]].status = "completed" /\ tasks[t[1]].split = "test"
      BY DEF IInv, MembersAreResolved, Resolved
    <3>3. tasks[m[1]] # NoTask /\ tasks[t[1]] # NoTask
      BY <3>2 DEF NoTask
    <3>4. Last[Group[m[1]]] = "calibration" /\ Last[Group[t[1]]] = "test"
      BY <3>1, <3>2, <3>3 DEF IInv, SplitsAgree
    <3> QED BY <3>4
  <2>5. \A i \in DOMAIN queues, c \in Cases :
          tasks[c] # NoTask /\ Group[c] \in DOMAIN queues[i] => queues[i][Group[c]] = tasks[c].split
    BY DEF IInv, SplitsAgree
  <2>6. GroupsStayApart
    BY <2>4, <2>5 DEF GroupsStayApart
  <2> QED BY <2>3, <2>6 DEF IInv, Typed, ReviewsAreSound
<1> QED BY Invariant, <1>1, PTL

(* Nobody answers, corrects or decides after the output that the case's    *)
(* task holds was shown as that task's to anybody, and nobody who was      *)
(* shown the answers of a case answers it.                                 *)
THEOREM AnswersStayBlind == Spec => AnswersAreBlind
<1> DEFINE Blind == \A c \in Cases :
      /\ answers'[c] # answers[c] \/ verdict'[c] # verdict[c] => c \notin shown
      /\ \A r \in Reviewers : answers'[c][r] # answers[c][r] => <<r, c>> \notin seen
<1>1. IInv /\ [Next]_vars => Blind
  <2> SUFFICES ASSUME IInv, [Next]_vars, NEW c \in Cases
               PROVE  /\ answers'[c] # answers[c] \/ verdict'[c] # verdict[c] => c \notin shown
                      /\ \A r \in Reviewers :
                           answers'[c][r] # answers[c][r] => <<r, c>> \notin seen
    OBVIOUS
  <2>1. c \in shown => tasks[c].status = "completed"
    BY DEF IInv, ShownWhenAllowed
  <2>2. c \in shown => answers'[c] = answers[c] /\ verdict'[c] = verdict[c]
    BY <2>1, CompletedStays
  <2>3. ASSUME NEW r \in Reviewers, answers'[c][r] # answers[c][r] PROVE <<r, c>> \notin seen
    <3>1. AnswersTyped
      BY TaskTypes DEF IInv, Typed, TypeOK, AnswersTyped
    <3>2. \E label \in Labels : Submit(c, r, label)
      <4>1. PICK x \in Cases, p \in Reviewers, label \in Labels : Submit(x, p, label)
        BY <2>3 DEF Next, Produce, Build, Fill, Interrupt, Assign, OpenPacket, Present,
               Adjudicate, Fit, Freeze, Report, Activate, vars, answerVars
      <4>2. answers' = [answers EXCEPT ![x][p] = Append(answers[x][p], label)]
        BY <4>1 DEF Submit
      <4>3. x = c
        BY <4>2, <2>3, <3>1 DEF AnswersTyped
      <4>4. p = r
        BY <4>2, <4>3, <2>3, <3>1 DEF AnswersTyped
      <4> QED BY <4>1, <4>3, <4>4
    <3>3. r \in assigned[c]
      BY <3>2 DEF Submit
    <3> QED BY <3>3 DEF IInv, ShownWhenAllowed
  <2> QED BY <2>2, <2>3
<1>2. Spec => [][Blind]_vars
  BY Invariant, <1>1, PTL DEF Spec
<1> QED BY <1>2 DEF AnswersAreBlind

(* A completed task keeps its row and its resolved label, and a release    *)
(* keeps what it was fitted to, its split, its policy and its report.      *)
THEOREM TruthStaysFinal == Spec => TruthIsFinal
<1> DEFINE Final ==
      /\ \A c \in Cases : tasks[c].status = "completed" =>
           tasks'[c] = tasks[c] /\ Truth(c)' = Truth(c)
      /\ \A k \in DOMAIN releases :
           /\ releases'[k].fit = releases[k].fit /\ releases'[k].split = releases[k].split
           /\ releases[k].policy => releases'[k].policy
           /\ releases[k].report # {} => releases'[k].report = releases[k].report
<1>1. IInv /\ [Next]_vars => Final
  BY CompletedStays, ReleaseStays
<1>2. Spec => [][Final]_vars
  BY Invariant, <1>1, PTL DEF Spec
<1> QED BY <1>2 DEF TruthIsFinal

=============================================================================

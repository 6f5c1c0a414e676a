-------------------------- MODULE AssessmentProofs --------------------------
(***************************************************************************)
(* Invariants of Assessments, proved for every set of jobs, items, keys,   *)
(* workers and policies and any number of days and faults.                 *)
(*                                                                         *)
(* AssessmentsAreTrue is inductive once it also says where an entry of the *)
(* cache comes from: a copy has an original because the entry it was made  *)
(* from has one.                                                           *)
(*                                                                         *)
(* BudgetIsExact is inductive with the types and what keeps the attempts   *)
(* apart: their numbers, the budget row of each open reservation, and that *)
(* no two workers execute a claim of the same attempt.                     *)
(***************************************************************************)
EXTENDS Assessments, FiniteSetTheorems, TLAPS

CacheHasOriginal ==
  \A c \in cache : \E k \in Items :
    /\ Key[k] = c.key /\ ~record[k].cached
    /\ record[k].judged /\ record[k].status = c.status

IInv == AssessmentsAreTrue /\ CacheHasOriginal

LEMMA RefreshedType ==
  ASSUME TypeOK, NEW j \in Jobs, NEW items
  PROVE  /\ Refreshed(items, j) \in JobRows
         /\ Refreshed(items, j).cancel = job[j].cancel
         /\ Refreshed(items, j).born = job[j].born
         /\ Refreshed(items, j).done = Cardinality(Terminal(items, j))
         /\ Refreshed(items, j).status # "absent"
<1>1. IsFiniteSet(Terminal(items, j))
  BY ItemAssumption, FS_Subset DEF ItemAssumption, Terminal, ItemsOf
<1>2. Cardinality(Terminal(items, j)) \in Nat
  BY <1>1, FS_CardinalityType
<1>3. job[j] \in JobRows
  BY DEF TypeOK
<1>4. StatusOf(items, j) \in {"running", "partial", "completed", "cancelled"}
  BY DEF StatusOf
<1> QED BY <1>2, <1>3, <1>4 DEF Refreshed, JobRows

LEMMA InitIInv == Init => IInv
<1> SUFFICES ASSUME Init PROVE IInv
  OBVIOUS
<1> USE ItemAssumption, PolicyAssumption
<1>1. TypeOK
  <2>1. policy \in Policies \cup {DefaultPolicy}
    BY DEF Init, StoreInit
  <2>2. /\ job \in [Jobs -> JobRows] /\ item \in [Items -> ItemRows]
    BY DEF Init, StoreInit, JobRows, ItemRows
  <2>3. /\ reserved \in [Days -> Nat] /\ charged \in [Days -> Nat] /\ day \in Days
    BY DEF Init, StoreInit, Days, PolicyAssumption
  <2>4. record \in [Items -> Records]
    BY DEF Init, StoreInit, NoRecord, Records
  <2>5. faults \in 0..MaxFaults
    BY DEF Init, StoreInit, PolicyAssumption
  <2> QED BY <2>1, <2>2, <2>3, <2>4, <2>5 DEF Init, StoreInit, TypeOK
<1>2. RecordsMatchItems /\ CopiesHaveAnOriginal /\ DecisionsFollowPolicy /\ CacheHasOriginal
  BY DEF Init, StoreInit, RecordsMatchItems, CopiesHaveAnOriginal, DecisionsFollowPolicy,
         CacheHasOriginal, NoRecord, Final
<1>3. JobsMatchItems
  BY DEF Init, StoreInit, JobsMatchItems, ItemsOf
<1> QED BY <1>1, <1>2, <1>3 DEF IInv, AssessmentsAreTrue

-----------------------------------------------------------------------------
(* Types.                                                                  *)

(* What the updates of single columns make of a row of assessment_job_items. *)
LEMMA ItemUpdates ==
  ASSUME NEW r \in ItemRows, NEW s \in {"pending", "running"} \cup Final
  PROVE  /\ [r EXCEPT !.status = s] \in ItemRows
         /\ [r EXCEPT !.lease = "over"] \in ItemRows
         /\ [r EXCEPT !.due = TRUE] \in ItemRows
         /\ \A w \in Workers : [r EXCEPT !.status = "running", !.tries = @ + 1, !.owner = w,
                                         !.lease = "live"] \in ItemRows
         /\ [r EXCEPT !.status = "pending", !.owner = None, !.lease = "none", !.due = FALSE]
               \in ItemRows
<1>1. [r EXCEPT !.status = s] \in ItemRows
  BY DEF ItemRows
<1>2. [r EXCEPT !.lease = "over"] \in ItemRows
  BY DEF ItemRows
<1>3. [r EXCEPT !.due = TRUE] \in ItemRows
  BY DEF ItemRows
<1>4. r.tries + 1 \in Nat
  BY DEF ItemRows
<1>5. \A w \in Workers : [r EXCEPT !.status = "running", !.tries = r.tries + 1, !.owner = w,
                                   !.lease = "live"] \in ItemRows
  BY <1>4 DEF ItemRows
<1>6. [r EXCEPT !.status = "pending", !.owner = None, !.lease = "none", !.due = FALSE]
        \in ItemRows
  BY DEF ItemRows
<1> QED BY <1>1, <1>2, <1>3, <1>5, <1>6

LEMMA FinishType ==
  ASSUME TypeOK, NEW i \in Items, NEW s \in Final, FinishItem(i, s)
  PROVE  item' \in [Items -> ItemRows] /\ job' \in [Jobs -> JobRows]
<1>1. item' \in [Items -> ItemRows]
  <2>1. item \in [Items -> ItemRows]
    BY DEF TypeOK
  <2>2. [item[i] EXCEPT !.status = s, !.owner = None, !.lease = "none"] \in ItemRows
    BY <2>1 DEF ItemRows
  <2>3. item' = [item EXCEPT ![i] = [item[i] EXCEPT !.status = s, !.owner = None,
                                                    !.lease = "none"]]
    BY DEF FinishItem
  <2> QED BY <2>1, <2>2, <2>3
<1>2. Job[i] \in Jobs
  BY ItemAssumption DEF ItemAssumption
<1>3. Refreshed(item', Job[i]) \in JobRows
  BY <1>2, RefreshedType
<1> QED BY <1>1, <1>2, <1>3 DEF FinishItem, TypeOK, JobRows

LEMMA AnswerType ==
  ASSUME NEW claim \in Claims, NEW a \in AnswersTo(claim)
  PROVE  a.status \in Final /\ a.judged \in BOOLEAN /\ a.cost \in Nat
<1>1. claim.row.reserved \in Nat /\ Overrun \in Nat
  BY PolicyAssumption DEF Claims, Rows, PolicyAssumption
<1>2. \A c \in Costs(claim) : c \in Nat
  BY <1>1 DEF Costs
<1>3. \A st \in Final, judged \in BOOLEAN, retry \in BOOLEAN, c \in Nat :
        LET b == Answer(st, judged, retry, c)
        IN b.status \in Final /\ b.judged \in BOOLEAN /\ b.cost \in Nat
  BY DEF Answer
<1>4. {"succeeded", "abstained", "failed", "provider_unavailable", "budget_blocked"}
        \subseteq Final
  BY DEF Final
<1>5. ASSUME NEW b \in Judgements(claim)
      PROVE  b.status \in Final /\ b.judged \in BOOLEAN /\ b.cost \in Nat
  <2>1. PICK c \in Costs(claim) : b = Answer("succeeded", TRUE, FALSE, c)
    BY DEF Judgements
  <2>2. c \in Nat /\ "succeeded" \in Final
    BY <1>2, <1>4
  <2> QED BY <2>1, <2>2 DEF Answer
<1>6. ASSUME NEW b \in Failures(claim)
      PROVE  b.status \in Final /\ b.judged \in BOOLEAN /\ b.cost \in Nat
  BY <1>1, <1>3, <1>4 DEF Failures
<1>7. CASE claim.preflight = "budget_blocked"
  BY <1>3, <1>4, <1>7 DEF AnswersTo
<1>8. CASE claim.preflight = "provider_unavailable"
  BY <1>3, <1>4, <1>8 DEF AnswersTo
<1>9. CASE claim.preflight \notin {"budget_blocked", "provider_unavailable"}
  BY <1>5, <1>6, <1>9 DEF AnswersTo
<1> QED BY <1>7, <1>8, <1>9

LEMMA BudgetType ==
  ASSUME TypeOK, NEW r \in Nat, NEW c \in Nat, ReleaseBudget(r, c)
  PROVE  rows' \subseteq Days /\ reserved' \in [Days -> Nat] /\ charged' \in [Days -> Nat]
  BY DEF ReleaseBudget, TypeOK

LEMMA ClosedType ==
  ASSUME TypeOK, NEW claim \in Claims, NEW s \in Final, NEW c \in Nat,
         CloseAttempt(claim, s, c)
  PROVE  attempt' \subseteq Rows
<1>1. claim.row \in Rows
  BY DEF Claims
<1>2. day \in Days
  BY DEF TypeOK
<1>3. [claim.row EXCEPT !.status = s, !.charged = c, !.to = day] \in Rows
  BY <1>1, <1>2 DEF Rows
<1> QED BY <1>3 DEF CloseAttempt, TypeOK

(* Every step keeps the stores in their domains.                           *)
LEMMA NextType ==
  ASSUME TypeOK, [Next]_vars
  PROVE  TypeOK'
<1> USE ItemAssumption, PolicyAssumption
<1>0. ASSUME NEW w \in Workers, worker[w].at = "executing"
      PROVE  worker[w] \in Claims
  BY <1>0 DEF TypeOK
<1>01. \A w \in Workers : [worker EXCEPT ![w] = [at |-> "loop"]]
                            \in [Workers -> [at : {"loop", "dead"}] \cup Claims]
  BY DEF TypeOK
<1>1. ASSUME NEW j \in Jobs, Enqueue(j) PROVE TypeOK'
  <2>1. Cardinality({k \in Jobs : job[k].status # "absent"}) \in Nat
    BY FS_Subset, FS_CardinalityType DEF ItemAssumption
  <2>2. job' \in [Jobs -> JobRows]
    <3> DEFINE n == Cardinality({k \in Jobs : job[k].status # "absent"})
    <3>1. n \in Nat
      BY <2>1
    <3>2. [job[j] EXCEPT !.status = "pending", !.born = n] \in JobRows
      <4>1. job[j] \in JobRows
        BY DEF TypeOK
      <4> HIDE DEF n
      <4> QED BY <3>1, <4>1 DEF JobRows
    <3>3. job' = [job EXCEPT ![j] = [job[j] EXCEPT !.status = "pending", !.born = n]]
      BY <1>1 DEF Enqueue, n
    <3> QED BY <3>2, <3>3 DEF TypeOK
  <2>3. item' \in [Items -> ItemRows]
    BY <1>1, ItemUpdates DEF Enqueue, NewItems, TypeOK
  <2> QED BY <1>1, <2>2, <2>3 DEF Enqueue, TypeOK, budgetVars, resultVars
<1>2. ASSUME NEW j \in Jobs, Cancel(j) PROVE TypeOK'
  <2>1. Refreshed(item', j) \in JobRows
    BY RefreshedType
  <2>2. job' \in [Jobs -> JobRows]
    BY <1>2, <2>1 DEF Cancel, TypeOK, JobRows
  <2>3. item' \in [Items -> ItemRows]
    BY <1>2, ItemUpdates DEF Cancel, TypeOK, Final
  <2> QED BY <1>2, <2>2, <2>3 DEF Cancel, TypeOK, budgetVars, resultVars
<1>3. ASSUME NEW p \in Policies, SetPolicy(p) PROVE TypeOK'
  BY <1>3 DEF SetPolicy, TypeOK, budgetVars, resultVars
<1>4. ASSUME NEW p \in Thresholds, Activate(p) PROVE TypeOK'
  BY <1>4 DEF Activate, Decide, TypeOK, budgetVars
<1>5. ASSUME NEW w \in Workers, ClaimCached(w) PROVE TypeOK'
  <2>0. PICK i \in Items : \E c \in Cached(i) : Copy(i, c)
    BY <1>5 DEF ClaimCached
  <2>1. PICK c \in Cached(i) : Copy(i, c)
    BY <2>0
  <2>2. c.status \in Final
    BY <2>1 DEF Cached, TypeOK
  <2>3. item' \in [Items -> ItemRows] /\ job' \in [Jobs -> JobRows]
    BY <2>1, <2>2, FinishType DEF Copy
  <2>4. record' \in [Items -> Records]
    BY <2>1, <2>2 DEF Copy, TypeOK, Records
  <2> QED BY <1>5, <2>3, <2>4 DEF ClaimCached, TypeOK, budgetVars
<1>6. ASSUME NEW w \in Workers, ClaimExhausted(w) PROVE TypeOK'
  <2>1. PICK i \in Items : /\ item' = [item EXCEPT ![i].status = "failed"]
                           /\ job' = [job EXCEPT ![Job[i]] = Refreshed(item', Job[i])]
    BY <1>6 DEF ClaimExhausted
  <2>2. item' \in [Items -> ItemRows]
    BY <2>1, ItemUpdates DEF TypeOK, Final
  <2>3. Refreshed(item', Job[i]) \in JobRows
    BY RefreshedType DEF ItemAssumption
  <2>4. job' \in [Jobs -> JobRows]
    BY <2>1, <2>3 DEF TypeOK
  <2> QED BY <1>6, <2>2, <2>4 DEF ClaimExhausted, TypeOK, budgetVars, resultVars
<1>7. ASSUME NEW w \in Workers, ClaimNext(w) PROVE TypeOK'
  <2>1. PICK i \in Items :
          /\ ReserveBudget(i) /\ Lease(w, i)
          /\ job' = [job EXCEPT ![Job[i]].status = IF @ = "pending" THEN "running" ELSE @]
    BY <1>7 DEF ClaimNext
  <2>2. Reservation(i) \in Nat /\ Preflight(i) \in {"none"} \cup Refused /\ item[i] \in ItemRows
    BY DEF Reservation, Preflight, Refused, TypeOK, ItemAssumption
  <2>3. Row(i, item[i].tries + 1, Reservation(i)) \in Rows
    BY <2>2 DEF Row, Rows, TypeOK, ItemRows
  <2>4. [item[i] EXCEPT !.status = "running", !.tries = @ + 1, !.owner = w, !.lease = "live"]
          \in ItemRows
    BY <2>2, ItemUpdates
  <2>5. item' \in [Items -> ItemRows] /\ attempt' \subseteq Rows
    BY <2>1, <2>3, <2>4 DEF Lease, TypeOK
  <2>6. worker' \in [Workers -> [at : {"loop", "dead"}] \cup Claims]
    BY <2>1, <2>2, <2>3 DEF Lease, TypeOK, Claims
  <2>7. job' \in [Jobs -> JobRows]
    BY <2>1 DEF TypeOK, JobRows, ItemAssumption
  <2>8. rows' \subseteq Days /\ reserved' \in [Days -> Nat] /\ charged' \in [Days -> Nat]
    BY <2>1 DEF ReserveBudget, TypeOK, ItemAssumption
  <2> QED BY <1>7, <2>5, <2>6, <2>7, <2>8 DEF ClaimNext, TypeOK, resultVars
<1>8. ASSUME NEW w \in Workers, CommitCancelled(w) PROVE TypeOK'
  <2> DEFINE claim == worker[w]
  <2>1. claim \in Claims
    BY <1>0, <1>8 DEF CommitCancelled
  <2>2. /\ ReleaseBudget(claim.row.reserved, 0) /\ CloseAttempt(claim, "cancelled", 0)
        /\ FinishItem(claim.item, "cancelled")
    BY <1>8 DEF CommitCancelled
  <2>3. claim.row.reserved \in Nat /\ claim.item \in Items /\ "cancelled" \in Final
    BY <2>1 DEF Claims, Rows, Final
  <2>4. item' \in [Items -> ItemRows] /\ job' \in [Jobs -> JobRows]
    BY <2>2, <2>3, FinishType
  <2>5. attempt' \subseteq Rows
    BY <2>1, <2>2, <2>3, ClosedType
  <2>6. rows' \subseteq Days /\ reserved' \in [Days -> Nat] /\ charged' \in [Days -> Nat]
    BY <2>2, <2>3, BudgetType
  <2> QED BY <1>01, <1>8, <2>4, <2>5, <2>6 DEF CommitCancelled, TypeOK, resultVars
<1>9. ASSUME NEW w \in Workers, CommitRetry(w) PROVE TypeOK'
  <2> DEFINE claim == worker[w]
  <2>1. claim \in Claims
    BY <1>0, <1>9 DEF CommitRetry
  <2>2. PICK a \in AnswersTo(claim) :
          ReleaseBudget(claim.row.reserved, a.cost) /\ CloseAttempt(claim, a.status, a.cost)
    BY <1>9 DEF CommitRetry
  <2>3. claim.row.reserved \in Nat /\ claim.item \in Items
    BY <2>1 DEF Claims, Rows
  <2>4. a.status \in Final /\ a.cost \in Nat
    BY <2>1, <2>2, AnswerType
  <2>5. item' \in [Items -> ItemRows]
    <3>1. [item[claim.item] EXCEPT !.status = "pending", !.owner = None, !.lease = "none",
                                   !.due = FALSE] \in ItemRows
      BY <2>3, ItemUpdates DEF TypeOK
    <3> QED BY <1>9, <3>1 DEF CommitRetry, TypeOK
  <2>6. attempt' \subseteq Rows
    BY <2>1, <2>2, <2>4, ClosedType
  <2>7. rows' \subseteq Days /\ reserved' \in [Days -> Nat] /\ charged' \in [Days -> Nat]
    BY <2>2, <2>3, <2>4, BudgetType
  <2> QED BY <1>01, <1>9, <2>5, <2>6, <2>7 DEF CommitRetry, TypeOK, resultVars
<1>10. ASSUME NEW w \in Workers, CommitFinal(w) PROVE TypeOK'
  <2> DEFINE claim == worker[w]
  <2> DEFINE i == claim.item
  <2>1. claim \in Claims
    BY <1>0, <1>10 DEF CommitFinal
  <2>2. PICK a \in AnswersTo(claim), sameModel \in BOOLEAN :
          /\ ReleaseBudget(claim.row.reserved, a.cost) /\ CloseAttempt(claim, a.status, a.cost)
          /\ record' = [record EXCEPT ![i] = [status |-> a.status, judged |-> a.judged,
                                              cached |-> FALSE]]
          /\ cache' = IF a.judged /\ sameModel
                      THEN (cache \ Cached(i)) \cup {[key |-> Key[i], status |-> a.status]}
                      ELSE cache
          /\ FinishItem(i, a.status)
    BY <1>10 DEF CommitFinal
  <2>3. claim.row.reserved \in Nat /\ i \in Items
    BY <2>1 DEF Claims, Rows
  <2>4. a.status \in Final /\ a.cost \in Nat /\ a.judged \in BOOLEAN
    BY <2>1, <2>2, AnswerType
  <2>5. item' \in [Items -> ItemRows] /\ job' \in [Jobs -> JobRows]
    BY <2>2, <2>3, <2>4, FinishType
  <2>6. attempt' \subseteq Rows
    BY <2>1, <2>2, <2>4, ClosedType
  <2>7. rows' \subseteq Days /\ reserved' \in [Days -> Nat] /\ charged' \in [Days -> Nat]
    BY <2>2, <2>3, <2>4, BudgetType
  <2>8. record' \in [Items -> Records]
    BY <2>2, <2>3, <2>4 DEF TypeOK, Records
  <2>9. cache' \subseteq [key : {Key[k] : k \in Items}, status : Final]
    <3>1. [key |-> Key[i], status |-> a.status] \in [key : {Key[k] : k \in Items}, status : Final]
      BY <2>3, <2>4
    <3> QED BY <2>2, <3>1 DEF TypeOK
  <2>10. decisions' \subseteq Items \X Thresholds
    BY <1>10, <2>3 DEF CommitFinal, Decide, TypeOK
  <2> QED BY <1>01, <1>10, <2>5, <2>6, <2>7, <2>8, <2>9, <2>10 DEF CommitFinal, TypeOK
<1>11. ASSUME NEW w \in Workers, CommitLate(w) \/ CommitFails(w) \/ Die(w) PROVE TypeOK'
  <2>1. worker' \in [Workers -> [at : {"loop", "dead"}] \cup Claims]
    BY <1>11 DEF TypeOK, CommitLate, CommitFails, Die
  <2>2. faults' \in 0..MaxFaults
    BY <1>11 DEF TypeOK, CommitLate, CommitFails, Die, PolicyAssumption
  <2> QED BY <1>11, <2>1, <2>2 DEF TypeOK, CommitLate, CommitFails, Die, budgetVars, resultVars
<1>12. ASSUME NEW i \in Items, LeaseRunsOut(i) \/ BackoffEnds(i) PROVE TypeOK'
  <2>1. item' \in [Items -> ItemRows]
    <3>1. item[i] \in ItemRows
      BY DEF TypeOK
    <3>2. /\ [item[i] EXCEPT !.lease = "over"] \in ItemRows
          /\ [item[i] EXCEPT !.due = TRUE] \in ItemRows
      BY <3>1, ItemUpdates
    <3>3. \/ item' = [item EXCEPT ![i] = [item[i] EXCEPT !.lease = "over"]]
          \/ item' = [item EXCEPT ![i] = [item[i] EXCEPT !.due = TRUE]]
      BY <1>12 DEF LeaseRunsOut, BackoffEnds
    <3> QED BY <3>2, <3>3 DEF TypeOK
  <2> QED BY <1>12, <2>1 DEF TypeOK, LeaseRunsOut, BackoffEnds, budgetVars, resultVars
<1>13. CASE NextDay
  BY <1>13 DEF NextDay, TypeOK, Days, PolicyAssumption, budgetVars, resultVars
<1>14. CASE UNCHANGED vars
  BY <1>14 DEF vars, TypeOK
<1> QED BY <1>1, <1>2, <1>3, <1>4, <1>5, <1>6, <1>7, <1>8, <1>9, <1>10, <1>11, <1>12, <1>13,
           <1>14 DEF Next, Claim, Commit

-----------------------------------------------------------------------------
(* Job rows.                                                               *)

Waiting == {"pending", "running"}

(* Refreshing sees which items are final and how, nothing else.            *)
LEMMA SameView ==
  ASSUME NEW j \in Jobs, NEW f, NEW g,
         \A i \in ItemsOf(j) : \/ f[i].status = g[i].status
                               \/ f[i].status \in Waiting /\ g[i].status \in Waiting
  PROVE  Terminal(f, j) = Terminal(g, j) /\ StatusOf(f, j) = StatusOf(g, j)
<1>1. Terminal(f, j) = Terminal(g, j)
  BY DEF Terminal, Waiting, Final
<1>2. {i \in ItemsOf(j) : f[i].status \in {"cancelled"}}
        = {i \in ItemsOf(j) : g[i].status \in {"cancelled"}}
  BY DEF Waiting
<1>3. {i \in ItemsOf(j) : f[i].status \in Refused} = {i \in ItemsOf(j) : g[i].status \in Refused}
  BY DEF Waiting, Refused
<1> QED BY <1>1, <1>2, <1>3 DEF StatusOf

(* A job is true to its items when it and their view did not change, or    *)
(* when the step refreshed it.                                             *)
JobMatches(j) ==
  \/ /\ job[j].status = "absent" /\ job[j].done = 0
     /\ \A i \in ItemsOf(j) : item[i].status = "absent"
  \/ /\ job[j].status = "pending" /\ job[j].done = 0
     /\ \A i \in ItemsOf(j) : item[i].status = "pending"
  \/ job[j].status # "absent" /\ job[j] = Refreshed(item, j)

LEMMA KeptJob ==
  ASSUME NEW j \in Jobs, JobMatches(j), job'[j] = job[j],
         \A i \in ItemsOf(j) : item'[i].status = item[i].status
  PROVE  JobMatches(j)'
<1>1. Terminal(item', j) = Terminal(item, j) /\ StatusOf(item', j) = StatusOf(item, j)
  BY SameView
<1> QED BY <1>1 DEF JobMatches, Refreshed, Terminal, StatusOf, ItemsOf

LEMMA RefreshedJob ==
  ASSUME TypeOK, NEW j \in Jobs, NEW c \in BOOLEAN,
         job'[j] = [Refreshed(item', j) EXCEPT !.cancel = c]
  PROVE  JobMatches(j)'
<1>1. job[j] \in JobRows
  BY DEF TypeOK
<1>2. job'[j].status = StatusOf(item', j) /\ job'[j].done = Cardinality(Terminal(item', j))
  BY <1>1 DEF Refreshed, JobRows
<1>3. job'[j] \in [status : {StatusOf(item', j)}, cancel : BOOLEAN,
                   done : {Cardinality(Terminal(item', j))}, born : Nat]
  BY <1>1 DEF Refreshed, JobRows
<1>4. job'[j] = [job'[j] EXCEPT !.done = Cardinality(Terminal(item', j)),
                               !.status = StatusOf(item', j)]
  BY <1>2, <1>3
<1>5. StatusOf(item', j) # "absent"
  BY DEF StatusOf
<1> QED BY <1>2, <1>4, <1>5 DEF JobMatches, Refreshed, StatusOf, Terminal, ItemsOf

LEMMA FinishJobs ==
  ASSUME TypeOK, JobsMatchItems, NEW i \in Items, NEW s \in Final,
         \A k \in Items \ {i} : item'[k] = item[k],
         job' = [job EXCEPT ![Job[i]] = Refreshed(item', Job[i])]
  PROVE  JobsMatchItems'
<1>1. SUFFICES ASSUME NEW j \in Jobs PROVE JobMatches(j)'
  BY <1>1 DEF JobsMatchItems, JobMatches
<1>2. JobMatches(j)
  BY DEF JobsMatchItems, JobMatches
<1>3. CASE j = Job[i]
  <2>1. job'[j] = Refreshed(item', j)
    BY <1>3 DEF TypeOK
  <2>2. Refreshed(item', j) \in JobRows
    BY RefreshedType
  <2>3. job'[j] = [Refreshed(item', j) EXCEPT !.cancel = Refreshed(item', j).cancel]
    BY <2>1, <2>2 DEF JobRows
  <2>4. Refreshed(item', j).cancel \in BOOLEAN
    BY <2>2 DEF JobRows
  <2> QED BY <2>3, <2>4, RefreshedJob
<1>4. CASE j # Job[i]
  <2>1. job'[j] = job[j]
    BY <1>4 DEF TypeOK
  <2>2. \A k \in ItemsOf(j) : item'[k] = item[k]
    BY <1>4 DEF ItemsOf
  <2> QED BY <1>2, <2>1, <2>2, KeptJob
<1> QED BY <1>3, <1>4

(* A job whose items only moved between waiting states keeps its row, but  *)
(* for the status that a first claim sets.                                 *)
LEMMA MovedJobs ==
  ASSUME TypeOK, JobsMatchItems, NEW i \in Items,
         item[i].status \in Waiting, item'[i].status \in Waiting,
         \A k \in Items \ {i} : item'[k] = item[k],
         \/ job' = job /\ item[i].status = "running"
         \/ job' = [job EXCEPT ![Job[i]].status = IF @ = "pending" THEN "running" ELSE @]
  PROVE  JobsMatchItems'
<1>1. SUFFICES ASSUME NEW j \in Jobs PROVE JobMatches(j)'
  BY <1>1 DEF JobsMatchItems, JobMatches
<1>2. JobMatches(j)
  BY DEF JobsMatchItems, JobMatches
<1>3. CASE j = Job[i]
  <2>1. i \in ItemsOf(j) /\ job[j] \in JobRows
    BY <1>3 DEF ItemsOf, TypeOK
  <2>2. Terminal(item', j) = Terminal(item, j) /\ StatusOf(item', j) = StatusOf(item, j)
    BY SameView DEF ItemsOf
  <2>3. job[j].status # "absent"
    BY <1>2, <2>1 DEF JobMatches, Waiting
  <2>4. CASE /\ job[j].status = "pending" /\ job[j].done = 0
             /\ \A k \in ItemsOf(j) : item[k].status = "pending"
    <3>1. Terminal(item', j) = {}
      BY <2>2, <2>4 DEF Terminal, Final
    <3>2. Cardinality(Terminal(item', j)) = 0
      BY <3>1, FS_EmptySet
    <3>3. StatusOf(item', j) = "running"
      <4>1. Terminal(item', j) # ItemsOf(j)
        BY <2>1, <3>1
      <4> QED BY <3>1, <4>1 DEF StatusOf
    <3>4. job'[j] = [job[j] EXCEPT !.status = "running"]
      <4>1. job' = [job EXCEPT ![Job[i]].status = IF @ = "pending" THEN "running" ELSE @]
        BY <2>1, <2>4
      <4> QED BY <1>3, <2>4, <4>1 DEF TypeOK
    <3>5. Refreshed(item', j) = [job[j] EXCEPT !.done = 0, !.status = "running"]
      BY <3>2, <3>3 DEF Refreshed
    <3>6. job'[j] = [Refreshed(item', j) EXCEPT !.cancel = job[j].cancel]
      <4>1. \A r \in JobRows : r.done = 0 =>
              [r EXCEPT !.status = "running"]
                = [[r EXCEPT !.done = 0, !.status = "running"] EXCEPT !.cancel = r.cancel]
        BY DEF JobRows
      <4> QED BY <2>1, <2>4, <3>4, <3>5, <4>1
    <3>7. job[j].cancel \in BOOLEAN
      BY <2>1 DEF JobRows
    <3> QED BY <3>6, <3>7, RefreshedJob
  <2>5. CASE job[j] = Refreshed(item, j)
    <3>1. job[j].status = StatusOf(item, j)
      BY <2>1, <2>5 DEF Refreshed, JobRows
    <3>2. job[j].status # "pending"
      BY <3>1 DEF StatusOf
    <3>3. job'[j] = job[j]
      BY <1>3, <2>1, <3>2 DEF TypeOK, JobRows
    <3>4. job'[j] = [Refreshed(item', j) EXCEPT !.cancel = job[j].cancel]
      BY <2>1, <2>2, <2>5, <3>3 DEF Refreshed, JobRows
    <3>5. job[j].cancel \in BOOLEAN
      BY <2>1 DEF JobRows
    <3> QED BY <3>4, <3>5, RefreshedJob
  <2> QED BY <1>2, <2>1, <2>3, <2>4, <2>5 DEF JobMatches
<1>4. CASE j # Job[i]
  <2>1. job'[j] = job[j]
    BY <1>4 DEF TypeOK
  <2>2. \A k \in ItemsOf(j) : item'[k] = item[k]
    BY <1>4 DEF ItemsOf
  <2> QED BY <1>2, <2>1, <2>2, KeptJob
<1> QED BY <1>3, <1>4

(* Every step keeps the job rows true.                                     *)
LEMMA NextJobs ==
  ASSUME TypeOK, JobsMatchItems, [Next]_vars
  PROVE  JobsMatchItems'
<1> USE ItemAssumption
<1>0. ASSUME NEW w \in Workers, worker[w].at = "executing"
      PROVE  worker[w] \in Claims
  BY <1>0 DEF TypeOK
<1>1. ASSUME NEW j \in Jobs, Enqueue(j) PROVE JobsMatchItems'
  <2>1. SUFFICES ASSUME NEW k \in Jobs PROVE JobMatches(k)'
    BY <2>1 DEF JobsMatchItems, JobMatches
  <2>2. JobMatches(k)
    BY DEF JobsMatchItems, JobMatches
  <2>3. CASE k # j
    <3>1. job'[k] = job[k] /\ \A i \in ItemsOf(k) : item'[i] = item[i]
      BY <1>1, <2>3 DEF Enqueue, NewItems, ItemsOf, TypeOK
    <3> QED BY <2>2, <3>1, KeptJob
  <2>4. CASE k = j
    <3>1. job[k] \in JobRows /\ job[k].status = "absent"
      BY <1>1, <2>4 DEF Enqueue, TypeOK
    <3>2. job[k].done = 0
      BY <2>2, <3>1 DEF JobMatches
    <3> QED BY <1>1, <2>4, <3>1, <3>2 DEF JobMatches, Enqueue, NewItems, ItemsOf, TypeOK
  <2> QED BY <2>3, <2>4
<1>2. ASSUME NEW j \in Jobs, Cancel(j) PROVE JobsMatchItems'
  <2>1. SUFFICES ASSUME NEW k \in Jobs PROVE JobMatches(k)'
    BY <2>1 DEF JobsMatchItems, JobMatches
  <2>2. JobMatches(k)
    BY DEF JobsMatchItems, JobMatches
  <2>3. CASE k # j
    <3>1. job'[k] = job[k] /\ \A i \in ItemsOf(k) : item'[i] = item[i]
      BY <1>2, <2>3 DEF Cancel, ItemsOf, TypeOK
    <3> QED BY <2>2, <3>1, KeptJob
  <2>4. CASE k = j
    <3> DEFINE c == Refreshed(item', j).cancel \/ job[j].status \in {"pending", "running", "partial"}
    <3>1. job'[k] = [Refreshed(item', k) EXCEPT !.cancel = c]
      BY <1>2, <2>4 DEF Cancel, TypeOK
    <3>2. c \in BOOLEAN
      BY RefreshedType DEF JobRows
    <3> HIDE DEF c
    <3> QED BY <3>1, <3>2, RefreshedJob
  <2> QED BY <2>3, <2>4
<1>3. ASSUME NEW w \in Workers, ClaimCached(w) PROVE JobsMatchItems'
  <2>0. PICK i \in Items : \E c \in Cached(i) : Copy(i, c)
    BY <1>3 DEF ClaimCached
  <2>1. PICK c \in Cached(i) : Copy(i, c)
    BY <2>0
  <2>2. \A k \in Items \ {i} : item'[k] = item[k]
    BY <2>1 DEF Copy, FinishItem, TypeOK
  <2>3. c.status \in Final
    BY <2>1 DEF Cached, TypeOK
  <2> QED BY <2>1, <2>2, <2>3, FinishJobs DEF Copy, FinishItem
<1>4. ASSUME NEW w \in Workers, ClaimExhausted(w) PROVE JobsMatchItems'
  <2>1. PICK i \in Items : /\ item' = [item EXCEPT ![i].status = "failed"]
                           /\ job' = [job EXCEPT ![Job[i]] = Refreshed(item', Job[i])]
    BY <1>4 DEF ClaimExhausted
  <2>2. \A k \in Items \ {i} : item'[k] = item[k]
    BY <2>1 DEF TypeOK
  <2>3. "failed" \in Final
    BY DEF Final
  <2> QED BY <2>1, <2>2, <2>3, FinishJobs
<1>5. ASSUME NEW w \in Workers, ClaimNext(w) PROVE JobsMatchItems'
  <2>1. PICK i \in Items :
          /\ Candidate(i) /\ Lease(w, i)
          /\ job' = [job EXCEPT ![Job[i]].status = IF @ = "pending" THEN "running" ELSE @]
    BY <1>5 DEF ClaimNext
  <2>2. item[i].status \in Waiting
    BY <2>1 DEF Candidate, Eligible, Waiting
  <2>3. item'[i].status = "running" /\ \A k \in Items \ {i} : item'[k] = item[k]
    BY <2>1 DEF Lease, TypeOK, ItemRows
  <2> QED BY <2>1, <2>2, <2>3, MovedJobs DEF Waiting
<1>6. ASSUME NEW w \in Workers, CommitCancelled(w) PROVE JobsMatchItems'
  <2> DEFINE i == worker[w].item
  <2>1. i \in Items /\ "cancelled" \in Final /\ FinishItem(i, "cancelled")
    BY <1>0, <1>6 DEF CommitCancelled, Claims, Final
  <2> HIDE DEF i
  <2>2. \A k \in Items \ {i} : item'[k] = item[k]
    BY <2>1 DEF FinishItem, TypeOK
  <2> QED BY <2>1, <2>2, FinishJobs DEF FinishItem
<1>7. ASSUME NEW w \in Workers, CommitRetry(w) PROVE JobsMatchItems'
  <2> DEFINE i == worker[w].item
  <2>1. /\ i \in Items /\ item[i].status = "running" /\ job' = job
        /\ item' = [item EXCEPT ![i] = [item[i] EXCEPT !.status = "pending", !.owner = None,
                                          !.lease = "none", !.due = FALSE]]
    BY <1>0, <1>7 DEF CommitRetry, OwnsLease, Claims
  <2> HIDE DEF i
  <2>2. item'[i].status = "pending" /\ \A k \in Items \ {i} : item'[k] = item[k]
    BY <2>1 DEF TypeOK, ItemRows
  <2> QED BY <2>1, <2>2, MovedJobs DEF Waiting
<1>8. ASSUME NEW w \in Workers, CommitFinal(w) PROVE JobsMatchItems'
  <2> DEFINE i == worker[w].item
  <2>1. i \in Items /\ worker[w] \in Claims
    BY <1>0, <1>8 DEF CommitFinal, Claims
  <2>2. PICK a \in AnswersTo(worker[w]) : FinishItem(i, a.status)
    BY <1>8 DEF CommitFinal
  <2>3. a.status \in Final
    BY <2>1, <2>2, AnswerType
  <2> HIDE DEF i
  <2>4. \A k \in Items \ {i} : item'[k] = item[k]
    BY <2>1, <2>2 DEF FinishItem, TypeOK
  <2> QED BY <2>1, <2>2, <2>3, <2>4, FinishJobs DEF FinishItem
<1>9. ASSUME NEW i \in Items, LeaseRunsOut(i) \/ BackoffEnds(i) PROVE JobsMatchItems'
  <2>1. SUFFICES ASSUME NEW j \in Jobs PROVE JobMatches(j)'
    BY <2>1 DEF JobsMatchItems, JobMatches
  <2>2. JobMatches(j) /\ job' = job
    BY <1>9 DEF JobsMatchItems, JobMatches, LeaseRunsOut, BackoffEnds
  <2>3. \A k \in ItemsOf(j) : item'[k].status = item[k].status
    BY <1>9 DEF LeaseRunsOut, BackoffEnds, TypeOK, ItemRows, ItemsOf
  <2> QED BY <2>2, <2>3, KeptJob
<1>10. ASSUME UNCHANGED <<job, item>> PROVE JobsMatchItems'
  <2>1. SUFFICES ASSUME NEW j \in Jobs PROVE JobMatches(j)'
    BY <2>1 DEF JobsMatchItems, JobMatches
  <2>2. JobMatches(j)
    BY DEF JobsMatchItems, JobMatches
  <2> QED BY <1>10, <2>2, KeptJob
<1>11. \/ UNCHANGED <<job, item>>
       \/ \E j \in Jobs : Enqueue(j) \/ Cancel(j)
       \/ \E w \in Workers : \/ ClaimCached(w) \/ ClaimExhausted(w) \/ ClaimNext(w)
                            \/ CommitCancelled(w) \/ CommitRetry(w) \/ CommitFinal(w)
       \/ \E i \in Items : LeaseRunsOut(i) \/ BackoffEnds(i)
  BY DEF Next, vars, Claim, Commit, SetPolicy, Activate, CommitLate, CommitFails, Die, NextDay
<1> QED BY <1>1, <1>2, <1>3, <1>4, <1>5, <1>6, <1>7, <1>8, <1>9, <1>10, <1>11

-----------------------------------------------------------------------------
(* Results.                                                                *)

ItemOk(i) ==
  /\ record[i] # NoRecord => record[i].status = item[i].status /\ item[i].status \in Final
  /\ record[i] = NoRecord /\ item[i].status \in Final => item[i].status \in {"cancelled", "failed"}
  /\ item[i].status = "cancelled" => record[i] = NoRecord /\ job[Job[i]].cancel

Results == RecordsMatchItems /\ CopiesHaveAnOriginal /\ CacheHasOriginal /\ DecisionsFollowPolicy

LEMMA NoResultYet ==
  ASSUME RecordsMatchItems, NEW i \in Items, item[i].status \notin Final
  PROVE  record[i] = NoRecord /\ ~record[i].judged /\ ~record[i].cached
<1>1. record[i] = NoRecord
  BY DEF RecordsMatchItems
<1> QED BY <1>1 DEF NoRecord

(* An open item keeps its job open.                                        *)
LEMMA OpenJob ==
  ASSUME TypeOK, JobsMatchItems, NEW i \in Items, item[i].status \in Waiting
  PROVE  job[Job[i]].status \in {"pending", "running", "partial"}
<1> DEFINE j == Job[i]
<1>1. j \in Jobs /\ i \in ItemsOf(j)
  BY ItemAssumption DEF ItemAssumption, ItemsOf
<1> HIDE DEF j
<1>2. JobMatches(j)
  BY <1>1 DEF JobsMatchItems, JobMatches
<1>3. Terminal(item, j) # ItemsOf(j)
  BY <1>1 DEF Terminal, Waiting, Final
<1>4. StatusOf(item, j) \in {"running", "partial"}
  BY <1>3 DEF StatusOf
<1>5. job[j] \in JobRows
  BY <1>1 DEF TypeOK
<1>6. Refreshed(item, j).status = StatusOf(item, j)
  BY <1>5 DEF Refreshed, JobRows
<1>7. job[j].status \in {"pending", "running", "partial"}
  BY <1>1, <1>2, <1>4, <1>6 DEF JobMatches, Waiting
<1> QED BY <1>7 DEF j

(* No step takes a cancellation back.                                      *)
LEMMA CancelKept ==
  ASSUME TypeOK, [Next]_vars, NEW j \in Jobs, job[j].cancel
  PROVE  job'[j].cancel
<1> USE ItemAssumption
<1>0. job[j] \in JobRows
  BY DEF TypeOK
<1>1. \A k \in Jobs : Refreshed(item', k).cancel = job[k].cancel
  BY RefreshedType
<1>2. ASSUME NEW k \in Jobs, job' = [job EXCEPT ![k] = Refreshed(item', k)]
      PROVE  job'[j].cancel
  BY <1>1, <1>2 DEF TypeOK
<1>3. ASSUME NEW k \in Jobs, Enqueue(k) PROVE job'[j].cancel
  BY <1>0, <1>3 DEF Enqueue, TypeOK, JobRows
<1>4. ASSUME NEW k \in Jobs, Cancel(k) PROVE job'[j].cancel
  <2>1. Refreshed(item', k) \in JobRows
    BY RefreshedType
  <2> QED BY <1>1, <1>4, <2>1 DEF Cancel, TypeOK, JobRows
<1>5. ASSUME NEW w \in Workers, ClaimCached(w) \/ ClaimExhausted(w) PROVE job'[j].cancel
  <2>1. PICK i \in Items : job' = [job EXCEPT ![Job[i]] = Refreshed(item', Job[i])]
    BY <1>5 DEF ClaimCached, ClaimExhausted, Copy, FinishItem
  <2> QED BY <1>2, <2>1 DEF ItemAssumption
<1>6. ASSUME NEW w \in Workers, ClaimNext(w) PROVE job'[j].cancel
  BY <1>0, <1>6 DEF ClaimNext, TypeOK, JobRows
<1>7. ASSUME NEW w \in Workers, CommitCancelled(w) \/ CommitFinal(w) PROVE job'[j].cancel
  <2>1. worker[w] \in Claims
    BY <1>7 DEF CommitCancelled, CommitFinal, TypeOK
  <2>2. Job[worker[w].item] \in Jobs
    BY <2>1 DEF Claims, ItemAssumption
  <2> QED BY <1>2, <1>7, <2>2 DEF CommitCancelled, CommitFinal, FinishItem
<1>8. CASE UNCHANGED job
  BY <1>8
<1>9. \/ UNCHANGED job
      \/ \E k \in Jobs : Enqueue(k) \/ Cancel(k)
      \/ \E w \in Workers : \/ ClaimCached(w) \/ ClaimExhausted(w) \/ ClaimNext(w)
                           \/ CommitCancelled(w) \/ CommitFinal(w)
  BY DEF Next, vars, Claim, Commit, SetPolicy, Activate, CommitRetry, CommitLate, CommitFails,
         Die, NextDay, LeaseRunsOut, BackoffEnds
<1> QED BY <1>3, <1>4, <1>5, <1>6, <1>7, <1>8, <1>9

(* Only one item changes, and its new result is consistent.                *)
LEMMA OneResult ==
  ASSUME TypeOK, RecordsMatchItems, [Next]_vars, NEW i \in Items, ItemOk(i)',
         \A k \in Items \ {i} : item'[k].status = item[k].status /\ record'[k] = record[k]
  PROVE  RecordsMatchItems'
<1>1. SUFFICES ASSUME NEW k \in Items \ {i} PROVE ItemOk(k)'
  BY <1>1 DEF RecordsMatchItems, ItemOk
<1>2. ItemOk(k)
  BY DEF RecordsMatchItems, ItemOk
<1>3. item[k].status = "cancelled" => job'[Job[k]].cancel
  BY <1>2, CancelKept, ItemAssumption DEF ItemOk, ItemAssumption
<1> QED BY <1>2, <1>3 DEF ItemOk, NoRecord

(* The originals of the copies and of the cache outlive the step: the item *)
(* that gets a record had none.                                            *)
LEMMA OriginalsStay ==
  ASSUME CopiesHaveAnOriginal, CacheHasOriginal, NEW i \in Items, ~record[i].judged,
         \A k \in Items \ {i} : record'[k] = record[k],
         ~record'[i].cached,
         \A c \in cache' : \/ c \in cache
                          \/ /\ c.key = Key[i] /\ c.status = record'[i].status
                             /\ ~record'[i].cached /\ record'[i].judged
  PROVE  CopiesHaveAnOriginal' /\ CacheHasOriginal'
<1>1. \A k \in Items : record[k].judged => k # i /\ record'[k] = record[k]
  OBVIOUS
<1>2. CopiesHaveAnOriginal'
  <2>1. SUFFICES ASSUME NEW x \in Items, record'[x].cached
                 PROVE  \E k \in Items : /\ Key[k] = Key[x] /\ ~record'[k].cached
                                         /\ record'[k].judged
                                         /\ record'[k].status = record'[x].status
    BY <2>1 DEF CopiesHaveAnOriginal
  <2>2. CASE record'[x] = record[x]
    BY <1>1, <2>1, <2>2 DEF CopiesHaveAnOriginal
  <2> QED BY <2>1, <2>2
<1>3. CacheHasOriginal'
  <2>1. SUFFICES ASSUME NEW c \in cache'
                 PROVE  \E k \in Items : /\ Key[k] = c.key /\ ~record'[k].cached
                                         /\ record'[k].judged /\ record'[k].status = c.status
    BY <2>1 DEF CacheHasOriginal
  <2>2. CASE c \in cache
    BY <1>1, <2>2 DEF CacheHasOriginal
  <2> QED BY <2>2
<1> QED BY <1>2, <1>3

LEMMA FinalAnswer ==
  ASSUME NEW claim \in Claims, NEW a \in AnswersTo(claim)
  PROVE  a.status \notin {"none", "cancelled"}
  BY DEF AnswersTo, Judgements, Failures, Answer

LEMMA NextResults ==
  ASSUME TypeOK, JobsMatchItems, Results, [Next]_vars
  PROVE  Results'
<1> USE ItemAssumption DEF Results
<1>0. ASSUME NEW w \in Workers, worker[w].at = "executing"
      PROVE  worker[w] \in Claims /\ worker[w].item \in Items
  BY <1>0 DEF TypeOK, Claims
<1>01. ASSUME UNCHANGED <<record, active, decisions>> PROVE DecisionsFollowPolicy'
  BY <1>01 DEF DecisionsFollowPolicy, NoRecord
<1>02. ASSUME UNCHANGED <<record, cache>> PROVE CopiesHaveAnOriginal' /\ CacheHasOriginal'
  BY <1>02 DEF CopiesHaveAnOriginal, CacheHasOriginal
<1>03. ASSUME UNCHANGED record, \A i \in Items : ItemOk(i)' PROVE RecordsMatchItems'
  BY <1>03 DEF RecordsMatchItems, ItemOk
<1>04. \A i \in Items : ItemOk(i)
  BY DEF RecordsMatchItems, ItemOk
<1>05. ASSUME NEW i \in Items, item[i].status \in Waiting, item'[i].status \in Waiting,
              \A k \in Items \ {i} : item'[k].status = item[k].status,
              UNCHANGED resultVars
       PROVE  Results'
  <2>1. ItemOk(i)'
    BY <1>05, NoResultYet DEF ItemOk, NoRecord, Waiting, Final, resultVars
  <2>2. RecordsMatchItems'
    BY <1>05, <2>1, OneResult DEF resultVars
  <2> QED BY <1>01, <1>02, <1>05, <2>2 DEF resultVars
<1>1. ASSUME NEW j \in Jobs, Enqueue(j) PROVE Results'
  <2>1. UNCHANGED resultVars
    BY <1>1 DEF Enqueue
  <2>2. ASSUME NEW i \in Items PROVE ItemOk(i)'
    <3>1. CASE Job[i] = j
      <4>1. JobMatches(j) /\ job[j].status = "absent" /\ i \in ItemsOf(j)
        BY <1>1, <3>1 DEF JobsMatchItems, JobMatches, Enqueue, ItemsOf
      <4>2. item[i].status = "absent"
        BY <4>1 DEF JobMatches
      <4>3. record[i] = NoRecord
        BY <4>2, NoResultYet DEF Final
      <4>4. item'[i].status = "pending"
        BY <1>1, <3>1 DEF Enqueue, NewItems, TypeOK, ItemRows
      <4> QED BY <2>1, <4>3, <4>4 DEF ItemOk, NoRecord, Final, resultVars
    <3>2. CASE Job[i] # j
      <4>1. item'[i] = item[i]
        BY <1>1, <3>2 DEF Enqueue, NewItems
      <4>2. job[Job[i]].cancel => job'[Job[i]].cancel
        BY CancelKept DEF ItemAssumption
      <4> QED BY <1>04, <2>1, <4>1, <4>2 DEF ItemOk, NoRecord, resultVars
    <3> QED BY <3>1, <3>2
  <2> QED BY <1>01, <1>02, <1>03, <2>1, <2>2 DEF resultVars
<1>2. ASSUME NEW j \in Jobs, Cancel(j) PROVE Results'
  <2>1. UNCHANGED resultVars
    BY <1>2 DEF Cancel
  <2>2. ASSUME NEW i \in Items PROVE ItemOk(i)'
    <3>1. job[Job[i]].cancel => job'[Job[i]].cancel
      BY CancelKept DEF ItemAssumption
    <3>2. CASE Job[i] = j /\ item[i].status = "pending"
      <4>1. item'[i].status = "cancelled"
        BY <1>2, <3>2 DEF Cancel, TypeOK, ItemRows
      <4>2. record[i] = NoRecord
        BY <3>2, NoResultYet DEF Final
      <4>3. job[j].status \in {"pending", "running", "partial"}
        BY <3>2, OpenJob DEF Waiting
      <4>4. job'[j] = [Refreshed(item', j) EXCEPT !.cancel = TRUE]
        BY <1>2, <4>3 DEF Cancel, TypeOK
      <4>5. Refreshed(item', j) \in JobRows
        BY RefreshedType
      <4>6. job'[j].cancel
        BY <4>4, <4>5 DEF JobRows
      <4> QED BY <2>1, <3>2, <4>1, <4>2, <4>6 DEF ItemOk, NoRecord, resultVars
    <3>3. CASE ~(Job[i] = j /\ item[i].status = "pending")
      <4>1. item'[i] = item[i]
        BY <1>2, <3>3 DEF Cancel
      <4> QED BY <1>04, <2>1, <3>1, <4>1 DEF ItemOk, NoRecord, resultVars
    <3> QED BY <3>2, <3>3
  <2> QED BY <1>01, <1>02, <1>03, <2>1, <2>2 DEF resultVars
<1>3. ASSUME NEW p \in Thresholds, Activate(p) PROVE Results'
  <2>1. RecordsMatchItems'
    BY <1>3 DEF Activate, RecordsMatchItems, NoRecord
  <2>2. DecisionsFollowPolicy'
    BY <1>3 DEF Activate, Decide, DecisionsFollowPolicy, NoRecord
  <2> QED BY <1>02, <1>3, <2>1, <2>2 DEF Activate
<1>4. ASSUME NEW w \in Workers, ClaimCached(w) PROVE Results'
  <2>1. PICK i \in Items : Candidate(i) /\ \E c \in Cached(i) : Copy(i, c)
    BY <1>4 DEF ClaimCached
  <2>2. PICK c \in Cached(i) : Copy(i, c)
    BY <2>1
  <2>3. item[i].status \in Waiting
    BY <2>1 DEF Candidate, Eligible, Waiting
  <2>4. record[i] = NoRecord /\ ~record[i].judged
    BY <2>3, NoResultYet DEF Waiting, Final
  <2>5. c \in cache /\ c.key = Key[i] /\ c.status \in Final
    BY <2>2 DEF Cached, TypeOK
  <2>6. c.status # "cancelled"
    <3>1. PICK k \in Items : record[k].judged /\ record[k].status = c.status
      BY <2>5 DEF CacheHasOriginal
    <3>2. record[k] # NoRecord
      BY <3>1 DEF NoRecord
    <3> QED BY <1>04, <3>1, <3>2 DEF ItemOk
  <2>7. record'[i] = [status |-> c.status, judged |-> TRUE, cached |-> TRUE]
    BY <2>2 DEF Copy, TypeOK
  <2>8. item'[i].status = c.status
    BY <2>2 DEF Copy, FinishItem, TypeOK, ItemRows
  <2>9. \A k \in Items \ {i} : item'[k] = item[k] /\ record'[k] = record[k]
    BY <2>2 DEF Copy, FinishItem, TypeOK
  <2>10. UNCHANGED <<cache, active, decisions>>
    BY <1>4 DEF ClaimCached
  <2>11. record'[i] # NoRecord
    BY <2>7 DEF NoRecord
  <2>12. ItemOk(i)'
    BY <2>5, <2>6, <2>7, <2>8, <2>11 DEF ItemOk, NoRecord
  <2>13. RecordsMatchItems'
    BY <2>9, <2>12, OneResult
  <2>14. CopiesHaveAnOriginal' /\ CacheHasOriginal'
    <3>1. \A k \in Items : record[k].judged => k # i /\ record'[k] = record[k]
      BY <2>4, <2>9
    <3>2. CacheHasOriginal'
      <4>1. SUFFICES ASSUME NEW e \in cache'
                     PROVE  \E k \in Items :
                              /\ Key[k] = e.key /\ ~record'[k].cached
                              /\ record'[k].judged /\ record'[k].status = e.status
        BY <4>1 DEF CacheHasOriginal
      <4>2. PICK k \in Items : /\ Key[k] = e.key /\ ~record[k].cached
                               /\ record[k].judged /\ record[k].status = e.status
        BY <2>10 DEF CacheHasOriginal
      <4> QED BY <3>1, <4>2
    <3>3. ASSUME NEW x \in Items, record'[x].cached
          PROVE  \E k \in Items : /\ Key[k] = Key[x] /\ ~record'[k].cached
                                 /\ record'[k].judged /\ record'[k].status = record'[x].status
      <4>1. CASE x = i
        <5>1. PICK k \in Items : /\ Key[k] = c.key /\ ~record[k].cached
                                 /\ record[k].judged /\ record[k].status = c.status
          BY <2>5 DEF CacheHasOriginal
        <5> QED BY <2>5, <2>7, <3>1, <4>1, <5>1
      <4>2. CASE x # i
        <5>1. record'[x] = record[x]
          BY <2>9, <4>2
        <5>2. PICK k \in Items : /\ Key[k] = Key[x] /\ ~record[k].cached
                                 /\ record[k].judged /\ record[k].status = record[x].status
          BY <3>3, <5>1 DEF CopiesHaveAnOriginal
        <5> QED BY <3>1, <5>1, <5>2
      <4> QED BY <4>1, <4>2
    <3> QED BY <3>2, <3>3 DEF CopiesHaveAnOriginal
  <2>15. DecisionsFollowPolicy'
    <3>1. ASSUME NEW d \in decisions' PROVE record'[d[1]] # NoRecord
      <4>1. d[1] \in Items /\ record[d[1]] # NoRecord
        BY <2>10 DEF DecisionsFollowPolicy, TypeOK
      <4> QED BY <2>9, <2>11, <4>1
    <3>2. ASSUME NEW k \in Items, record'[k] # NoRecord, active' # None,
                 <<k, active'>> \notin decisions'
          PROVE  record'[k].cached
      <4>1. CASE k = i
        BY <2>7, <4>1
      <4>2. CASE k # i
        <5>1. record'[k] = record[k] /\ <<k, active>> \notin decisions /\ active # None
          BY <2>9, <2>10, <3>2, <4>2
        <5> QED BY <3>2, <5>1 DEF DecisionsFollowPolicy
      <4> QED BY <4>1, <4>2
    <3> QED BY <3>1, <3>2 DEF DecisionsFollowPolicy, NoRecord
  <2> QED BY <2>13, <2>14, <2>15
<1>5. ASSUME NEW w \in Workers, ClaimExhausted(w) PROVE Results'
  <2>1. PICK i \in Items : Candidate(i) /\ item' = [item EXCEPT ![i].status = "failed"]
    BY <1>5 DEF ClaimExhausted
  <2>2. item[i].status \in Waiting
    BY <2>1 DEF Candidate, Eligible, Waiting
  <2>3. UNCHANGED resultVars
    BY <1>5 DEF ClaimExhausted
  <2>4. item'[i].status = "failed" /\ \A k \in Items \ {i} : item'[k] = item[k]
    BY <2>1 DEF TypeOK, ItemRows
  <2>5. record[i] = NoRecord
    BY <2>2, NoResultYet DEF Waiting, Final
  <2>6. ItemOk(i)'
    BY <2>3, <2>4, <2>5 DEF ItemOk, NoRecord, resultVars
  <2>7. RecordsMatchItems'
    BY <2>3, <2>4, <2>6, OneResult DEF resultVars
  <2> QED BY <1>01, <1>02, <2>3, <2>7 DEF resultVars
<1>6. ASSUME NEW w \in Workers, ClaimNext(w) PROVE Results'
  <2>1. PICK i \in Items : Candidate(i) /\ Lease(w, i)
    BY <1>6 DEF ClaimNext
  <2>2. item[i].status \in Waiting
    BY <2>1 DEF Candidate, Eligible, Waiting
  <2>3. item'[i].status = "running" /\ \A k \in Items \ {i} : item'[k] = item[k]
    BY <2>1 DEF Lease, TypeOK, ItemRows
  <2>4. UNCHANGED resultVars
    BY <1>6 DEF ClaimNext
  <2> QED BY <1>05, <2>2, <2>3, <2>4 DEF Waiting
<1>7. ASSUME NEW w \in Workers, CommitCancelled(w) PROVE Results'
  <2>1. PICK i \in Items :
          /\ item[i].status = "running" /\ job[Job[i]].cancel
          /\ FinishItem(i, "cancelled") /\ UNCHANGED resultVars
    BY <1>0, <1>7 DEF CommitCancelled, OwnsLease
  <2>2. item'[i].status = "cancelled" /\ \A k \in Items \ {i} : item'[k] = item[k]
    BY <2>1 DEF FinishItem, TypeOK, ItemRows
  <2>3. record[i] = NoRecord
    BY <2>1, NoResultYet DEF Final
  <2>4. job'[Job[i]].cancel
    BY <2>1, CancelKept DEF ItemAssumption
  <2>5. ItemOk(i)'
    BY <2>1, <2>2, <2>3, <2>4 DEF ItemOk, NoRecord, resultVars
  <2>6. RecordsMatchItems'
    BY <2>1, <2>2, <2>5, OneResult DEF resultVars
  <2> QED BY <1>01, <1>02, <2>1, <2>6 DEF resultVars
<1>8. ASSUME NEW w \in Workers, CommitRetry(w) PROVE Results'
  <2> DEFINE i == worker[w].item
  <2>1. /\ i \in Items /\ item[i].status = "running" /\ UNCHANGED resultVars
        /\ item' = [item EXCEPT ![i] = [item[i] EXCEPT !.status = "pending", !.owner = None,
                                          !.lease = "none", !.due = FALSE]]
    BY <1>0, <1>8 DEF CommitRetry, OwnsLease
  <2> HIDE DEF i
  <2>2. item'[i].status = "pending" /\ \A k \in Items \ {i} : item'[k] = item[k]
    BY <2>1 DEF TypeOK, ItemRows
  <2> QED BY <1>05, <2>1, <2>2 DEF Waiting
<1>9. ASSUME NEW w \in Workers, CommitFinal(w) PROVE Results'
  <2>1. PICK i \in Items :
          i = worker[w].item /\ worker[w] \in Claims /\ item[i].status = "running"
    BY <1>0, <1>9 DEF CommitFinal, OwnsLease
  <2>2. PICK a \in AnswersTo(worker[w]), sameModel \in BOOLEAN :
          /\ record' = [record EXCEPT ![i] = [status |-> a.status, judged |-> a.judged,
                                              cached |-> FALSE]]
          /\ cache' = IF a.judged /\ sameModel
                      THEN (cache \ Cached(i)) \cup {[key |-> Key[i], status |-> a.status]}
                      ELSE cache
          /\ FinishItem(i, a.status)
    BY <1>9, <2>1 DEF CommitFinal
  <2>3. /\ a.status \in Final /\ a.judged \in BOOLEAN
        /\ a.status \notin {"none", "cancelled"}
    BY <2>1, <2>2, AnswerType, FinalAnswer
  <2>31. /\ active' = active
         /\ decisions' = IF active = None THEN decisions ELSE decisions \cup ({i} \X {active})
    BY <1>9, <2>1 DEF CommitFinal, Decide
  <2>4. item'[i].status = a.status /\ \A k \in Items \ {i} : item'[k] = item[k]
    BY <2>1, <2>2 DEF FinishItem, TypeOK, ItemRows
  <2>5. /\ record'[i] = [status |-> a.status, judged |-> a.judged, cached |-> FALSE]
        /\ \A k \in Items \ {i} : record'[k] = record[k]
    BY <2>1, <2>2 DEF TypeOK
  <2>6. record[i] = NoRecord /\ ~record[i].judged
    BY <2>1, NoResultYet DEF Final
  <2>7. record'[i] # NoRecord
    BY <2>3, <2>5 DEF NoRecord
  <2>8. ItemOk(i)'
    BY <2>3, <2>4, <2>5, <2>7 DEF ItemOk, NoRecord
  <2>9. RecordsMatchItems'
    BY <2>1, <2>4, <2>5, <2>8, OneResult
  <2>10. \A c \in cache' : \/ c \in cache
                          \/ /\ c.key = Key[i] /\ c.status = record'[i].status
                             /\ ~record'[i].cached /\ record'[i].judged
    BY <2>2, <2>5
  <2>11. CopiesHaveAnOriginal' /\ CacheHasOriginal'
    <3>1. i \in Items /\ CopiesHaveAnOriginal /\ CacheHasOriginal
      OBVIOUS
    <3>2. ~record'[i].cached /\ \A k \in Items \ {i} : record'[k] = record[k]
      BY <2>5
    <3> QED BY ONLY <2>6, <2>10, <3>1, <3>2, OriginalsStay
  <2>12. DecisionsFollowPolicy'
    <3>1. ASSUME NEW d \in decisions' PROVE record'[d[1]] # NoRecord
      <4>1. CASE d \in decisions
        <5>1. d[1] \in Items /\ record[d[1]] # NoRecord
          BY <4>1 DEF DecisionsFollowPolicy, TypeOK
        <5> QED BY <2>5, <2>7, <5>1
      <4>2. CASE d \in {i} \X {active}
        BY <2>7, <4>2
      <4> QED BY <2>31, <4>1, <4>2
    <3>2. ASSUME NEW k \in Items, record'[k] # NoRecord, active # None,
                 <<k, active>> \notin decisions'
          PROVE  record'[k].cached
      <4>1. k # i /\ <<k, active>> \notin decisions
        BY <2>31, <3>2
      <4> QED BY <2>5, <3>2, <4>1 DEF DecisionsFollowPolicy
    <3> QED BY <2>31, <3>1, <3>2 DEF DecisionsFollowPolicy, NoRecord
  <2> QED BY <2>9, <2>11, <2>12
<1>10. ASSUME NEW i \in Items, LeaseRunsOut(i) \/ BackoffEnds(i) PROVE Results'
  <2>1. UNCHANGED resultVars
    BY <1>10 DEF LeaseRunsOut, BackoffEnds
  <2>2. item[i].status \in Waiting /\ \A k \in Items : item'[k].status = item[k].status
    BY <1>10 DEF LeaseRunsOut, BackoffEnds, TypeOK, ItemRows, Waiting
  <2> QED BY <1>05, <2>1, <2>2
<1>11. ASSUME UNCHANGED <<job, item, resultVars>> PROVE Results'
  BY <1>01, <1>02, <1>03, <1>04, <1>11 DEF ItemOk, NoRecord, resultVars
<1>12. \/ UNCHANGED <<job, item, resultVars>>
       \/ \E j \in Jobs : Enqueue(j) \/ Cancel(j)
       \/ \E p \in Thresholds : Activate(p)
       \/ \E w \in Workers : \/ ClaimCached(w) \/ ClaimExhausted(w) \/ ClaimNext(w)
                            \/ CommitCancelled(w) \/ CommitRetry(w) \/ CommitFinal(w)
       \/ \E i \in Items : LeaseRunsOut(i) \/ BackoffEnds(i)
  BY DEF Next, vars, Claim, Commit, SetPolicy, CommitLate, CommitFails, Die, NextDay, resultVars
<1> QED BY <1>1, <1>2, <1>3, <1>4, <1>5, <1>6, <1>7, <1>8, <1>9, <1>10, <1>11, <1>12

-----------------------------------------------------------------------------
(* Theorems.                                                               *)

LEMMA NextIInv ==
  ASSUME IInv, [Next]_vars
  PROVE  IInv'
<1> USE DEF IInv, AssessmentsAreTrue
<1>1. TypeOK'
  BY NextType
<1>2. JobsMatchItems'
  BY NextJobs
<1>3. Results'
  BY NextResults DEF Results
<1> QED BY <1>1, <1>2, <1>3 DEF Results

(* In every reachable state each item has the one result it was given,     *)
(* copies included, the job rows agree with their items, and every         *)
(* assessment is decided under the active policy.                          *)
THEOREM AssessmentsStayTrue == Spec => []AssessmentsAreTrue
<1>1. Init => IInv
  BY InitIInv
<1>2. IInv /\ [Next]_vars => IInv'
  BY NextIInv
<1>3. IInv => AssessmentsAreTrue
  BY DEF IInv
<1> QED BY <1>1, <1>2, <1>3, PTL DEF Spec

(* A final item is not touched by any step: a commit needs the lease of a  *)
(* running item, and a claim a waiting one.                                *)
LEMMA FinalItemKept ==
  ASSUME IInv, [Next]_vars, NEW i \in Items, item[i].status \in Final
  PROVE  item'[i].status = item[i].status
<1> USE ItemAssumption DEF IInv, AssessmentsAreTrue
<1>0. item[i] \in ItemRows /\ item[i].status \notin {"absent", "pending", "running"}
  BY DEF TypeOK, Final
<1>1. ASSUME NEW j \in Jobs, Enqueue(j) PROVE item'[i] = item[i]
  <2>1. JobMatches(j) /\ job[j].status = "absent"
    BY <1>1 DEF JobsMatchItems, JobMatches, Enqueue
  <2>2. i \notin ItemsOf(j)
    BY <1>0, <2>1 DEF JobMatches
  <2> QED BY <1>1, <2>2 DEF Enqueue, NewItems, ItemsOf
<1>2. ASSUME NEW j \in Jobs, Cancel(j) PROVE item'[i] = item[i]
  BY <1>0, <1>2 DEF Cancel
<1>3. ASSUME NEW w \in Workers, Claim(w) PROVE item'[i] = item[i]
  <2>1. PICK k \in Items : Candidate(k) /\ \A x \in Items \ {k} : item'[x] = item[x]
    BY <1>3 DEF Claim, ClaimCached, ClaimExhausted, ClaimNext, Copy, FinishItem, Lease, TypeOK
  <2>2. k # i
    BY <1>0, <2>1 DEF Candidate, Eligible
  <2> QED BY <2>1, <2>2
<1>4. ASSUME NEW w \in Workers, CommitCancelled(w) \/ CommitRetry(w) \/ CommitFinal(w)
      PROVE  item'[i] = item[i]
  <2>1. worker[w].item # i
    BY <1>0, <1>4 DEF CommitCancelled, CommitRetry, CommitFinal, OwnsLease
  <2> QED BY <1>4, <2>1 DEF CommitCancelled, CommitRetry, CommitFinal, FinishItem, TypeOK
<1>5. ASSUME NEW k \in Items, LeaseRunsOut(k) \/ BackoffEnds(k) PROVE item'[i] = item[i]
  BY <1>0, <1>5 DEF LeaseRunsOut, BackoffEnds, TypeOK
<1>6. CASE UNCHANGED item
  BY <1>6
<1>7. \/ UNCHANGED item
      \/ \E j \in Jobs : Enqueue(j) \/ Cancel(j)
      \/ \E w \in Workers : \/ Claim(w) \/ CommitCancelled(w) \/ CommitRetry(w)
                           \/ CommitFinal(w)
      \/ \E k \in Items : LeaseRunsOut(k) \/ BackoffEnds(k)
  BY DEF Next, vars, Commit, SetPolicy, Activate, CommitLate, CommitFails, Die, NextDay
<1> QED BY <1>1, <1>2, <1>3, <1>4, <1>5, <1>6, <1>7

(* A record is written once: only for an item that is not final yet, and   *)
(* such an item has none.                                                  *)
LEMMA RecordKept ==
  ASSUME IInv, [Next]_vars, NEW i \in Items, record[i] # NoRecord
  PROVE  record'[i] = record[i]
<1> USE DEF IInv, AssessmentsAreTrue
<1>1. item[i].status \in Final
  BY NoResultYet
<1>2. ASSUME NEW w \in Workers, ClaimCached(w) PROVE record'[i] = record[i]
  <2>1. PICK k \in Items : Candidate(k) /\ \A x \in Items \ {k} : record'[x] = record[x]
    BY <1>2 DEF ClaimCached, Copy, TypeOK
  <2>2. k # i
    BY <1>1, <2>1 DEF Candidate, Eligible, Final
  <2> QED BY <2>1, <2>2
<1>3. ASSUME NEW w \in Workers, CommitFinal(w) PROVE record'[i] = record[i]
  <2>1. worker[w].item # i
    BY <1>1, <1>3 DEF CommitFinal, OwnsLease, Final
  <2> QED BY <1>3, <2>1 DEF CommitFinal, TypeOK
<1>4. UNCHANGED record \/ \E w \in Workers : ClaimCached(w) \/ CommitFinal(w)
  BY DEF Next, vars, resultVars, Claim, Commit, Enqueue, Cancel, SetPolicy, Activate,
         ClaimExhausted, ClaimNext, CommitCancelled, CommitRetry, CommitLate, CommitFails, Die,
         LeaseRunsOut, BackoffEnds, NextDay
<1> QED BY <1>2, <1>3, <1>4

LEMMA DecisionsKept ==
  ASSUME [Next]_vars
  PROVE  decisions \subseteq decisions'
BY DEF Next, vars, resultVars, Claim, Commit, Enqueue, Cancel, SetPolicy, Activate, Decide,
       ClaimCached, ClaimExhausted, ClaimNext, CommitCancelled, CommitRetry, CommitFinal,
       CommitLate, CommitFails, Die, LeaseRunsOut, BackoffEnds, NextDay

(* Late answers, second workers and cancellations never take a result, an  *)
(* assessment or a decision back.                                          *)
THEOREM ResultsStayFinal == Spec => ResultsAreFinal
<1>1. Init => IInv
  BY InitIInv
<1>2. IInv /\ [Next]_vars => IInv'
  BY NextIInv
<1>3. IInv /\ [Next]_vars =>
        [/\ \A i \in Items :
               /\ item[i].status \in Final => item'[i].status = item[i].status
               /\ record[i] # NoRecord => record'[i] = record[i]
         /\ decisions \subseteq decisions']_vars
  BY FinalItemKept, RecordKept, DecisionsKept
<1> QED BY <1>1, <1>2, <1>3, PTL DEF Spec, ResultsAreFinal

-----------------------------------------------------------------------------
(* Sums.                                                                   *)

(* The units of one row.                                                   *)
LEMMA UnitsOfOne ==
  ASSUME NEW x, NEW n \in Nat
  PROVE  IsFiniteSet({x} \X (1..n)) /\ Cardinality({x} \X (1..n)) = n
<1>1. IsFiniteSet(1..n) /\ Cardinality(1..n) = n
  <2>1. 1 \in Int /\ n \in Int
    OBVIOUS
  <2>2. IsFiniteSet(1..n) /\ Cardinality(1..n) = IF 1 > n THEN 0 ELSE n - 1 + 1
    BY ONLY <2>1, FS_Interval
  <2> QED BY <2>2
<1>2. IsFiniteSet({x}) /\ Cardinality({x}) = 1
  BY FS_Singleton
<1>3. /\ IsFiniteSet({x} \X (1..n))
      /\ Cardinality({x} \X (1..n)) = Cardinality({x}) * Cardinality(1..n)
  BY ONLY <1>1, <1>2, FS_Product
<1> QED BY <1>1, <1>2, <1>3

LEMMA TotalFinite ==
  ASSUME NEW S, IsFiniteSet(S), NEW f \in [S -> Nat]
  PROVE  IsFiniteSet(Units(f)) /\ Total(f) \in Nat
<1> DEFINE T == {{a} \X (1..f[a]) : a \in S}
           h == [a \in S |-> {a} \X (1..f[a])]
<1>1. h \in Surjection(S, T)
  BY DEF Surjection
<1>2. IsFiniteSet(T)
  <2> HIDE DEF h, T
  <2> QED BY ONLY <1>1, FS_Surjection, IsFiniteSet(S)
<1>3. \A t \in T : IsFiniteSet(t)
  <2>1. ASSUME NEW t \in T PROVE IsFiniteSet(t)
    <3>1. PICK a \in S : t = {a} \X (1..f[a])
      BY <2>1
    <3>2. f[a] \in Nat
      OBVIOUS
    <3>3. IsFiniteSet({a} \X (1..f[a]))
      BY ONLY <3>2, UnitsOfOne
    <3> QED BY <3>1, <3>3
  <2> QED BY <2>1
<1>4. IsFiniteSet(UNION T)
  <2> HIDE DEF T
  <2> QED BY ONLY <1>2, <1>3, FS_UNION
<1>5. Units(f) = UNION T
  BY DEF Units
<1> QED BY <1>4, <1>5, FS_CardinalityType DEF Total

(* A further row adds its own number to the sum.                           *)
LEMMA TotalPlus ==
  ASSUME NEW S, IsFiniteSet(S), NEW x, x \notin S, NEW f \in [S -> Nat],
         NEW g \in [S \cup {x} -> Nat], \A a \in S : g[a] = f[a]
  PROVE  Total(g) = Total(f) + g[x]
<1> DEFINE U == Units(f)
           V == {x} \X (1..g[x])
<1>0. g[x] \in Nat /\ DOMAIN f = S /\ DOMAIN g = S \cup {x}
  OBVIOUS
<1>1. IsFiniteSet(U) /\ Cardinality(U) = Total(f) /\ Total(f) \in Nat
  BY TotalFinite DEF Total
<1>2. IsFiniteSet(V) /\ Cardinality(V) = g[x]
  BY <1>0, UnitsOfOne
<1>3. Units(g) = U \cup V
  <2>1. ASSUME NEW u \in Units(g) PROVE u \in U \cup V
    <3>1. PICK a \in S \cup {x} : u \in {a} \X (1..g[a])
      BY <1>0, <2>1 DEF Units
    <3>2. CASE a = x
      BY <3>1, <3>2
    <3>3. CASE a # x
      <4>1. a \in S /\ u \in {a} \X (1..f[a])
        BY <3>1, <3>3
      <4> QED BY <1>0, <4>1 DEF Units
    <3> QED BY <3>2, <3>3
  <2>2. ASSUME NEW u \in U PROVE u \in Units(g)
    <3>1. PICK a \in S : u \in {a} \X (1..f[a])
      BY <1>0, <2>2 DEF Units
    <3>2. u \in {a} \X (1..g[a]) /\ a \in DOMAIN g
      BY <1>0, <3>1
    <3> QED BY <3>2 DEF Units
  <2>3. V \subseteq Units(g)
    BY <1>0 DEF Units
  <2> QED BY <2>1, <2>2, <2>3
<1>4. U \cap V = {}
  <2>1. ASSUME NEW u \in U, u \in V PROVE FALSE
    <3>1. PICK a \in S : u \in {a} \X (1..f[a])
      BY <1>0, <2>1 DEF Units
    <3>2. u[1] = a /\ u[1] = x
      BY <2>1, <3>1
    <3> QED BY <3>2
  <2> QED BY <2>1
<1>5. Cardinality(U \cup V) = Cardinality(U) + Cardinality(V) - Cardinality(U \cap V)
  <2> HIDE DEF U, V
  <2> QED BY ONLY <1>1, <1>2, FS_Union
<1>6. Cardinality({}) = 0
  BY FS_EmptySet
<1>7. Total(g) = Cardinality(U \cup V)
  BY <1>3 DEF Total
<1>8. Cardinality(U \cap V) = 0
  BY <1>4, <1>6
<1>9. Cardinality(U) = Total(f) /\ Total(f) \in Nat /\ Cardinality(V) = g[x] /\ g[x] \in Nat
  BY ONLY <1>0, <1>1, <1>2
<1> HIDE DEF U, V
<1> QED BY ONLY <1>5, <1>7, <1>8, <1>9

(* What TotalPlus says of the three columns of the attempts.               *)
Reserves(S) == Total([a \in S |-> a.reserved])
Charges(S) == Total([a \in S |-> a.charged])
Excesses(S) == Total([a \in S |-> Excess(a)])

LEMMA ColumnsPlus ==
  ASSUME NEW S, IsFiniteSet(S), S \subseteq Rows, NEW x \in Rows, x \notin S
  PROVE  /\ Reserves(S) \in Nat /\ Reserves(S \cup {x}) = Reserves(S) + x.reserved
         /\ Charges(S) \in Nat /\ Charges(S \cup {x}) = Charges(S) + x.charged
         /\ Excesses(S) \in Nat /\ Excesses(S \cup {x}) = Excesses(S) + Excess(x)
<1>0. \A a \in S \cup {x} : a.reserved \in Nat /\ a.charged \in Nat
  BY DEF Rows
<1>1. \A a \in S \cup {x} : Excess(a) \in Nat
  BY <1>0 DEF Excess
<1>2. Reserves(S) \in Nat /\ Reserves(S \cup {x}) = Reserves(S) + x.reserved
  <2> DEFINE f == [a \in S |-> a.reserved]
             g == [a \in S \cup {x} |-> a.reserved]
  <2>1. f \in [S -> Nat] /\ g \in [S \cup {x} -> Nat] /\ \A a \in S : g[a] = f[a]
    BY <1>0
  <2>2. g[x] = x.reserved
    OBVIOUS
  <2> HIDE DEF f, g
  <2>3. Total(f) \in Nat
    BY ONLY <2>1, IsFiniteSet(S), TotalFinite
  <2>4. Total(g) = Total(f) + g[x]
    BY ONLY <2>1, IsFiniteSet(S), x \notin S, TotalPlus
  <2> QED BY <2>2, <2>3, <2>4 DEF Reserves, f, g
<1>3. Charges(S) \in Nat /\ Charges(S \cup {x}) = Charges(S) + x.charged
  <2> DEFINE f == [a \in S |-> a.charged]
             g == [a \in S \cup {x} |-> a.charged]
  <2>1. f \in [S -> Nat] /\ g \in [S \cup {x} -> Nat] /\ \A a \in S : g[a] = f[a]
    BY <1>0
  <2>2. g[x] = x.charged
    OBVIOUS
  <2> HIDE DEF f, g
  <2>3. Total(f) \in Nat
    BY ONLY <2>1, IsFiniteSet(S), TotalFinite
  <2>4. Total(g) = Total(f) + g[x]
    BY ONLY <2>1, IsFiniteSet(S), x \notin S, TotalPlus
  <2> QED BY <2>2, <2>3, <2>4 DEF Charges, f, g
<1>4. Excesses(S) \in Nat /\ Excesses(S \cup {x}) = Excesses(S) + Excess(x)
  <2> DEFINE f == [a \in S |-> Excess(a)]
             g == [a \in S \cup {x} |-> Excess(a)]
  <2>1. f \in [S -> Nat] /\ g \in [S \cup {x} -> Nat] /\ \A a \in S : g[a] = f[a]
    BY <1>1
  <2>2. g[x] = Excess(x)
    OBVIOUS
  <2> HIDE DEF f, g
  <2>3. Total(f) \in Nat
    BY ONLY <2>1, IsFiniteSet(S), TotalFinite
  <2>4. Total(g) = Total(f) + g[x]
    BY ONLY <2>1, IsFiniteSet(S), x \notin S, TotalPlus
  <2> QED BY <2>2, <2>3, <2>4 DEF Excesses, f, g
<1> QED BY <1>2, <1>3, <1>4
-----------------------------------------------------------------------------
(* One day of the budget: o are the attempts it holds a reservation for,   *)
(* c the ones it was charged for.                                          *)
Exact(o, c, r, m) ==
  /\ r = Reserves(o) /\ m = Charges(c)
  /\ \E p \in Policies \cup {DefaultPolicy} : r + m <= p.daily + Excesses(c)

LEMMA PolicyType ==
  ASSUME NEW p \in Policies \cup {DefaultPolicy}
  PROVE  p.daily \in Nat /\ p.perAttempt \in Nat
BY PolicyAssumption DEF PolicyAssumption, DefaultPolicy

(* An attempt that is opened within the budget.                            *)
LEMMA OpenKeepsExact ==
  ASSUME NEW o, IsFiniteSet(o), o \subseteq Rows, NEW c, IsFiniteSet(c), c \subseteq Rows,
         NEW r \in Nat, NEW m \in Nat, Exact(o, c, r, m),
         NEW x \in Rows, x \notin o, NEW p \in Policies \cup {DefaultPolicy},
         x.reserved > 0 => r + m + x.reserved <= p.daily
  PROVE  Exact(o \cup {x}, c, r + x.reserved, m)
<1>1. Reserves(o \cup {x}) = Reserves(o) + x.reserved
  BY ONLY IsFiniteSet(o), o \subseteq Rows, x \in Rows, x \notin o, ColumnsPlus
<1>2. Excesses(c) \in Nat
  <2>1. \A a \in c : Excess(a) \in Nat
    BY DEF Excess, Rows
  <2> DEFINE f == [a \in c |-> Excess(a)]
  <2>2. f \in [c -> Nat]
    BY <2>1
  <2> HIDE DEF f
  <2>3. Total(f) \in Nat
    BY ONLY <2>2, IsFiniteSet(c), TotalFinite
  <2> QED BY <2>3 DEF Excesses, f
<1>3. x.reserved \in Nat
  BY DEF Rows
<1>4. r = Reserves(o) /\ m = Charges(c)
  BY DEF Exact
<1>5. PICK q \in Policies \cup {DefaultPolicy} : r + m <= q.daily + Excesses(c)
  BY DEF Exact
<1>6. p.daily \in Nat /\ q.daily \in Nat
  BY PolicyType
<1>7. CASE x.reserved = 0
  <2>1. r + x.reserved + m <= q.daily + Excesses(c)
    BY ONLY <1>2, <1>3, <1>5, <1>6, <1>7, r \in Nat, m \in Nat
  <2> QED BY <1>1, <1>4, <2>1 DEF Exact
<1>8. CASE x.reserved # 0
  <2>1. r + x.reserved + m <= p.daily + Excesses(c)
    BY <1>2, <1>3, <1>6, <1>8
  <2> QED BY <1>1, <1>4, <2>1 DEF Exact
<1> QED BY <1>7, <1>8

(* An attempt that is closed: its reservation is given back in full.       *)
LEMMA CloseKeepsExact ==
  ASSUME NEW o, IsFiniteSet(o), o \subseteq Rows, NEW c, IsFiniteSet(c), c \subseteq Rows,
         NEW r \in Nat, NEW m \in Nat, Exact(o, c, r, m),
         NEW x \in o, NEW y \in Rows, y \notin c, y.reserved = x.reserved
  PROVE  /\ x.reserved <= r
         /\ Exact(o \ {x}, c \cup {y}, r - x.reserved, m + y.charged)
<1> DEFINE e == o \ {x}
<1>0. /\ IsFiniteSet(e) /\ e \subseteq Rows /\ x \in Rows /\ x \notin e /\ e \cup {x} = o
  BY FS_RemoveElement
<1>1. Reserves(e) \in Nat /\ Reserves(o) = Reserves(e) + x.reserved
  <2> HIDE DEF e
  <2>1. Reserves(e) \in Nat /\ Reserves(e \cup {x}) = Reserves(e) + x.reserved
    BY ONLY <1>0, ColumnsPlus
  <2> QED BY ONLY <1>0, <2>1
<1>2. /\ Charges(c) \in Nat /\ Charges(c \cup {y}) = Charges(c) + y.charged
      /\ Excesses(c) \in Nat /\ Excesses(c \cup {y}) = Excesses(c) + Excess(y)
  BY ONLY IsFiniteSet(c), c \subseteq Rows, y \in Rows, y \notin c, ColumnsPlus
<1>3. x.reserved \in Nat /\ y.charged \in Nat /\ y.reserved \in Nat
  BY <1>0 DEF Rows
<1>4. r = Reserves(o) /\ m = Charges(c)
  BY DEF Exact
<1>5. PICK q \in Policies \cup {DefaultPolicy} : r + m <= q.daily + Excesses(c)
  BY DEF Exact
<1>6. q.daily \in Nat
  BY PolicyType
<1>7. Excess(y) \in Nat /\ y.charged - x.reserved <= Excess(y)
  BY <1>3 DEF Excess
<1>8. x.reserved <= r /\ r - x.reserved = Reserves(e)
  BY ONLY <1>1, <1>3, <1>4
<1>9. r - x.reserved + (m + y.charged) <= q.daily + Excesses(c \cup {y})
  <2> DEFINE E == Excesses(c)
             F == Excess(y)
  <2>1. E \in Nat /\ F \in Nat /\ r + m <= q.daily + E /\ y.charged - x.reserved <= F
    BY ONLY <1>2, <1>5, <1>7
  <2>2. Excesses(c \cup {y}) = E + F
    BY ONLY <1>2
  <2> HIDE DEF E, F
  <2>3. r - x.reserved + (m + y.charged) <= q.daily + (E + F)
    BY ONLY <1>3, <1>6, <2>1, r \in Nat, m \in Nat
  <2> QED BY ONLY <2>2, <2>3
<1>10. m + y.charged = Charges(c \cup {y})
  BY ONLY <1>2, <1>4
<1> QED BY ONLY <1>5, <1>8, <1>9, <1>10 DEF Exact, e

-----------------------------------------------------------------------------
(* The attempts of a store.                                                *)

(* The numbers tell the attempts of an item apart, a day with an open      *)
(* reservation has a budget row, and a claim that is being executed has a  *)
(* running attempt of its own.                                             *)
AttemptsAreApart ==
  /\ IsFiniteSet(attempt)
  /\ \A a \in attempt : a.number <= item[a.item].tries
  /\ \A a, b \in attempt : a.item = b.item /\ a.number = b.number => a = b
ReservedDaysHaveRows ==
  \A a \in attempt : a.status = "running" /\ a.reserved > 0 => a.from \in rows
ClaimsAreApart ==
  /\ \A w \in Workers : worker[w].at = "executing" =>
       worker[w].row \in attempt /\ worker[w].row.status = "running"
  /\ \A w, v \in Workers :
       worker[w].at = "executing" /\ worker[v].at = "executing" /\ w # v
         => worker[w].row # worker[v].row

RowsAreKept == AttemptsAreApart /\ ReservedDaysHaveRows /\ ClaimsAreApart
BudgetInv == TypeOK /\ RowsAreKept /\ BudgetIsExact

DayIsExact(d) == ~Crossed(d) => Exact(Open(d), Closed(d), reserved[d], charged[d])

LEMMA ExactDays == BudgetIsExact <=> \A d \in Days : DayIsExact(d)
BY DEF BudgetIsExact, DayIsExact, Exact, Reserves, Charges, Excesses

LEMMA OpenAndClosed ==
  ASSUME TypeOK, AttemptsAreApart, NEW d
  PROVE  /\ IsFiniteSet(Open(d)) /\ Open(d) \subseteq Rows
         /\ IsFiniteSet(Closed(d)) /\ Closed(d) \subseteq Rows
<1>1. attempt \subseteq Rows /\ IsFiniteSet(attempt)
  BY DEF TypeOK, AttemptsAreApart
<1>2. Open(d) \in SUBSET attempt /\ Closed(d) \in SUBSET attempt
  BY DEF Open, Closed
<1> QED BY <1>1, <1>2, FS_Subset

LEMMA InitBudget == Init => BudgetInv
<1> SUFFICES ASSUME Init PROVE BudgetInv
  OBVIOUS
<1>1. TypeOK
  BY InitIInv DEF IInv, AssessmentsAreTrue
<1>2. RowsAreKept
  BY FS_EmptySet DEF Init, StoreInit, RowsAreKept, AttemptsAreApart, ReservedDaysHaveRows,
                     ClaimsAreApart
<1>3. ASSUME NEW d \in Days PROVE DayIsExact(d)
  <2>1. Open(d) = {} /\ Closed(d) = {} /\ reserved[d] = 0 /\ charged[d] = 0
    BY DEF Init, StoreInit, Open, Closed
  <2> DEFINE f == [a \in {} |-> a.reserved]
             g == [a \in {} |-> a.charged]
             h == [a \in {} |-> Excess(a)]
  <2>2. Units(f) = {} /\ Units(g) = {} /\ Units(h) = {}
    BY DEF Units
  <2>3. Reserves({}) = 0 /\ Charges({}) = 0 /\ Excesses({}) = 0
    BY <2>2, FS_EmptySet DEF Reserves, Charges, Excesses, Total
  <2>4. DefaultPolicy.daily = 0
    BY DEF DefaultPolicy
  <2> QED BY <2>1, <2>3, <2>4 DEF DayIsExact, Exact
<1> QED BY <1>1, <1>2, <1>3, ExactDays DEF BudgetInv
-----------------------------------------------------------------------------
(* Steps.                                                                  *)

LEMMA FollowsDay ==
  ASSUME NEW d, ~Crossed(d)' => Exact(Open(d)', Closed(d)', reserved'[d], charged'[d])
  PROVE  DayIsExact(d)'
BY DEF DayIsExact, Exact, Reserves, Charges, Excesses, Total, Units, Excess, Closed, Open

LEMMA FollowsBudget ==
  ASSUME \A d \in Days : DayIsExact(d)'
  PROVE  BudgetIsExact'
BY DEF BudgetIsExact, DayIsExact, Exact, Reserves, Charges, Excesses, Total, Units, Excess, Closed,
       Open, Crossed

(* Most steps leave the attempts and the budget alone.                     *)
LEMMA QuietStep ==
  ASSUME BudgetInv, TypeOK', UNCHANGED <<attempt, budgetVars>>,
         \A i \in Items : item'[i].tries = item[i].tries,
         \A w \in Workers : worker'[w] = worker[w] \/ worker'[w].at # "executing"
  PROVE  RowsAreKept' /\ BudgetIsExact'
<1>0. attempt \subseteq Rows
  BY DEF BudgetInv, TypeOK
<1>1. AttemptsAreApart'
  <2>1. \A a \in attempt : item'[a.item].tries = item[a.item].tries
    BY <1>0 DEF Rows
  <2> QED BY <2>1 DEF BudgetInv, RowsAreKept, AttemptsAreApart
<1>2. ReservedDaysHaveRows'
  BY DEF BudgetInv, RowsAreKept, ReservedDaysHaveRows, budgetVars
<1>3. ClaimsAreApart'
  BY DEF BudgetInv, RowsAreKept, ClaimsAreApart
<1>4. BudgetIsExact'
  <2>1. ASSUME NEW d \in Days PROVE DayIsExact(d)'
    <3>1. DayIsExact(d)
      BY ExactDays DEF BudgetInv
    <3>2. /\ Crossed(d)' <=> Crossed(d)
          /\ Open(d)' = Open(d) /\ Closed(d)' = Closed(d)
          /\ reserved'[d] = reserved[d] /\ charged'[d] = charged[d]
      BY DEF Crossed, Open, Closed, budgetVars
    <3> QED BY <3>1, <3>2, FollowsDay DEF DayIsExact
  <2> QED BY <2>1, FollowsBudget
<1> QED BY <1>1, <1>2, <1>3, <1>4 DEF RowsAreKept

(* A claim that goes to the provider adds a running attempt, and reserves  *)
(* for it only what the day has left.                                      *)
LEMMA ClaimStep ==
  ASSUME BudgetInv, TypeOK', NEW w \in Workers, ClaimNext(w)
  PROVE  RowsAreKept' /\ BudgetIsExact'
<1>1. PICK i \in Items : ReserveBudget(i) /\ Lease(w, i)
  BY DEF ClaimNext
<1>2. PICK n \in Nat, k \in Nat, x \in Rows :
        /\ n = Reservation(i) /\ k = item[i].tries /\ x = Row(i, item[i].tries + 1, Reservation(i))
  <2>1. item[i] \in ItemRows /\ day \in Days
    BY DEF BudgetInv, TypeOK
  <2>2. Reservation(i) \in Nat
    BY ItemAssumption DEF Reservation, ItemAssumption
  <2>3. Row(i, item[i].tries + 1, Reservation(i)) \in Rows
    BY <2>1, <2>2 DEF Row, Rows, ItemRows
  <2> QED BY <2>1, <2>2, <2>3 DEF ItemRows
<1>3. /\ x.item = i /\ x.number = k + 1 /\ x.status = "running" /\ x.reserved = n
      /\ x.from = day /\ x.to = day
  BY <1>2 DEF Row
<1>4. attempt' = attempt \cup {x} /\ worker' = [worker EXCEPT ![w] =
        [at |-> "executing", item |-> i, row |-> x, preflight |-> Preflight(i)]]
  BY <1>1, <1>2 DEF Lease
<1>5. item'[i].tries = k + 1 /\ \A y \in Items \ {i} : item'[y] = item[y]
  BY <1>1, <1>2 DEF Lease, BudgetInv, TypeOK, ItemRows
<1>6. attempt \subseteq Rows /\ AttemptsAreApart /\ day \in Days /\ x \notin attempt
  <2>1. attempt \subseteq Rows /\ AttemptsAreApart /\ day \in Days
    BY DEF BudgetInv, TypeOK, RowsAreKept
  <2>2. x \notin attempt
    BY <1>2, <1>3, <2>1 DEF AttemptsAreApart
  <2> QED BY <2>1, <2>2
<1>7. AttemptsAreApart'
  <2>1. IsFiniteSet(attempt \cup {x})
    BY <1>6, FS_AddElement DEF AttemptsAreApart
  <2>2. \A a \in attempt \cup {x} : a.number <= item'[a.item].tries
    <3>1. \A a \in attempt : a.item \in Items /\ a.number \in Nat
      BY <1>6 DEF Rows
    <3>2. \A a \in attempt : a.number <= item[a.item].tries
      BY <1>6 DEF AttemptsAreApart
    <3> QED BY <1>2, <1>3, <1>5, <3>1, <3>2
  <2>3. ASSUME NEW a \in attempt \cup {x}, NEW b \in attempt \cup {x},
               a.item = b.item, a.number = b.number
        PROVE  a = b
    <3>1. \A y \in attempt : y.item = i => y.number # k + 1
      <4>1. \A y \in attempt : y.item = i => y.number \in Nat /\ y.number <= k
        BY <1>2, <1>6 DEF AttemptsAreApart, Rows
      <4> QED BY <1>2, <4>1
    <3> QED BY <1>3, <1>6, <2>3, <3>1 DEF AttemptsAreApart
  <2> QED BY <1>4, <2>1, <2>2, <2>3 DEF AttemptsAreApart
<1>8. ReservedDaysHaveRows'
  <2>1. rows \subseteq rows'
    BY <1>1 DEF ReserveBudget
  <2>2. n > 0 => day \in rows'
    <3>1. policy.perAttempt \in Nat /\ Cost[i] \in Nat
      BY ItemAssumption, PolicyType DEF ItemAssumption, BudgetInv, TypeOK
    <3>2. Preflight(i) = "none" /\ Cost[i] > 0 => policy.enabled /\ Cost[i] <= policy.perAttempt
      BY <3>1 DEF Preflight
    <3>3. n > 0 => Preflight(i) = "none" /\ Cost[i] > 0
      BY <1>2 DEF Reservation
    <3> QED BY <1>1, <3>2, <3>3 DEF ReserveBudget
  <2>3. \A a \in attempt : a.status = "running" /\ a.reserved > 0 => a.from \in rows'
    BY <2>1 DEF BudgetInv, RowsAreKept, ReservedDaysHaveRows
  <2> QED BY <1>3, <1>4, <2>2, <2>3 DEF ReservedDaysHaveRows
<1>9. ClaimsAreApart'
  <2>1. /\ worker'[w].at = "executing" /\ worker'[w].row = x
        /\ \A v \in Workers \ {w} : worker'[v] = worker[v]
    BY <1>4 DEF BudgetInv, TypeOK
  <2>2. \A v \in Workers : worker[v].at = "executing" =>
          worker[v].row \in attempt /\ worker[v].row.status = "running"
    BY DEF BudgetInv, RowsAreKept, ClaimsAreApart
  <2>3. \A u, v \in Workers :
          worker[u].at = "executing" /\ worker[v].at = "executing" /\ u # v
            => worker[u].row # worker[v].row
    BY DEF BudgetInv, RowsAreKept, ClaimsAreApart
  <2>4. \A v \in Workers : worker'[v].at = "executing" =>
          worker'[v].row \in attempt' /\ worker'[v].row.status = "running"
    BY <1>3, <1>4, <2>1, <2>2
  <2>5. \A u, v \in Workers :
          worker'[u].at = "executing" /\ worker'[v].at = "executing" /\ u # v
            => worker'[u].row # worker'[v].row
    BY <1>6, <2>1, <2>2, <2>3
  <2> QED BY <2>4, <2>5 DEF ClaimsAreApart
<1>10. ASSUME NEW d \in Days PROVE DayIsExact(d)'
  <2>1. Crossed(d)' <=> Crossed(d)
    BY <1>3, <1>4 DEF Crossed
  <2>2. Closed(d)' = Closed(d)
    BY <1>3, <1>4 DEF Closed
  <2>3. charged'[d] = charged[d]
    BY <1>1 DEF ReserveBudget
  <2>4. SUFFICES ASSUME ~Crossed(d)'
                 PROVE  Exact(Open(d)', Closed(d), reserved'[d], charged[d])
    BY <2>2, <2>3, FollowsDay
  <2>5. Exact(Open(d), Closed(d), reserved[d], charged[d])
    BY <2>1, <2>4, ExactDays DEF BudgetInv, DayIsExact
  <2>6. CASE d = day
    <3>1. Open(d)' = Open(d) \cup {x}
      BY <1>3, <1>4, <2>6 DEF Open
    <3>2. reserved'[d] = reserved[d] + n
      BY <1>1, <1>2, <2>6 DEF ReserveBudget, Reservation, BudgetInv, TypeOK
    <3>3. reserved[d] \in Nat /\ charged[d] \in Nat /\ policy \in Policies \cup {DefaultPolicy}
      BY DEF BudgetInv, TypeOK
    <3>4. n > 0 => reserved[d] + charged[d] + n <= policy.daily
      <4>1. n > 0 => Preflight(i) = "none" /\ n = Cost[i]
        BY <1>2 DEF Reservation
      <4>2. Cost[i] \in Nat /\ policy.daily \in Nat
        BY <3>3, ItemAssumption, PolicyType DEF ItemAssumption
      <4>3. Preflight(i) = "none" /\ Cost[i] > 0
              => reserved[day] + charged[day] + Cost[i] <= policy.daily
        BY <2>6, <3>3, <4>2 DEF Preflight
      <4> QED BY <2>6, <4>1, <4>3
    <3>5. /\ IsFiniteSet(Open(d)) /\ Open(d) \subseteq Rows
          /\ IsFiniteSet(Closed(d)) /\ Closed(d) \subseteq Rows /\ x \notin Open(d)
      BY <1>6, OpenAndClosed DEF BudgetInv, Open
    <3>6. PICK o, c, r, m, p :
            o = Open(d) /\ c = Closed(d) /\ r = reserved[d] /\ m = charged[d] /\ p = policy
      BY <3>3
    <3>7. Exact(o \cup {x}, c, r + x.reserved, m)
      <4>1. /\ IsFiniteSet(o) /\ o \subseteq Rows /\ IsFiniteSet(c) /\ c \subseteq Rows
            /\ r \in Nat /\ m \in Nat /\ Exact(o, c, r, m) /\ x \in Rows /\ x \notin o
            /\ p \in Policies \cup {DefaultPolicy}
        BY <2>5, <3>3, <3>5, <3>6
      <4>2. x.reserved > 0 => r + m + x.reserved <= p.daily
        BY <1>3, <3>4, <3>6
      <4> QED BY ONLY <4>1, <4>2, OpenKeepsExact
    <3> QED BY <1>3, <3>1, <3>2, <3>6, <3>7
  <2>7. CASE d # day
    <3>1. Open(d)' = Open(d)
      BY <1>3, <1>4, <2>7 DEF Open
    <3>2. reserved'[d] = reserved[d]
      BY <1>1, <2>7 DEF ReserveBudget, BudgetInv, TypeOK
    <3> QED BY <2>5, <3>1, <3>2
  <2> QED BY <2>6, <2>7
<1>11. BudgetIsExact'
  BY <1>10, FollowsBudget
<1> QED BY <1>7, <1>8, <1>9, <1>11 DEF RowsAreKept
(* A provider charges only for what was reserved.                          *)
LEMMA FreeAnswer ==
  ASSUME NEW claim \in Claims, NEW a \in AnswersTo(claim), claim.row.reserved = 0
  PROVE  a.cost = 0
<1>1. ASSUME NEW b \in Judgements(claim) PROVE b.cost = 0
  <2>1. PICK c \in Costs(claim) : b = Answer("succeeded", TRUE, FALSE, c)
    BY <1>1 DEF Judgements
  <2>2. c = 0
    BY <2>1 DEF Costs
  <2> QED BY <2>1, <2>2 DEF Answer
<1>2. ASSUME NEW b \in Failures(claim) PROVE b.cost = 0
  <2>1. \/ b = Answer("abstained", TRUE, FALSE, 0)
        \/ b = Answer("failed", FALSE, FALSE, 0)
        \/ b = Answer("provider_unavailable", FALSE, TRUE, 0)
    BY <1>2 DEF Failures
  <2> QED BY <2>1 DEF Answer
<1>3. CASE claim.preflight = "budget_blocked"
  <2>1. a = Answer("budget_blocked", FALSE, FALSE, 0)
    BY <1>3 DEF AnswersTo
  <2> QED BY <2>1 DEF Answer
<1>4. CASE claim.preflight = "provider_unavailable"
  <2>1. a = Answer("provider_unavailable", TRUE, FALSE, 0)
    BY <1>4 DEF AnswersTo
  <2> QED BY <2>1 DEF Answer
<1>5. CASE claim.preflight \notin {"budget_blocked", "provider_unavailable"}
  BY <1>1, <1>2, <1>5 DEF AnswersTo
<1> QED BY <1>3, <1>4, <1>5

(* A commit closes the attempt of its worker.  Were the day another one    *)
(* than that of the reservation, both are crossed from then on.            *)
LEMMA CommitStep ==
  ASSUME BudgetInv, TypeOK', NEW w \in Workers, worker[w].at = "executing",
         NEW s \in Final, NEW c \in Nat, worker[w].row.reserved = 0 => c = 0,
         ReleaseBudget(worker[w].row.reserved, c), CloseAttempt(worker[w], s, c),
         \A i \in Items : item'[i].tries = item[i].tries,
         worker' = [worker EXCEPT ![w] = [at |-> "loop"]]
  PROVE  RowsAreKept' /\ BudgetIsExact'
<1>0. PICK x \in Rows : x = worker[w].row
  BY DEF BudgetInv, TypeOK, Claims
<1>1. PICK y : x = worker[w].row /\ y = [x EXCEPT !.status = s, !.charged = c, !.to = day]
  BY <1>0
<1>2. day \in Days /\ attempt \subseteq Rows
  BY DEF BudgetInv, TypeOK
<1>3. /\ y \in Rows /\ y.item = x.item /\ y.number = x.number /\ y.status = s /\ y.charged = c
      /\ y.to = day /\ y.from = x.from /\ y.reserved = x.reserved
  BY <1>1, <1>2 DEF Rows
<1>4. attempt' = (attempt \ {x}) \cup {y}
  BY <1>1 DEF CloseAttempt
<1>5. AttemptsAreApart /\ ReservedDaysHaveRows /\ ClaimsAreApart
  BY DEF BudgetInv, RowsAreKept
<1>6. x \in attempt /\ x.status = "running" /\ s # "running"
  BY <1>1, <1>5 DEF ClaimsAreApart, Final
<1>7. y \notin attempt
  BY <1>3, <1>5, <1>6 DEF AttemptsAreApart
<1>8. AttemptsAreApart'
  <2>1. IsFiniteSet((attempt \ {x}) \cup {y})
    BY <1>5, FS_AddElement, FS_RemoveElement DEF AttemptsAreApart
  <2>2. \A a \in attempt : a.number <= item'[a.item].tries
    <3>1. \A a \in attempt : item'[a.item].tries = item[a.item].tries
      BY <1>2 DEF Rows
    <3> QED BY <1>5, <3>1 DEF AttemptsAreApart
  <2>3. \A a \in (attempt \ {x}) \cup {y} : a.number <= item'[a.item].tries
    BY <1>3, <1>6, <2>2
  <2>4. ASSUME NEW a \in (attempt \ {x}) \cup {y}, NEW b \in (attempt \ {x}) \cup {y},
               a.item = b.item, a.number = b.number
        PROVE  a = b
    <3>1. \A e \in attempt : e.item = x.item /\ e.number = x.number => e = x
      BY <1>5, <1>6 DEF AttemptsAreApart
    <3>2. \A e \in attempt \ {x} : ~(e.item = y.item /\ e.number = y.number)
      BY <1>3, <3>1
    <3> QED BY <1>5, <2>4, <3>2 DEF AttemptsAreApart
  <2> QED BY <1>4, <2>1, <2>3, <2>4 DEF AttemptsAreApart
<1>9. ReservedDaysHaveRows'
  <2>1. rows' = rows
    BY DEF ReleaseBudget
  <2> QED BY <1>3, <1>4, <1>5, <1>6, <2>1 DEF ReservedDaysHaveRows
<1>10. ClaimsAreApart'
  <2>1. worker'[w].at = "loop" /\ \A v \in Workers \ {w} : worker'[v] = worker[v]
    BY DEF BudgetInv, TypeOK
  <2>2. ASSUME NEW v \in Workers, worker'[v].at = "executing"
        PROVE  worker'[v].row \in attempt' /\ worker'[v].row.status = "running"
    <3>1. v # w /\ worker'[v] = worker[v]
      BY <2>1, <2>2
    <3>2. worker[v].row \in attempt /\ worker[v].row.status = "running" /\ worker[v].row # x
      BY <1>1, <1>5, <2>2, <3>1 DEF ClaimsAreApart
    <3> QED BY <1>4, <3>1, <3>2
  <2>3. \A u, v \in Workers :
          worker'[u].at = "executing" /\ worker'[v].at = "executing" /\ u # v
            => worker'[u].row # worker'[v].row
    BY <1>5, <2>1 DEF ClaimsAreApart
  <2> QED BY <2>2, <2>3 DEF ClaimsAreApart
<1>11. ASSUME NEW d \in Days PROVE DayIsExact(d)'
  <2>1. Crossed(d) => Crossed(d)'
    BY <1>4, <1>6 DEF Crossed
  <2>2. SUFFICES ASSUME ~Crossed(d)'
                 PROVE  Exact(Open(d)', Closed(d)', reserved'[d], charged'[d])
    BY FollowsDay
  <2>3. Exact(Open(d), Closed(d), reserved[d], charged[d])
    BY <2>1, <2>2, ExactDays DEF BudgetInv, DayIsExact
  <2>4. d \in {y.from, y.to} => y.from = y.to
    BY <1>3, <1>4, <1>6, <2>2 DEF Crossed
  <2>5. CASE d = day
    <3>1. x.from = d /\ y.to = d
      BY <1>3, <2>4, <2>5
    <3>2. Open(d)' = Open(d) \ {x}
      BY <1>3, <1>4, <1>6 DEF Open
    <3>3. Closed(d)' = Closed(d) \cup {y}
      BY <1>3, <1>4, <1>6, <3>1 DEF Closed
    <3>4. PICK o, cl, r, m : o = Open(d) /\ cl = Closed(d) /\ r = reserved[d] /\ m = charged[d]
      OBVIOUS
    <3>5. /\ IsFiniteSet(o) /\ o \subseteq Rows /\ IsFiniteSet(cl) /\ cl \subseteq Rows
          /\ r \in Nat /\ m \in Nat /\ Exact(o, cl, r, m)
          /\ x \in o /\ y \in Rows /\ y \notin cl /\ y.reserved = x.reserved
      <4>1. r \in Nat /\ m \in Nat
        BY <3>4 DEF BudgetInv, TypeOK
      <4>2. x \in o /\ y \notin cl
        BY <1>6, <1>7, <3>1, <3>4 DEF Open, Closed
      <4>3. /\ IsFiniteSet(o) /\ o \subseteq Rows /\ IsFiniteSet(cl) /\ cl \subseteq Rows
        BY <1>5, <3>4, OpenAndClosed DEF BudgetInv
      <4> QED BY <1>3, <2>3, <3>4, <4>1, <4>2, <4>3
    <3>6. x.reserved <= r /\ Exact(o \ {x}, cl \cup {y}, r - x.reserved, m + y.charged)
      BY ONLY <3>5, CloseKeepsExact
    <3>7. x.reserved \in Nat
      BY DEF Rows
    <3>8. reserved'[d] = r - x.reserved /\ charged'[d] = m + y.charged
      <4>1. CASE day \in rows
        BY <1>1, <1>3, <2>5, <3>4, <3>5, <3>6, <3>7, <4>1 DEF ReleaseBudget, BudgetInv, TypeOK
      <4>2. CASE day \notin rows
        <5>1. ~(x.reserved > 0)
          BY <1>5, <1>6, <2>5, <3>1, <4>2 DEF ReservedDaysHaveRows
        <5>2. x.reserved = 0 /\ y.charged = 0
          BY <1>1, <1>3, <3>7, <5>1
        <5>3. reserved'[d] = r /\ charged'[d] = m
          BY <3>4, <4>2 DEF ReleaseBudget
        <5> QED BY <3>5, <5>2, <5>3
      <4> QED BY <4>1, <4>2
    <3> QED BY <3>2, <3>3, <3>4, <3>6, <3>8
  <2>6. CASE d # day
    <3>1. x.from # d
      BY <1>3, <2>4, <2>6
    <3>2. Open(d)' = Open(d)
      BY <1>3, <1>4, <3>1 DEF Open
    <3>3. Closed(d)' = Closed(d)
      BY <1>3, <1>4, <1>6, <2>6 DEF Closed
    <3>4. reserved'[d] = reserved[d] /\ charged'[d] = charged[d]
      BY <2>6 DEF ReleaseBudget, BudgetInv, TypeOK
    <3> QED BY <2>3, <3>2, <3>3, <3>4
  <2> QED BY <2>5, <2>6
<1>12. BudgetIsExact'
  BY <1>11, FollowsBudget
<1> QED BY <1>8, <1>9, <1>10, <1>12 DEF RowsAreKept

(* Finishing an item leaves its attempts counted.                          *)
LEMMA FinishTries ==
  ASSUME TypeOK, NEW i \in Items, NEW s, FinishItem(i, s)
  PROVE  \A k \in Items : item'[k].tries = item[k].tries
BY DEF FinishItem, TypeOK, ItemRows

LEMMA NextBudget ==
  ASSUME BudgetInv, [Next]_vars
  PROVE  BudgetInv'
<1>0. TypeOK /\ TypeOK'
  BY NextType DEF BudgetInv
<1>1. ASSUME NEW w \in Workers, ClaimNext(w) PROVE RowsAreKept' /\ BudgetIsExact'
  BY <1>0, <1>1, ClaimStep
<1>2. ASSUME NEW w \in Workers, CommitCancelled(w) PROVE RowsAreKept' /\ BudgetIsExact'
  <2>1. /\ worker[w].at = "executing" /\ ReleaseBudget(worker[w].row.reserved, 0)
        /\ CloseAttempt(worker[w], "cancelled", 0) /\ "cancelled" \in Final
        /\ worker' = [worker EXCEPT ![w] = [at |-> "loop"]]
    BY <1>2 DEF CommitCancelled, Final
  <2>2. \A i \in Items : item'[i].tries = item[i].tries
    BY <1>0, <1>2 DEF CommitCancelled, FinishItem, TypeOK, ItemRows
  <2> QED BY <1>0, <2>1, <2>2, CommitStep
<1>3. ASSUME NEW w \in Workers, CommitRetry(w) \/ CommitFinal(w)
      PROVE  RowsAreKept' /\ BudgetIsExact'
  <2>1. worker[w].at = "executing" /\ worker' = [worker EXCEPT ![w] = [at |-> "loop"]]
    BY <1>3 DEF CommitRetry, CommitFinal
  <2>2. \A i \in Items : item'[i].tries = item[i].tries
    <3>1. worker[w].item \in Items
      BY <1>0, <2>1 DEF TypeOK, Claims
    <3>2. CASE CommitRetry(w)
      BY <1>0, <3>1, <3>2 DEF CommitRetry, TypeOK, ItemRows
    <3>3. CASE CommitFinal(w)
      <4>1. \E s : FinishItem(worker[w].item, s)
        BY <3>3 DEF CommitFinal
      <4> QED BY <1>0, <3>1, <4>1, FinishTries
    <3> QED BY <1>3, <3>2, <3>3
  <2>3. PICK a \in AnswersTo(worker[w]) :
          /\ ReleaseBudget(worker[w].row.reserved, a.cost)
          /\ CloseAttempt(worker[w], a.status, a.cost)
    BY <1>3 DEF CommitRetry, CommitFinal
  <2>4. worker[w] \in Claims
    BY <1>0, <2>1 DEF TypeOK
  <2>5. a.status \in Final /\ a.cost \in Nat /\ (worker[w].row.reserved = 0 => a.cost = 0)
    BY <2>4, AnswerType, FreeAnswer
  <2> QED BY <1>0, <2>1, <2>2, <2>3, <2>5, CommitStep
<1>4. ASSUME UNCHANGED <<attempt, budgetVars>>,
             \A i \in Items : item'[i].tries = item[i].tries,
             \A w \in Workers : worker'[w] = worker[w] \/ worker'[w].at # "executing"
      PROVE  RowsAreKept' /\ BudgetIsExact'
  BY <1>0, <1>4, QuietStep
<1>5. ASSUME NEW w \in Workers, ClaimCached(w) \/ ClaimExhausted(w)
      PROVE  RowsAreKept' /\ BudgetIsExact'
  <2>1. \A i \in Items : item'[i].tries = item[i].tries
    <3>1. CASE ClaimCached(w)
      <4>1. \E i \in Items, s \in {c.status : c \in cache} : FinishItem(i, s)
        BY <3>1 DEF ClaimCached, Cached, Copy
      <4> QED BY <1>0, <4>1, FinishTries
    <3>2. CASE ClaimExhausted(w)
      BY <1>0, <3>2 DEF ClaimExhausted, TypeOK, ItemRows
    <3> QED BY <1>5, <3>1, <3>2
  <2>2. UNCHANGED <<attempt, budgetVars, worker>>
    BY <1>5 DEF ClaimCached, ClaimExhausted
  <2> QED BY <1>4, <2>1, <2>2
<1>6. ASSUME NEW w \in Workers, CommitLate(w) \/ CommitFails(w) \/ Die(w)
      PROVE  RowsAreKept' /\ BudgetIsExact'
  <2>1. UNCHANGED <<attempt, budgetVars, item>>
    BY <1>6 DEF CommitLate, CommitFails, Die
  <2>2. \A v \in Workers : worker'[v] = worker[v] \/ worker'[v].at # "executing"
    BY <1>0, <1>6 DEF CommitLate, CommitFails, Die, TypeOK
  <2> QED BY <1>4, <2>1, <2>2
<1>7. ASSUME NEW j \in Jobs, Enqueue(j) \/ Cancel(j) PROVE RowsAreKept' /\ BudgetIsExact'
  <2>1. \A i \in Items : item'[i].tries = item[i].tries
    BY <1>0, <1>7 DEF Enqueue, NewItems, Cancel, TypeOK, ItemRows
  <2>2. UNCHANGED <<attempt, budgetVars, worker>>
    BY <1>7 DEF Enqueue, Cancel
  <2> QED BY <1>4, <2>1, <2>2
<1>8. ASSUME NEW i \in Items, LeaseRunsOut(i) \/ BackoffEnds(i)
      PROVE  RowsAreKept' /\ BudgetIsExact'
  <2>1. \A k \in Items : item'[k].tries = item[k].tries
    BY <1>0, <1>8 DEF LeaseRunsOut, BackoffEnds, TypeOK, ItemRows
  <2>2. UNCHANGED <<attempt, budgetVars, worker>>
    BY <1>8 DEF LeaseRunsOut, BackoffEnds
  <2> QED BY <1>4, <2>1, <2>2
<1>9. ASSUME UNCHANGED <<attempt, budgetVars, item, worker>> PROVE RowsAreKept' /\ BudgetIsExact'
  <2>1. \A i \in Items : item'[i].tries = item[i].tries
    BY <1>9
  <2>2. \A w \in Workers : worker'[w] = worker[w] \/ worker'[w].at # "executing"
    BY <1>9
  <2>3. UNCHANGED <<attempt, budgetVars>>
    BY <1>9
  <2> QED BY <1>4, <2>1, <2>2, <2>3
<1>10. \/ UNCHANGED <<attempt, budgetVars, item, worker>>
       \/ \E j \in Jobs : Enqueue(j) \/ Cancel(j)
       \/ \E w \in Workers :
            \/ ClaimNext(w) \/ CommitCancelled(w) \/ CommitRetry(w) \/ CommitFinal(w)
            \/ ClaimCached(w) \/ ClaimExhausted(w) \/ CommitLate(w) \/ CommitFails(w) \/ Die(w)
       \/ \E i \in Items : LeaseRunsOut(i) \/ BackoffEnds(i)
  BY DEF Next, vars, Claim, Commit, SetPolicy, Activate, NextDay, budgetVars
<1> QED BY <1>0, <1>1, <1>2, <1>3, <1>5, <1>6, <1>7, <1>8, <1>9, <1>10 DEF BudgetInv

(* On every day that no call was carried into or out of, the budget holds  *)
(* the open reservations and the charges, lost workers included, and is    *)
(* exceeded only by what the providers charged above their estimates.      *)
THEOREM BudgetStaysExact == Spec => []BudgetIsExact
<1>1. Init => BudgetInv
  BY InitBudget
<1>2. BudgetInv /\ [Next]_vars => BudgetInv'
  BY NextBudget
<1>3. BudgetInv => BudgetIsExact
  BY DEF BudgetInv
<1> QED BY <1>1, <1>2, <1>3, PTL DEF Spec

=============================================================================

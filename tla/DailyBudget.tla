---------------------------- MODULE DailyBudget ----------------------------
(***************************************************************************)
(* The daily budget of a project: the attempts at calls of a provider with *)
(* what each reserved and was charged, and the rows these are added up in. *)
(* Assessments writes them.                                                *)
(***************************************************************************)
EXTENDS Integers, FiniteSets

CONSTANTS
  Policies,      \* project assessment policies a human may set
  LastDay        \* bound on the UTC days that pass

VARIABLES
  attempt,      \* assessment_attempts: the set of rows
  reserved,     \* reserved_micros of each day in assessment_daily_budgets
  charged       \* charged_micros of each day

Days == 0..LastDay

(* The policy of a project that never set one.                             *)
DefaultPolicy == [enabled |-> FALSE, daily |-> 0, perAttempt |-> 0, tries |-> 1]

Crossed(d) == \E a \in attempt : a.status # "running" /\ a.from # a.to /\ d \in {a.from, a.to}
Open(d) == {a \in attempt : a.from = d /\ a.status = "running"}
Closed(d) == {a \in attempt : a.to = d /\ a.status # "running"}
Excess(a) == IF a.charged > a.reserved THEN a.charged - a.reserved ELSE 0

(* The sum of f over its domain, whose units are counted one by one.       *)
Units(f) == UNION {{a} \X (1..f[a]) : a \in DOMAIN f}
Total(f) == Cardinality(Units(f))

(* On a day that no call was carried into or out of, the budget row holds  *)
(* exactly the reservations of the attempts that are not closed, those of  *)
(* lost workers included, and every charge; and reservations are only      *)
(* granted within the daily budget, so that it is exceeded by no more than *)
(* what the providers charged above their estimates.                       *)
BudgetIsExact ==
  \A d \in Days : ~Crossed(d) =>
    /\ reserved[d] = Total([a \in Open(d) |-> a.reserved])
    /\ charged[d] = Total([a \in Closed(d) |-> a.charged])
    /\ \E p \in Policies \cup {DefaultPolicy} :
         reserved[d] + charged[d] <= p.daily + Total([a \in Closed(d) |-> Excess(a)])

=============================================================================

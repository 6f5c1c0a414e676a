------------------------------ MODULE EvalCases ------------------------------
(***************************************************************************)
(* What the generation of eval cases promises, whoever asks for them and   *)
(* however often: a finding has at most one case, the evidence of a case   *)
(* never changes, and a reviewer's decision is final.                      *)
(***************************************************************************)
CONSTANTS
  Findings,  \* findings a case may be made of
  Evidence   \* what an evidence packet may contain

VARIABLE cases

Cases == [finding : Findings, evidence : Evidence,
          state : {"pending", "deferred", "accepted", "rejected"}]

Init == cases = {}

Create ==
  \E f \in Findings, e \in Evidence :
    /\ \A c \in cases : c.finding # f
    /\ cases' = cases \cup {[finding |-> f, evidence |-> e, state |-> "pending"]}

Review ==
  \E c \in cases, s \in {"deferred", "accepted", "rejected"} :
    /\ c.state \in {"pending", "deferred"}
    /\ cases' = (cases \ {c}) \cup {[c EXCEPT !.state = s]}

Next == Create \/ Review

Spec == Init /\ [][Next]_cases

=============================================================================

------------------------- MODULE FinalizedRevisions -------------------------
(***************************************************************************)
(* What the trace store promises the code that analyses, assesses and      *)
(* compares traces: a trace is a list of sealed revisions that never       *)
(* change, and one draft.  Telemetry edits drafts only - it adds spans and *)
(* corrects them, and loses none - and a draft is sealed with what it      *)
(* holds at that moment.  How many databases, retries and failures are     *)
(* behind this is not visible here.                                        *)
(***************************************************************************)
EXTENDS Sequences

CONSTANTS Traces, SpanIds, Contents

Spans == [id : SpanIds, content : Contents]

(* Sets of spans in which an identity has one content.                     *)
Snapshots == {S \in SUBSET Spans : \A x, y \in S : x.id = y.id => x = y}

Ids(S) == {x.id : x \in S}

VARIABLES
  sealed,  \* the contents of each sealed revision of each trace
  draft    \* the spans of the revision that takes the next upsert

Init ==
  /\ sealed = [t \in Traces |-> <<>>]
  /\ draft = [t \in Traces |-> {}]

(* A batch edits the drafts of any number of traces at once.               *)
Write ==
  /\ draft' \in [Traces -> Snapshots]
  /\ \A t \in Traces : Ids(draft[t]) \subseteq Ids(draft'[t])
  /\ UNCHANGED sealed

(* A trace that was quiet for long enough is sealed; later spans go to a   *)
(* new revision.                                                           *)
Seal(t) ==
  /\ sealed' = [sealed EXCEPT ![t] = Append(@, draft[t])]
  /\ draft' = [draft EXCEPT ![t] = {}]

Next == Write \/ \E t \in Traces : Seal(t)

Spec == Init /\ [][Next]_<<sealed, draft>>

=============================================================================

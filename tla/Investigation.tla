---------------------------- MODULE Investigation ----------------------------
(***************************************************************************)
(* The investigation of a failure group in the desktop application: the    *)
(* group that is loaded, a page of its occurrences, the evidence of one of *)
(* them, the full trace, and the eval candidate made from what is seen.    *)
(*                                                                         *)
(* Everything is read on background threads; answers arrive in any order.  *)
(* A new request supersedes the earlier ones of its kind, whose answers    *)
(* are then ignored, but the display keeps what it had until its own       *)
(* answer comes, and after a failure for good.  So the group, the evidence *)
(* and the editor that is open are three things that need not agree.       *)
(*                                                                         *)
(* Focused spans, comparisons, payloads and the preview of an eval batch   *)
(* are left out, and so is the list of groups (see DeltaStream).           *)
(***************************************************************************)
EXTENDS Integers, Sequences, FiniteSets, SequencesExt

CONSTANTS
  FailureGroups,
  Occurrences,   \* of each group: its findings, in order
  TraceOf,       \* the trace of each finding
  TraceTabs,     \* full traces to be had outside: a finding's, and the way back
  PageSize,      \* occurrences in a page: 100
  Blank,         \* no group, finding or trace
  MaxVisits,     \* bound on what the user does
  MaxSurprises   \* bound on the store calls that fail or find nothing any more

Findings == UNION {ToSet(Occurrences[g]) : g \in FailureGroups}

FromRuns == [kind |-> "runs"]
FromGroup(g, f, at) == [kind |-> "group", group |-> g, finding |-> f, offset |-> at]

ASSUME InvestigationAssumption ==
  /\ Blank \notin FailureGroups /\ Occurrences \in [FailureGroups -> Seq(Findings)]
  /\ \A g, h \in FailureGroups : ToSet(Occurrences[g]) \cap ToSet(Occurrences[h]) # {} => g = h
  /\ DOMAIN TraceOf = Findings /\ Blank \notin Findings
  /\ TraceTabs \subseteq [finding : Findings, origin : {FromRuns} \cup
       {FromGroup(g, f, 0) : g \in FailureGroups, f \in Findings}]
  /\ PageSize \in Nat \ {0} /\ {MaxVisits, MaxSurprises} \subseteq Nat

VARIABLES
  view,        \* the fields of FailureInbox
  candidates,  \* eval_candidates: the group and the finding of each
  visits, surprises

investigationVars == <<view, candidates, visits, surprises>>


InvestigationInit ==
  /\ view = [showingInbox |-> TRUE, fullTrace |-> FALSE, target |-> Blank,
             group |-> Blank, offset |-> 0, occurrences |-> <<>>,
             finding |-> Blank, evidence |-> Blank, preview |-> Blank, error |-> FALSE,
             groupLoading |-> FALSE, groupRequests |-> {},
             evidenceLoading |-> FALSE, evidenceRequests |-> {},
             identity |-> Blank, origin |-> FromRuns, tree |-> {},
             traceLoading |-> FALSE, traceRequests |-> {},
             strayed |-> FALSE,  \* the group is not the target's, for a known reason (observation)
             missed |-> FALSE]   \* the evidence is that of an earlier selection (observation)
  /\ candidates = {} /\ visits = 0 /\ surprises = 0

-----------------------------------------------------------------------------
(* What the handlers make of the view.                                     *)

Superseded(requests) == {[r EXCEPT !.newest = FALSE] : r \in requests}

(* request_group.                                                          *)
RequestedKeepsLoading(v, g, at, preferred) ==
  [v EXCEPT
     !.offset = at, !.error = FALSE, !.groupLoading = TRUE,
     !.groupRequests = Superseded(@) \cup
       {[kind |-> "group", group |-> g, offset |-> at, finding |-> preferred, newest |-> TRUE]},
     !.evidenceRequests = Superseded(@),
     !.missed = @ \/ v.evidenceLoading,
     !.strayed = @ /\ g # v.target]
Requested(v, g, at, preferred) ==
  [v EXCEPT
     !.offset = at, !.error = FALSE, !.groupLoading = TRUE,
     !.groupRequests = Superseded(@) \cup
       {[kind |-> "group", group |-> g, offset |-> at, finding |-> preferred, newest |-> TRUE]},
     !.evidenceLoading = FALSE,
     !.evidenceRequests = Superseded(@),
     !.missed = @ \/ v.evidenceLoading,
     !.strayed = @ /\ g # v.target]

(* restore_investigation_context.                                          *)
RestoredTo(v, g, at, preferred) ==
  Requested([v EXCEPT !.showingInbox = FALSE, !.fullTrace = FALSE, !.target = g],
            g, at, preferred)

(* load_occurrence, of the group as it is now.                             *)
Loading(v, f) ==
  IF v.group = Blank THEN v
  ELSE [v EXCEPT
          !.evidenceLoading = TRUE, !.preview = Blank,
          !.evidenceRequests = Superseded(@) \cup
            {[group |-> v.group, finding |-> f, newest |-> TRUE]}]

FirstPage(t) == [trace |-> t, page |-> "first"]

(* show_full_trace.  The runs do not leave the list of groups: it would    *)
(* still take the keys.                                                    *)
Contextual(v, o) ==
  IF o = FromRuns THEN [v EXCEPT !.evidence = Blank, !.missed = FALSE]
  ELSE IF v.group = o.group /\ v.finding = o.finding /\ v.evidence # Blank THEN v
  ELSE RestoredTo(v, o.group, o.offset, o.finding)

Tracing(v, t, o) ==
  IF v.fullTrace /\ v.identity = t /\ FirstPage(t) \in v.tree
  THEN [v EXCEPT !.origin = o]
  ELSE [v EXCEPT !.identity = t, !.origin = o, !.tree = {}, !.traceLoading = TRUE,
          !.traceRequests = Superseded(@) \cup
            {[trace |-> t, page |-> "first", newest |-> TRUE]},
          !.fullTrace = TRUE]

-----------------------------------------------------------------------------
(* The user.                                                               *)

Visit == visits < MaxVisits /\ visits' = visits + 1 /\ UNCHANGED surprises

(* A tab is activated, or a group opened from the list.                    *)
ShowInvestigation(g) ==
  /\ Visit
  /\ LET there == [view EXCEPT !.showingInbox = FALSE, !.fullTrace = FALSE, !.target = g]
         other == \E r \in view.groupRequests : r.newest /\ r.group # g
     IN  view' = IF view.group # g THEN Requested(there, g, 0, Blank)
                 ELSE [there EXCEPT !.strayed = other]
  /\ UNCHANGED candidates

ShowInbox ==
  /\ Visit
  /\ view' = [view EXCEPT !.showingInbox = TRUE, !.fullTrace = FALSE, !.target = Blank]
  /\ UNCHANGED candidates

(* Another project or other filters.                                       *)
SetQueryScope ==
  /\ Visit
  /\ view' = [view EXCEPT !.group = Blank, !.occurrences = <<>>, !.evidence = Blank,
                          !.missed = FALSE]
  /\ UNCHANGED candidates

(* The list of examples can be used while something is loading; the        *)
(* evidence with its buttons cannot.                                       *)
OnInvestigation == ~view.showingInbox /\ ~view.fullTrace
OnEvidenceAlways == OnInvestigation /\ view.evidence # Blank
OnEvidence ==
  OnInvestigation /\ view.evidence # Blank /\ ~view.groupLoading /\ ~view.evidenceLoading

SelectOccurrence(f) ==
  /\ OnInvestigation /\ f \in ToSet(view.occurrences)
  /\ Visit
  /\ view' = Loading(view, f)
  /\ UNCHANGED candidates

(* The previous or next example, on this page or on another.               *)
NavigateOccurrence(forward) ==
  LET Is(f) == f = view.finding
      i == SelectInSeq(view.occurrences, Is)
      next == IF forward THEN i + 1 ELSE i - 1
      at == IF forward THEN view.offset + Len(view.occurrences)
            ELSE IF view.offset > PageSize THEN view.offset - PageSize ELSE 0
  IN  /\ OnEvidence /\ view.group # Blank /\ i # 0
      /\ Visit
      /\ \/ /\ next \in DOMAIN view.occurrences
            /\ view' = Loading(view, view.occurrences[next])
         \/ /\ next \notin DOMAIN view.occurrences
            /\ IF forward THEN at < Len(Occurrences[view.group]) ELSE view.offset > 0
            /\ view' = [view EXCEPT !.groupLoading = TRUE,
                 !.groupRequests = Superseded(@) \cup
                   {[kind |-> "page", group |-> view.group, offset |-> at,
                     forward |-> forward, newest |-> TRUE]}]
      /\ UNCHANGED candidates

(* A disposition is set or undone.  It is that of the evidence on display; *)
(* the group that is reloaded is the one that is selected.                 *)
ReviewFinding ==
  /\ OnEvidence
  /\ Visit
  /\ view' = IF view.group = Blank THEN view
             ELSE Requested(view, view.group, view.offset, view.evidence)
  /\ UNCHANGED candidates

CreateCandidate ==
  /\ OnEvidence /\ view.finding # Blank
  /\ Visit
  /\ view' = [view EXCEPT !.preview = view.finding]
  /\ UNCHANGED candidates

CancelCandidate ==
  /\ OnEvidence /\ view.preview # Blank
  /\ Visit
  /\ view' = [view EXCEPT !.preview = Blank]
  /\ UNCHANGED candidates

(* The store takes the group it is given; a finding keeps its first        *)
(* candidate.                                                              *)
ConfirmCandidate ==
  /\ OnEvidence /\ view.preview # Blank /\ view.group # Blank /\ view.finding # Blank
  /\ Visit
  /\ candidates' = IF \E c \in candidates : c.finding = view.finding THEN candidates
                   ELSE candidates \cup {[group |-> view.group, finding |-> view.finding]}
  /\ view' = Loading([view EXCEPT !.preview = Blank], view.finding)

OpenFullTrace ==
  /\ OnEvidence
  /\ Visit
  /\ view' = Tracing(view, TraceOf[view.evidence],
                     FromGroup(view.group, view.finding, view.offset))
  /\ UNCHANGED candidates

(* The tab of a trace, or a row of the runs.                               *)
ShowFullTrace(tab) ==
  /\ Visit
  /\ view' = Tracing(Contextual(view, tab.origin), TraceOf[tab.finding], tab.origin)
  /\ UNCHANGED candidates

ReturnToInvestigation ==
  /\ view.fullTrace /\ view.origin # FromRuns
  /\ Visit
  /\ view' = RestoredTo(view, view.origin.group, view.origin.offset, view.origin.finding)
  /\ UNCHANGED candidates

LoadTreePage ==
  /\ view.fullTrace /\ FirstPage(view.identity) \in view.tree
  /\ LET more == [trace |-> view.identity, page |-> "more"]
         request == [trace |-> view.identity, page |-> "more", newest |-> TRUE]
     IN  /\ more \notin view.tree /\ request \notin view.traceRequests
         /\ Visit
         /\ view' = [view EXCEPT !.traceRequests = @ \cup {request}]
  /\ UNCHANGED candidates

Retry ==
  /\ view.error
  /\ Visit
  /\ LET calm == [view EXCEPT !.error = FALSE]
         g == IF view.target # Blank THEN view.target ELSE view.group
     IN  view' = IF view.fullTrace
                 THEN LET cleared == [calm EXCEPT !.tree = {}]
                      IN  Tracing(Contextual(cleared, view.origin), view.identity, view.origin)
                 ELSE IF view.showingInbox \/ g = Blank THEN calm
                 ELSE Requested(calm, g, view.offset, view.finding)
  /\ UNCHANGED candidates

DismissError ==
  /\ view.error
  /\ Visit
  /\ view' = [view EXCEPT !.error = FALSE]
  /\ UNCHANGED candidates

-----------------------------------------------------------------------------
(* The answers.                                                            *)

Surprise == surprises < MaxSurprises /\ surprises' = surprises + 1
AsExpected == UNCHANGED surprises

PageAt(g, at) ==
  IF g = Blank THEN <<>>
  ELSE [i \in 1..Cardinality((at + 1)..(at + PageSize) \cap DOMAIN Occurrences[g]) |->
          Occurrences[g][at + i]]

Chosen(page, preferred) ==
  IF preferred \in ToSet(page) THEN preferred
  ELSE IF page = <<>> THEN Blank ELSE Head(page)

Selected(v, f) ==
  IF f = Blank THEN [v EXCEPT !.finding = Blank, !.evidence = Blank, !.missed = FALSE]
  ELSE Loading(v, f)

(* The group and its occurrences are two queries.                          *)
GroupArrives(r, v) ==
  \/ \E g \in {r.group, Blank}, page \in {PageAt(r.group, r.offset), <<>>} :
       /\ IF g = r.group /\ page = PageAt(r.group, r.offset) THEN AsExpected ELSE Surprise
       /\ view' = Selected([v EXCEPT !.groupLoading = FALSE, !.group = g,
                              !.occurrences = page, !.error = FALSE],
                           Chosen(page, r.finding))
  \/ Surprise /\ view' = [v EXCEPT !.groupLoading = FALSE, !.error = TRUE, !.strayed = TRUE]

PageArrives(r, v) ==
  \/ \E page \in {PageAt(r.group, r.offset), <<>>} :
       /\ IF page # <<>> THEN AsExpected ELSE Surprise
       /\ LET moved == [v EXCEPT !.groupLoading = FALSE, !.offset = r.offset,
                                 !.occurrences = page]
          IN  view' = IF page = <<>> THEN moved
                      ELSE Loading(moved, IF r.forward THEN Head(page) ELSE Last(page))
  \/ Surprise /\ view' = [v EXCEPT !.groupLoading = FALSE, !.error = TRUE]

AnswerGroup ==
  /\ \E r \in view.groupRequests :
       LET v == [view EXCEPT !.groupRequests = @ \ {r}]
       IN  \/ ~r.newest /\ AsExpected /\ view' = v
           \/ r.newest /\ r.kind = "group" /\ GroupArrives(r, v)
           \/ r.newest /\ r.kind = "page" /\ PageArrives(r, v)
  /\ UNCHANGED <<candidates, visits>>

(* A finding that is not in the group has no evidence there.               *)
AnswerEvidence ==
  /\ \E r \in view.evidenceRequests :
       LET v == [view EXCEPT !.evidenceRequests = @ \ {r}]
           done == [v EXCEPT !.evidenceLoading = FALSE]
           there == r.finding \in ToSet(Occurrences[r.group])
       IN  \/ ~r.newest /\ AsExpected /\ view' = v
           \/ /\ r.newest /\ there /\ AsExpected
              /\ view' = [done EXCEPT !.finding = r.finding, !.evidence = r.finding,
                                      !.error = FALSE, !.missed = r.group # view.group]
           \/ /\ r.newest /\ IF there THEN Surprise ELSE AsExpected
              /\ view' = [done EXCEPT !.error = TRUE, !.missed = TRUE]
  /\ UNCHANGED <<candidates, visits>>

AnswerTrace ==
  /\ \E r \in view.traceRequests :
       LET v == [view EXCEPT !.traceRequests = @ \ {r}]
           done == [v EXCEPT !.traceLoading = @ /\ r.page # "first"]
       IN  \/ ~r.newest /\ AsExpected /\ view' = v
           \/ /\ r.newest /\ AsExpected
              /\ view' = [done EXCEPT !.tree = @ \cup {[trace |-> r.trace, page |-> r.page]}]
           \/ r.newest /\ Surprise /\ view' = [done EXCEPT !.error = TRUE]
  /\ UNCHANGED <<candidates, visits>>

InvestigationNext ==
  \/ \E g \in FailureGroups : ShowInvestigation(g)
  \/ ShowInbox \/ SetQueryScope
  \/ \E f \in Findings : SelectOccurrence(f)
  \/ \E forward \in BOOLEAN : NavigateOccurrence(forward)
  \/ ReviewFinding \/ CreateCandidate \/ CancelCandidate \/ ConfirmCandidate
  \/ OpenFullTrace \/ ReturnToInvestigation \/ LoadTreePage
  \/ \E tab \in TraceTabs : ShowFullTrace(tab)
  \/ Retry \/ DismissError
  \/ AnswerGroup \/ AnswerEvidence \/ AnswerTrace

InvestigationSpec == InvestigationInit /\ [][InvestigationNext]_investigationVars

-----------------------------------------------------------------------------
(* Properties.                                                             *)

InvestigationTypeOK ==
  /\ {view.target, view.group} \subseteq FailureGroups \cup {Blank}
  /\ {view.finding, view.evidence, view.preview} \subseteq Findings \cup {Blank}
  /\ view.occurrences \in Seq(Findings) /\ Len(view.occurrences) <= PageSize
  /\ candidates \subseteq [group : FailureGroups, finding : Findings]

(* What is on display belongs together: the group is that of the editor,   *)
(* unless its load failed or the editor was left and entered again while   *)
(* another group was loading; the evidence is an occurrence of the group,  *)
(* unless the newest evidence could not be had, or it was asked for while  *)
(* another group was loading that turned out to be empty; the pages of a   *)
(* trace are all of the trace that is named; and what is said to be        *)
(* loading is under way, however requests supersede each other.            *)
GroupIsTheEditors ==
  OnInvestigation /\ view.target # Blank /\ ~view.groupLoading /\ ~view.strayed =>
    view.group \in {Blank, view.target}

EvidenceIsOfTheGroup ==
  view.evidence # Blank =>
    /\ view.finding = view.evidence
    /\ view.group # Blank /\ ~view.groupLoading /\ ~view.evidenceLoading /\ ~view.missed =>
         view.evidence \in ToSet(Occurrences[view.group])

TraceIsTheNamed == \A p \in view.tree : p.trace = view.identity

LoadingIsUnderWay ==
  /\ view.groupLoading => \E r \in view.groupRequests : r.newest
  /\ view.evidenceLoading => \E r \in view.evidenceRequests : r.newest
  /\ view.traceLoading => \E r \in view.traceRequests : r.newest /\ r.page = "first"

InvestigationIsTrue ==
  /\ InvestigationTypeOK /\ GroupIsTheEditors /\ EvidenceIsOfTheGroup /\ TraceIsTheNamed
  /\ LoadingIsUnderWay

(* A candidate is made from the finding that was previewed and filed under *)
(* the group of that finding, unless the example on display is known to be *)
(* one of another group (see above).                                       *)
CandidatesAreFiled ==
  [][\A c \in candidates' \ candidates :
       /\ c.finding = view.preview
       /\ c.finding \in ToSet(Occurrences[c.group]) \/ view.missed]_investigationVars

=============================================================================

----------------------------- MODULE DeltaStream -----------------------------
(***************************************************************************)
(* How a view follows the workspace: the delta log, the hub that hands     *)
(* each delta to the bounded channel of every subscriber, and the failure  *)
(* inbox that follows one of them.                                         *)
(*                                                                         *)
(* The writer commits deltas and publishes them afterwards, one by one; it *)
(* never waits for a subscriber.  A subscriber whose channel is full is    *)
(* cut off: it may still take what is in the channel, then has to join     *)
(* again from a snapshot.  The inbox reads batches of deltas and, when one *)
(* may have changed the failure groups, asks for them again on a           *)
(* background thread; answers arrive in any order and only that of the     *)
(* newest request is shown.                                                *)
(*                                                                         *)
(* A delta is its commit sequence; all that matters of its content is      *)
(* whether it makes the inbox ask again.  The failure groups are reduced   *)
(* to their version, the number of such deltas committed so far.           *)
(***************************************************************************)
EXTENDS Integers, Sequences, FiniteSets

CONSTANTS
  Followers,   \* failure inboxes
  Filters,     \* settings of the inbox's filters
  Capacity,    \* stream.subscriber_capacity
  BatchLimit,  \* stream.ui_max_deltas_per_frame
  Retain,      \* stream.delta_history, not validated; zero would hide the log's end
  MaxDeltas,   \* bound on the deltas
  MaxClicks,   \* bound on what the user does in one inbox
  MaxFailures  \* bound on failed store calls

ASSUME StreamAssumption ==
  /\ Filters # {}
  /\ {Capacity, BatchLimit, Retain} \subseteq Nat \ {0}
  /\ {MaxDeltas, MaxClicks, MaxFailures} \subseteq Nat

VARIABLES
  log,          \* trace_delta_outbox: does the n-th delta concern the groups?
  pruned,       \* outbox rows deleted, always the oldest
  unpublished,  \* committed by the command the writer is in, to be published
  lost,         \* committed, but never published (observation)
  channel,      \* the deltas in each follower's channel
  cutOff,       \* the hub has closed the channel
  phase,        \* where each follower's loop is
  batch,        \* the deltas recv_batch has collected
  lastSequence, delayed,  \* what the follower knows of the log
  filter,       \* the filters as set
  generation, loading,    \* newest request, and whether it is under way
  requests,     \* requests under way
  shown,        \* the groups on display: their version, and for which filter
  failed,       \* the last reload was an error (observation)
  since,        \* the log's end when the follower last joined (observation)
  heard,        \* deltas received since (observation)
  clicks, failures

logVars == <<log, pruned, unpublished, lost>>
streamVars == <<channel, cutOff, phase, batch>>
knowledgeVars == <<lastSequence, delayed, since, heard>>
viewVars == <<generation, loading, requests, shown, failed>>
deltaVars == <<logVars, streamVars, knowledgeVars, viewVars, filter, clicks, failures>>

-----------------------------------------------------------------------------
Deltas == DOMAIN log

(* Version of the failure groups in the store.                             *)
Version == Cardinality({n \in Deltas : log[n]})

Reloads == [kind : {"reload"}, generation : Nat, filter : Filters, version : Nat \cup {-1}]
MoreRows == [kind : {"more"}, generation : Nat, filter : Filters, version : Nat \cup {-1}]
Unread == -1

Nothing == [version |-> 0, filter |-> "none"]

Fault == failures < MaxFailures /\ failures' = failures + 1

StreamInit ==
  /\ log = <<>> /\ pruned = 0 /\ unpublished = <<>> /\ lost = {}
  /\ channel = [f \in Followers |-> <<>>]
  /\ cutOff = [f \in Followers |-> TRUE]
  /\ phase = [f \in Followers |-> "joining"]
  /\ batch = [f \in Followers |-> <<>>]
  /\ lastSequence = [f \in Followers |-> 0]
  /\ delayed = [f \in Followers |-> FALSE]
  /\ filter \in [Followers -> Filters]
  /\ generation = [f \in Followers |-> 0]
  /\ loading = [f \in Followers |-> FALSE]
  /\ requests = [f \in Followers |-> {}]
  /\ shown = [f \in Followers |-> Nothing]
  /\ failed = [f \in Followers |-> FALSE]
  /\ since = [f \in Followers |-> 0]
  /\ heard = [f \in Followers |-> {}]
  /\ clicks = [f \in Followers |-> 0]
  /\ failures = 0

-----------------------------------------------------------------------------
(* The writer.                                                             *)

(* A page of traces, a finished analysis, a lifecycle sweep.               *)
CommitDeltas ==
  /\ unpublished = <<>>
  /\ \E kinds \in {<<TRUE>>, <<FALSE>>, <<FALSE, FALSE>>} :
       /\ Len(log) + Len(kinds) <= MaxDeltas
       /\ log' = log \o kinds
       /\ unpublished' = [i \in DOMAIN kinds |-> Len(log) + i]
  /\ UNCHANGED <<pruned, lost, streamVars, knowledgeVars, viewVars, filter, clicks, failures>>

(* A sweep that fails at its second trace: the delta of the first is       *)
(* committed, but the list of what to publish is gone with the error.      *)
SweepFails ==
  /\ unpublished = <<>>
  /\ Len(log) < MaxDeltas
  /\ Fault
  /\ log' = Append(log, FALSE)
  /\ lost' = lost \cup {Len(log) + 1}
  /\ UNCHANGED <<pruned, unpublished, streamVars, knowledgeVars, viewVars, filter, clicks>>

(* DeltaHub::publish, for one delta and every subscriber at once (the hub  *)
(* holds its lock).                                                        *)
Full(f) == Len(channel[f]) = Capacity

PublishSkipsFull ==
  /\ unpublished # <<>>
  /\ channel' = [f \in Followers |->
                   IF cutOff[f] \/ Full(f) THEN channel[f]
                   ELSE Append(channel[f], Head(unpublished))]
  /\ cutOff' = cutOff
  /\ unpublished' = Tail(unpublished)
  /\ UNCHANGED <<log, pruned, lost, phase, batch, knowledgeVars, viewVars, filter,
                 clicks, failures>>
Publish ==
  /\ unpublished # <<>>
  /\ channel' = [f \in Followers |->
                   IF cutOff[f] \/ Full(f) THEN channel[f]
                   ELSE Append(channel[f], Head(unpublished))]
  /\ cutOff' = [f \in Followers |-> cutOff[f] \/ Full(f)]
  /\ unpublished' = Tail(unpublished)
  /\ pruned' = IF Len(unpublished) = 1 /\ Len(log) - Retain > pruned
               THEN Len(log) - Retain ELSE pruned
  /\ UNCHANGED <<log, lost, phase, batch, knowledgeVars, viewVars, filter, clicks,
                 failures>>

LatestSequence == IF pruned = Len(log) THEN 0 ELSE Len(log)

-----------------------------------------------------------------------------
(* The view of an inbox.                                                   *)

(* reload_groups: from now on only this request's answer counts.           *)
Reload(f, x) ==
  /\ generation' = [generation EXCEPT ![f] = @ + 1]
  /\ loading' = [loading EXCEPT ![f] = TRUE]
  /\ requests' = [requests EXCEPT ![f] = @ \cup
       {[kind |-> "reload", generation |-> generation[f] + 1, filter |-> x,
         version |-> Unread]}]
  /\ UNCHANGED <<shown, failed>>

(* The background thread queries the store.  What a superseded request     *)
(* reads does not matter, so it is left open.                              *)
ReadGroups(f) ==
  /\ \E r \in requests[f] :
       /\ r.version = Unread /\ r.generation = generation[f]
       /\ requests' = [requests EXCEPT ![f] =
                         (@ \ {r}) \cup {[r EXCEPT !.version = Version]}]
  /\ UNCHANGED <<logVars, streamVars, knowledgeVars, generation, loading, shown, failed,
                 filter, clicks, failures>>

(* Its answer reaches the view.  A page of more rows is appended to what   *)
(* is shown.                                                               *)
AnswerAny(f) ==
  \E r \in requests[f] :
    /\ r.version # Unread
    /\ requests' = [requests EXCEPT ![f] = @ \ {r}]
    /\ loading' = [loading EXCEPT ![f] = FALSE]
    /\ shown' = IF r.kind = "more" THEN shown
                ELSE [shown EXCEPT ![f] = [version |-> r.version, filter |-> r.filter]]
    /\ failed' = IF r.kind = "more" THEN failed ELSE [failed EXCEPT ![f] = FALSE]
    /\ UNCHANGED <<logVars, streamVars, knowledgeVars, generation, filter, clicks, failures>>
AnswerNewest(f) ==
  \E r \in requests[f] :
    /\ r.version # Unread \/ r.generation # generation[f]
    /\ requests' = [requests EXCEPT ![f] = @ \ {r}]
    /\ IF r.generation # generation[f]
       THEN UNCHANGED <<loading, shown, failed>>
       ELSE /\ loading' = [loading EXCEPT ![f] = FALSE]
            /\ shown' = IF r.kind = "more" THEN shown
                        ELSE [shown EXCEPT ![f] = [version |-> r.version, filter |-> r.filter]]
            /\ failed' = IF r.kind = "more" THEN failed ELSE [failed EXCEPT ![f] = FALSE]
    /\ UNCHANGED <<logVars, streamVars, knowledgeVars, generation, filter, clicks, failures>>

(* The query failed: the view keeps its rows and shows the error.          *)
AnswerError(f) ==
  \E r \in requests[f] :
    /\ r.generation = generation[f]
    /\ Fault
    /\ requests' = [requests EXCEPT ![f] = @ \ {r}]
    /\ loading' = [loading EXCEPT ![f] = FALSE]
    /\ failed' = IF r.kind = "more" THEN failed ELSE [failed EXCEPT ![f] = TRUE]
    /\ UNCHANGED <<logVars, streamVars, knowledgeVars, generation, shown, filter, clicks>>

Click(f) == clicks[f] < MaxClicks /\ clicks' = [clicks EXCEPT ![f] = @ + 1]

SetFilter(f) ==
  /\ Click(f)
  /\ \E x \in Filters \ {filter[f]} :
       /\ filter' = [filter EXCEPT ![f] = x]
       /\ Reload(f, x)
  /\ UNCHANGED <<logVars, streamVars, knowledgeVars, failures>>

(* The button is active only while nothing is loading.                     *)
LoadMore(f) ==
  /\ ~loading[f] /\ shown[f] # Nothing
  /\ Click(f)
  /\ generation' = [generation EXCEPT ![f] = @ + 1]
  /\ loading' = [loading EXCEPT ![f] = TRUE]
  /\ requests' = [requests EXCEPT ![f] = @ \cup
       {[kind |-> "more", generation |-> generation[f] + 1, filter |-> filter[f],
         version |-> Unread]}]
  /\ UNCHANGED <<logVars, streamVars, knowledgeVars, shown, failed, filter, failures>>

-----------------------------------------------------------------------------
(* The loop of an inbox.                                                   *)

(* snapshot_and_subscribe, first half: a new channel in the hub.           *)
Join(f) ==
  /\ phase[f] = "joining"
  /\ channel' = [channel EXCEPT ![f] = <<>>]
  /\ cutOff' = [cutOff EXCEPT ![f] = FALSE]
  /\ phase' = [phase EXCEPT ![f] = "joined"]
  /\ UNCHANGED <<logVars, batch, knowledgeVars, viewVars, filter, clicks, failures>>

(* Second half: the snapshot, and what the view makes of it.  A follower   *)
(* whose snapshot cannot be read gives up.                                 *)
Synchronize(f) ==
  /\ phase[f] = "joined"
  /\ \/ /\ phase' = [phase EXCEPT ![f] = "waiting"]
        /\ lastSequence' = [lastSequence EXCEPT ![f] = LatestSequence]
        /\ delayed' = [delayed EXCEPT ![f] = FALSE]
        /\ since' = [since EXCEPT ![f] = LatestSequence]
        /\ heard' = [heard EXCEPT ![f] = {}]
        /\ Reload(f, filter[f])
        /\ UNCHANGED failures
     \/ /\ Fault
        /\ phase' = [phase EXCEPT ![f] = "gone"]
        /\ delayed' = [delayed EXCEPT ![f] = TRUE]
        /\ UNCHANGED <<lastSequence, since, heard, viewVars>>
  /\ UNCHANGED <<logVars, channel, cutOff, batch, filter, clicks>>

Receive(f) ==
  /\ channel' = [channel EXCEPT ![f] = Tail(@)]
  /\ batch' = [batch EXCEPT ![f] = Append(@, Head(channel[f]))]
  /\ phase' = [phase EXCEPT ![f] = "draining"]

(* recv_batch: waits for the first delta, then takes what is there.  When  *)
(* the channel turns out to be closed, what was collected is dropped and   *)
(* the follower joins again.                                               *)
TakeGivesUp(f) ==
  /\ \/ phase[f] = "waiting"
     \/ phase[f] = "draining" /\ Len(batch[f]) < BatchLimit
  /\ \/ channel[f] # <<>> /\ Receive(f)
     \/ /\ channel[f] = <<>> /\ cutOff[f]
        /\ phase' = [phase EXCEPT ![f] = "gone"]
        /\ batch' = [batch EXCEPT ![f] = <<>>]
        /\ UNCHANGED channel
  /\ UNCHANGED <<logVars, cutOff, knowledgeVars, viewVars, filter, clicks, failures>>
Take(f) ==
  /\ \/ phase[f] = "waiting"
     \/ phase[f] = "draining" /\ Len(batch[f]) < BatchLimit
  /\ \/ channel[f] # <<>> /\ Receive(f)
     \/ /\ channel[f] = <<>> /\ cutOff[f]
        /\ phase' = [phase EXCEPT ![f] = "joining"]
        /\ batch' = [batch EXCEPT ![f] = <<>>]
        /\ UNCHANGED channel
  /\ UNCHANGED <<logVars, cutOff, knowledgeVars, viewVars, filter, clicks, failures>>

(* The deltas of a batch are looked at up to the first that concerns the   *)
(* groups; those behind it are not compared with the sequence any more.    *)
Refreshing(f) == \E i \in DOMAIN batch[f] : log[batch[f][i]]
LookedAt(f) ==
  {i \in DOMAIN batch[f] : \A k \in 1..(i - 1) : ~log[batch[f][k]]}

(* The sequence the i-th delta of the batch is compared with.              *)
KnownBefore(f, i) ==
  CHOOSE n \in {lastSequence[f]} \cup {batch[f][k] : k \in 1..(i - 1)} :
    \A m \in {lastSequence[f]} \cup {batch[f][k] : k \in 1..(i - 1)} : m <= n
Gap(f) == \E i \in LookedAt(f) : batch[f][i] > KnownBefore(f, i) + 1

HandleBatch(f) ==
  /\ phase[f] = "draining"
  /\ Len(batch[f]) = BatchLimit \/ (channel[f] = <<>> /\ ~cutOff[f])
  /\ phase' = [phase EXCEPT ![f] = "waiting"]
  /\ batch' = [batch EXCEPT ![f] = <<>>]
  /\ delayed' = [delayed EXCEPT ![f] = @ \/ Gap(f)]
  /\ LET seen == {lastSequence[f]} \cup {batch[f][i] : i \in LookedAt(f)}
     IN  lastSequence' = [lastSequence EXCEPT ![f] =
                            CHOOSE n \in seen : \A m \in seen : m <= n]
  /\ heard' = [heard EXCEPT ![f] = @ \cup {batch[f][i] : i \in DOMAIN batch[f]}]
  /\ IF Refreshing(f) THEN Reload(f, filter[f]) ELSE UNCHANGED viewVars
  /\ UNCHANGED <<logVars, channel, cutOff, since, filter, clicks, failures>>

-----------------------------------------------------------------------------
Loop(f) == Join(f) \/ Synchronize(f) \/ Take(f) \/ HandleBatch(f)
Background(f) == ReadGroups(f) \/ AnswerNewest(f)

StreamNext ==
  \/ CommitDeltas \/ SweepFails \/ Publish
  \/ \E f \in Followers :
       Loop(f) \/ Background(f) \/ AnswerError(f) \/ SetFilter(f) \/ LoadMore(f)

StreamSpec == StreamInit /\ [][StreamNext]_deltaVars

(* The writer and the threads of the interface are scheduled.              *)
StreamFairness ==
  /\ WF_deltaVars(Publish)
  /\ \A f \in Followers :
       WF_deltaVars(Loop(f)) /\ WF_deltaVars(ReadGroups(f)) /\ WF_deltaVars(AnswerNewest(f))

StreamFairSpec == StreamSpec /\ StreamFairness

-----------------------------------------------------------------------------
(* Properties.                                                             *)

StreamTypeOK ==
  /\ log \in Seq(BOOLEAN) /\ pruned \in 0..Len(log)
  /\ unpublished \in Seq(Deltas) /\ lost \subseteq Deltas
  /\ \A f \in Followers :
       /\ channel[f] \in Seq(Deltas) /\ Len(channel[f]) <= Capacity
       /\ batch[f] \in Seq(Deltas) /\ Len(batch[f]) <= BatchLimit
       /\ phase[f] \in {"joining", "joined", "waiting", "draining", "gone"}
       /\ lastSequence[f] \in 0..Len(log) /\ since[f] \in 0..Len(log)
       /\ heard[f] \subseteq Deltas
       /\ requests[f] \subseteq Reloads \cup MoreRows
       /\ shown[f] \in {Nothing} \cup [version : Nat, filter : Filters]
       /\ filter[f] \in Filters /\ generation[f] \in Nat
       /\ {cutOff[f], delayed[f], loading[f], failed[f]} \subseteq BOOLEAN

InSequence(s) == {s[i] : i \in DOMAIN s}

(* Joining before reading the snapshot leaves no window, and nothing is    *)
(* dropped silently: every delta after the snapshot of a follower that has *)
(* not been cut off has been received, is on its way to him, or failed to  *)
(* be published to anybody.                                                *)
NothingIsMissed ==
  \A f \in Followers :
    phase[f] \in {"waiting", "draining"} /\ ~cutOff[f] =>
      (since[f] + 1)..Len(log) \subseteq
         heard[f] \cup InSequence(batch[f]) \cup InSequence(channel[f])
           \cup InSequence(unpublished) \cup lost

(* A follower that is not marked as delayed has received every delta       *)
(* between its snapshot and the sequence it has reached.                   *)
GapIsNoticed ==
  \A f \in Followers :
    phase[f] \in {"waiting", "draining"} /\ ~delayed[f] =>
      (since[f] + 1)..lastSequence[f] \subseteq heard[f]

(* The stream as a follower sees it: no delta is missed silently, and      *)
(* whoever was cut off is told.                                            *)
StreamIsComplete == StreamTypeOK /\ NothingIsMissed /\ GapIsNoticed

(* Answers that overtake each other never put older groups on display.     *)
ViewNeverGoesBack ==
  [][\A f \in Followers : shown'[f].version >= shown[f].version]_deltaVars

(* Whenever nothing is loading, the groups on display were selected by the *)
(* filters as they are set now, unless their reload failed.                *)
ViewMatchesFilter ==
  \A f \in Followers :
    shown[f] # Nothing /\ ~loading[f] => shown[f].filter = filter[f] \/ failed[f]

(* The inbox as its user sees it.                                          *)
InboxIsTrue == StreamIsComplete /\ ViewMatchesFilter

(* What is committed is on display in the end: through full channels, cut  *)
(* off followers, short-circuited batches and overtaken answers, unless    *)
(* the display says that a reload failed or that the follower gave up      *)
(* because it could not read its snapshot.                                 *)
GaveUp(f) == phase[f] = "gone" /\ delayed[f]

ViewCatchesUp ==
  \A f \in Followers : \A n \in 1..MaxDeltas :
    []<>(Version >= n => shown[f].version >= n \/ failed[f] \/ GaveUp(f))

=============================================================================

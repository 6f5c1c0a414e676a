------------------------------ MODULE McpSession ------------------------------
(***************************************************************************)
(* One session of an agent with the MCP server: the handshake, and the     *)
(* calls that list the workspace page by page with cursors.                *)
(*                                                                         *)
(* Every message is handled by a task of its own.  A cursor belongs to the *)
(* arguments it was made for and to the latest commit sequence; the rows   *)
(* are read later than that sequence, and list_runs reads its count before *)
(* its rows, each under a lock of its own.  Not every commit has a delta   *)
(* and thereby a sequence: projects, dispositions and cohorts have none.   *)
(*                                                                         *)
(* A query stands for a tool with its scope, filters and sort order, and   *)
(* its listing for the rows the store has for it, in the store's order.    *)
(* Runs are numbered in the order in which they start.                     *)
(***************************************************************************)
EXTENDS Integers, FiniteSets, FiniteSetsExt, Sequences, SequencesExt

CONSTANTS
  ListRows,      \* the rows of listings
  Queries,
  RunQueries,    \* list_runs: the count is read before the rows
  GroupQueries,  \* list_failure_groups: the page is sorted, not the listing
  SessionQueries,\* list_sessions: the rows are runs, what is shown are their sessions
  Rank,          \* the place of each row in the order a group query asks for
  SessionOf,     \* the session of each run
  EndsAt,        \* when each run ends
  Initially,     \* the listings at the start
  Limits,        \* page sizes the agent asks for
  MaximumPage,   \* 200
  MaxResponse,   \* rows that fit into maximum_response_bytes
  NoWalk,        \* no walk is complete
  MaxCalls, MaxCommits

Descending(s) == \A i, j \in DOMAIN s : i < j => s[i] > s[j]

(* Runs are listed newest first for list_sessions.                         *)
Listings(q) ==
  {s \in UNION {[1..n -> ListRows] : n \in 0..Cardinality(ListRows)} :
     IsInjective(s) /\ (q \in SessionQueries => Descending(s))}

ASSUME SessionAssumption ==
  /\ ListRows \subseteq Nat /\ IsFiniteSet(ListRows) /\ SessionOf \in [ListRows -> ListRows]
  /\ RunQueries \cup GroupQueries \cup SessionQueries \subseteq Queries
  /\ GroupQueries \cap SessionQueries = {}
  /\ {Rank, EndsAt} \subseteq [ListRows -> Nat] /\ IsInjective(Rank)
  /\ DOMAIN Initially = Queries /\ \A q \in Queries : Initially[q] \in Listings(q)
  /\ Limits \subseteq 1..MaximumPage /\ {MaximumPage, MaxResponse} \subseteq Nat
  /\ {MaxCalls, MaxCommits} \subseteq Nat

VARIABLES
  listing,      \* what the store has for each query
  sequence,     \* latest_commit_sequence
  handshake,    \* of the notification: unseen, stored, notified
  call,         \* the request that is being handled
  cursors,      \* the cursors the agent was given
  finished,     \* the walk that reached its last page (observation)
  calls, commits

sessionVars == <<listing, sequence, handshake, call, cursors, finished, calls, commits>>

NoCall == [at |-> "idle"]

(* The first page needs no cursor.  What a walk has shown and whether an   *)
(* unannounced change or one within a call spoilt it are observations.     *)
Start(q) == [query |-> q, limit |-> 0, offset |-> 0, sequence |-> 0, shown |-> <<>>,
             spoilt |-> FALSE]

SessionInit ==
  /\ listing = Initially
  /\ sequence = 1 /\ handshake = "unseen" /\ call = NoCall /\ cursors = {}
  /\ finished = NoWalk /\ calls = 0 /\ commits = 0

-----------------------------------------------------------------------------
(* The workspace changes.  A row appears, goes, or moves to the front.     *)

NextListings(q) ==
  LET others(r) == SelectSeq(listing[q], LAMBDA x : x # r)
  IN  {l \in {others(r) : r \in ListRows} \cup {<<r>> \o others(r) : r \in ListRows} :
         l # listing[q] /\ l \in Listings(q)}

(* A change while a call reads spoils the walk, as does one that no        *)
(* sequence tells of between two calls.                                    *)
Spoils(q, told) ==
  /\ call # NoCall /\ call.cursor.query = q
  /\ \/ call.at \in {"count", "rows"}
     \/ ~told /\ call.cursor.offset > 0

(* A change comes with its delta, before it or without one.                *)
CommitChange(q) ==
  /\ commits < MaxCommits /\ commits' = commits + 1
  /\ \E l \in NextListings(q) : listing' = [listing EXCEPT ![q] = l]
  /\ \E told \in BOOLEAN :
       /\ sequence' = IF told THEN sequence + 1 ELSE sequence
       /\ cursors' = {[c EXCEPT !.spoilt = @ \/ (~told /\ c.query = q)] : c \in cursors}
       /\ call' = IF Spoils(q, told) THEN [call EXCEPT !.cursor.spoilt = TRUE] ELSE call
  /\ UNCHANGED <<handshake, finished, calls>>

-----------------------------------------------------------------------------
(* The handshake.                                                          *)

(* on_initialized stores the flag and then wakes who waits for it.         *)
Initialized ==
  /\ handshake = "unseen" /\ handshake' = "stored"
  /\ UNCHANGED <<listing, sequence, call, cursors, finished, calls, commits>>

NotifyWaiters ==
  /\ handshake = "stored" /\ handshake' = "notified"
  /\ call' = IF call.at \in {"registered", "waiting"} /\ call.listed
             THEN [call EXCEPT !.woken = TRUE] ELSE call
  /\ UNCHANGED <<listing, sequence, cursors, finished, calls, commits>>

(* await_initialized registers with the notification before it looks at    *)
(* the flag.                                                               *)
Request(q, limit, cursor) ==
  /\ call = NoCall /\ calls < MaxCalls /\ calls' = calls + 1
  /\ cursor \in cursors \cup {Start(q)}
  /\ call' = [at |-> "registered", query |-> q, limit |-> limit, cursor |-> cursor,
              listed |-> TRUE, woken |-> FALSE]
  /\ finished' = NoWalk
  /\ UNCHANGED <<listing, sequence, handshake, cursors, commits>>

CheckInitialized ==
  /\ call.at = "registered"
  /\ call' = [call EXCEPT !.at = IF handshake = "unseen" THEN "waiting" ELSE "begun"]
  /\ UNCHANGED <<listing, sequence, handshake, cursors, finished, calls, commits>>

(* It is woken, or 250 ms pass.                                            *)
StopWaiting ==
  /\ call.at = "waiting"
  /\ call' = IF handshake = "unseen" THEN NoCall ELSE [call EXCEPT !.at = "begun"]
  /\ UNCHANGED <<listing, sequence, handshake, cursors, finished, calls, commits>>

-----------------------------------------------------------------------------
(* The calls.                                                              *)

(* decode: the cursor is of these arguments and of the latest commit.      *)
FitsAnySequence(cursor) ==
  cursor.offset = 0 \/ (cursor.query = call.query /\ cursor.limit = call.limit)
Fits(cursor) ==
  \/ cursor.offset = 0
  \/ cursor.query = call.query /\ cursor.limit = call.limit /\ cursor.sequence = sequence

(* The commit sequence is read and the cursor compared with it.  A cursor  *)
(* may also be too old.                                                    *)
Decode ==
  /\ call.at = "begun"
  /\ \/ /\ Fits(call.cursor)
        /\ call' = [at |-> IF call.query \in RunQueries THEN "count" ELSE "rows",
                    query |-> call.query, limit |-> call.limit, cursor |-> call.cursor,
                    sequence |-> sequence, snapshot |-> listing[call.query], total |-> 0]
     \/ call.cursor.offset > 0 /\ call' = NoCall
  /\ UNCHANGED <<listing, sequence, handshake, cursors, finished, calls, commits>>

Count ==
  /\ call.at = "count"
  /\ call' = [call EXCEPT !.at = "rows", !.total = Len(listing[call.query])]
  /\ UNCHANGED <<listing, sequence, handshake, cursors, finished, calls, commits>>

Slice(l, offset, limit) == SubSeq(l, offset + 1, Min({offset + limit, Len(l)}))

(* The members of S, each once, in an order of theirs.                     *)
Ordered(S, before) ==
  CHOOSE s \in SetToSeqs(S) : \A i, j \in DOMAIN s : i < j => <<s[i], s[j]>> \in before

RankOrder == {p \in ListRows \X ListRows : Rank[p[1]] < Rank[p[2]]}

(* session_summaries of the runs of a page, the newest first: the session  *)
(* whose last run ends last.                                               *)
LastEnd(runs, s) == Max({EndsAt[r] : r \in {u \in ToSet(runs) : SessionOf[u] = s}})
NewestFirst(runs) ==
  {p \in ListRows \X ListRows :
     \/ LastEnd(runs, p[1]) > LastEnd(runs, p[2])
     \/ LastEnd(runs, p[1]) = LastEnd(runs, p[2]) /\ p[1] < p[2]}
Sessions(runs) == Ordered({SessionOf[r] : r \in ToSet(runs)}, NewestFirst(runs))

(* What is shown, and whether there is more.  list_sessions looks at one   *)
(* run more than the page has, but never at more than MaximumPage.         *)
Runs(l, offset, limit) == Slice(l, offset, Min({limit + 1, MaximumPage}))
PageShown(q, l, offset, limit) ==
  LET rows == Slice(l, offset, limit)
      sessions == Sessions(Runs(l, offset, limit))
  IN  IF q \in SessionQueries THEN SubSeq(sessions, 1, Min({limit, Len(sessions)}))
      ELSE IF q \in GroupQueries THEN Ordered(ToSet(rows), RankOrder)
      ELSE rows
More(q, l, offset, limit, total) ==
  IF q \in SessionQueries THEN Len(Runs(l, offset, limit)) > limit
  ELSE offset + limit < (IF q \in RunQueries THEN total ELSE Len(l))

(* A page that is too large for a response is refused.                     *)
Answer ==
  /\ call.at = "rows"
  /\ LET l == listing[call.query]
         offset == call.cursor.offset
         page == PageShown(call.query, l, offset, call.limit)
         shown == call.cursor.shown \o page
         walk == [query |-> call.query, limit |-> call.limit, offset |-> offset + call.limit,
                  sequence |-> call.sequence, shown |-> shown, spoilt |-> call.cursor.spoilt]
     IN  IF Len(page) > MaxResponse THEN UNCHANGED <<cursors, finished>>
         ELSE IF More(call.query, l, offset, call.limit, call.total)
         THEN cursors' = cursors \cup {walk} /\ UNCHANGED finished
         ELSE /\ finished' = [query |-> call.query, limit |-> call.limit, shown |-> shown,
                              snapshot |-> call.snapshot, spoilt |-> call.cursor.spoilt]
              /\ UNCHANGED cursors
  /\ call' = NoCall
  /\ UNCHANGED <<listing, sequence, handshake, calls, commits>>

SessionNext ==
  \/ \E q \in Queries : CommitChange(q)
  \/ \E q \in Queries, limit \in Limits : \E c \in cursors \cup {Start(q)} : Request(q, limit, c)
  \/ Initialized \/ NotifyWaiters \/ CheckInitialized \/ StopWaiting
  \/ Decode \/ Count \/ Answer

SessionSpec == SessionInit /\ [][SessionNext]_sessionVars

-----------------------------------------------------------------------------
(* Properties.                                                             *)

SessionTypeOK ==
  /\ \A q \in Queries : listing[q] \in Listings(q)
  /\ handshake \in {"unseen", "stored", "notified"} /\ sequence \in 1..(commits + 1)
  /\ call.at \in {"idle", "registered", "waiting", "begun", "count", "rows"}

(* A request that arrives before the notification of the handshake is      *)
(* handled does not sleep through it.                                      *)
NotificationIsHeard == call.at = "waiting" /\ handshake = "notified" => call.woken

(* Runs end in the order in which they start.                              *)
Timely == \A r, u \in ListRows : r < u => EndsAt[r] < EndsAt[u]

(* The pages of a walk from the first to the last together are the listing *)
(* of one commit: each row once, in order, unless a change within a call   *)
(* or one without a sequence came between.  Sorting a page of groups moves *)
(* them within that page only; and every session of the runs is shown, if  *)
(* runs end in the order in which they start and the page is smaller than  *)
(* the largest one.                                                        *)
Exact(walk) ==
  /\ walk.query \in SessionQueries /\ walk.limit < MaximumPage /\ Timely =>
       ToSet(walk.shown) = {SessionOf[r] : r \in ToSet(walk.snapshot)}
  /\ walk.query \in GroupQueries =>
       Len(walk.shown) = Len(walk.snapshot) /\ ToSet(walk.shown) = ToSet(walk.snapshot)
  /\ walk.query \notin SessionQueries \cup GroupQueries => walk.shown = walk.snapshot
WalksAreExact == finished # NoWalk /\ ~finished.spoilt => Exact(finished)

SessionIsSound == SessionTypeOK /\ NotificationIsHeard /\ WalksAreExact

(* An agent can rank recurring failure groups, which is what README.md     *)
(* 241 of the repository says: a walk that nothing came between shows the  *)
(* groups in the order the agent asked for.                                *)
GroupsAreRanked ==
  finished # NoWalk /\ ~finished.spoilt /\ finished.query \in GroupQueries =>
    \A i, j \in DOMAIN finished.shown :
      i < j => Rank[finished.shown[i]] < Rank[finished.shown[j]]

===============================================================================

------------------------------ MODULE Topology ------------------------------
(***************************************************************************)
(* The trees of one trace: the live index readers share while a revision   *)
(* is open, and the background worker that writes the tree of a finalized  *)
(* revision into DuckDB in chunks and marks it ready in SQLite.            *)
(*                                                                         *)
(* Three threads meet here.  The writer thread runs ingest, the sweep and  *)
(* the commands of the worker one after another; the worker computes       *)
(* outside of it; a reader takes no lock but that of the cache, so the     *)
(* statements of a page read interleave with everything.                   *)
(***************************************************************************)
EXTENDS SpanTopology

CONSTANTS
  LastRevision,  \* bound on the revisions of the trace
  Batches,       \* rows a batch can bring: functions from spans to parents
  ChunkRows,     \* stream.topology_chunk_rows
  MaxBatches,    \* bound on the projected batches
  MaxFaults,     \* bound on failed statements and crashes
  None

ASSUME TopologyAssumption ==
  /\ ChunkRows \in Nat \ {0} /\ LastRevision \in Nat \ {0}
  /\ {MaxBatches, MaxFaults} \subseteq Nat
  /\ \A rows \in Batches :
       DOMAIN rows \in (SUBSET Spans) \ {{}} /\ Range(rows) \subseteq Spans \cup {NoParent, Missing}
  /\ IsFiniteSet(Spans) /\ Spans \subseteq Nat /\ {NoParent, Missing} \cap Spans = {}

VARIABLES
  parent,      \* spans (DuckDB): the current rows of each revision
  column,      \* spans (DuckDB): the topology columns of each row
  status,      \* trace_revisions: lifecycle and topology_status of each
  announced,   \* revisions with a TopologyCommitted delta
  index,       \* live_topologies: the index of each revision, if cached
  writer,      \* what the writer thread is in the middle of
  builder,     \* the topology worker
  reader,      \* one reader of pages
  unrecorded,  \* no state of the program: revisions TreesAppear excepts
  batches,     \* batches projected so far
  faults

storeVars == <<parent, column, status, announced>>
otherVars == <<unrecorded, batches, faults>>
vars == <<storeVars, index, writer, builder, reader, otherVars>>

Revisions == 1..LastRevision

(* All that build_topology_projection may have to compute.                 *)
Parents == UNION {[S -> Spans \cup {NoParent, Missing}] : S \in SUBSET Spans}
Trees == {[of |-> f, rows |-> Projection(f)] : f \in Parents}

Free == [at |-> "free"]
Idle == [at |-> "idle"]

Opened == {r \in Revisions : status[r] # "none"}
Current == Max(Opened)
Pending == {r \in Revisions : status[r] = "pending"}

PersistedInPart(r) == \E s \in DOMAIN parent[r] : column[r][s] # None
(* has_persisted_topology.                                                 *)
Persisted(r) == DOMAIN parent[r] # {} /\ \A s \in DOMAIN parent[r] : column[r][s] # None

Init ==
  /\ parent = [r \in Revisions |-> <<>>]
  /\ column = [r \in Revisions |-> [s \in Spans |-> None]]
  /\ status = [r \in Revisions |-> IF r = 1 THEN "open" ELSE "none"]
  /\ announced = {} /\ index = [r \in Revisions |-> None]
  /\ writer = Free /\ builder = Idle /\ reader = Idle
  /\ unrecorded = {} /\ batches = 0 /\ faults = 0

-----------------------------------------------------------------------------
(* The cache of live indexes.                                              *)

(* The epoch of the cache moves: a reader that loads rows has to notice.   *)
Moved(r) == IF "moved" \in DOMAIN r THEN [r EXCEPT !.moved = TRUE] ELSE r

(* LiveTopologyIndex::apply; the memo of depths is of one generation.      *)
Apply(x, rows) ==
  LET parents == Over(rows, x.parents)
  IN [parents |-> parents, depths |-> IF parents = x.parents THEN x.depths ELSE <<>>]

FromRows(rows) == Apply([parents |-> <<>>, depths |-> <<>>], rows)

(* LiveTopologyIndex::annotation, after the depths of `ids` were asked for *)
(* in order.                                                               *)
Asked(x, ids) == [x EXCEPT !.depths = ResolveAll(x.parents, x.depths, ids)]
Annotation(x, s) ==
  [depth |-> IF s \in DOMAIN x.depths THEN x.depths[s] ELSE 0,
   children |-> \E c \in DOMAIN x.parents : x.parents[c] = s]

-----------------------------------------------------------------------------
(* The writer thread: ingest and the sweep.                                *)

(* The DuckDB transaction of a batch, and the update of the indexes under  *)
(* the cache lock that follows it.  A finalized revision is not written:   *)
(* its trace goes on in a new one.                                         *)
ProjectBatch ==
  /\ writer = Free /\ batches < MaxBatches
  /\ \E r \in Revisions, rows \in Batches :
       /\ \/ r = Current /\ status[r] = "open"
          \/ r = Current + 1 /\ status[Current] # "open"
       /\ parent' = [parent EXCEPT ![r] = Over(rows, @)]
       /\ column' = [column EXCEPT ![r] = [s \in Spans |-> IF s \in DOMAIN rows THEN None
                                                         ELSE @[s]]]
       /\ status' = [status EXCEPT ![r] = "open"]
       /\ writer' = [at |-> "projecting", revision |-> r, rows |-> rows]
  /\ batches' = batches + 1
  /\ UNCHANGED <<announced, index, builder, reader, unrecorded, faults>>

UpdateIndexes ==
  /\ writer.at = "projecting"
  /\ LET r == writer.revision
     IN index' = [index EXCEPT ![r] = IF @ = None THEN None ELSE Apply(@, writer.rows)]
  /\ reader' = Moved(reader)
  /\ writer' = Free
  /\ UNCHANGED <<storeVars, builder, otherVars>>

Finalize ==
  /\ writer = Free /\ status[Current] = "open" /\ DOMAIN parent[Current] # {}
  /\ status' = [status EXCEPT ![Current] = "pending"]
  /\ UNCHANGED <<parent, column, announced, index, writer, builder, reader, otherVars>>

-----------------------------------------------------------------------------
(* The topology worker.                                                    *)

Claim ==
  /\ writer = Free /\ builder = Idle /\ Pending # {}
  /\ status' = [status EXCEPT ![Min(Pending)] = "running"]
  /\ builder' = [at |-> "claimed", revision |-> Min(Pending)]
  /\ UNCHANGED <<parent, column, announced, index, writer, reader, otherVars>>

(* build_topology_projection on a reading connection.                      *)
Build ==
  /\ builder.at = "claimed"
  /\ \E t \in Trees :
       /\ t.of = parent[builder.revision]
       /\ builder' = [at |-> "built", revision |-> builder.revision, rest |-> t.rows,
                      first |-> TRUE]
  /\ UNCHANGED <<storeVars, index, writer, reader, otherVars>>

Chunk == SubSeq(builder.rest, 1, Min({ChunkRows, Len(builder.rest)}))
IsLast == Len(builder.rest) <= ChunkRows

(* The columns after a chunk; the first one clears what an interrupted     *)
(* build of the revision left.                                             *)
Written(old, rows, first) ==
  [s \in Spans |-> IF \E k \in DOMAIN rows : rows[k].span = s
                   THEN rows[CHOOSE k \in DOMAIN rows : rows[k].span = s]
                   ELSE IF first THEN None ELSE old[s]]

(* The DuckDB transaction of commit_topology_chunk.                        *)
WriteChunk ==
  /\ writer = Free /\ builder.at = "built"
  /\ LET r == builder.revision
     IN /\ column' = [column EXCEPT ![r] = Written(@, Chunk, builder.first)]
        /\ reader' = IF builder.first /\ reader.at = "checked" /\ reader.revision = r
                     THEN [reader EXCEPT !.raced = TRUE] ELSE reader
  /\ IF IsLast
     THEN /\ writer' = [at |-> "publishing"]
          /\ builder' = [builder EXCEPT !.at = "publishing"]
     ELSE /\ builder' = [builder EXCEPT !.rest = SubSeq(@, ChunkRows + 1, Len(@)),
                                        !.first = FALSE]
          /\ UNCHANGED writer
  /\ UNCHANGED <<parent, status, announced, index, otherVars>>

(* The control transaction of the last chunk, once the columns are found   *)
(* complete, with the delta of a revision that is still the current one;   *)
(* then the index is dropped.                                              *)
Publish ==
  /\ writer.at = "publishing"
  /\ LET r == builder.revision
     IN /\ Persisted(r) /\ status[r] = "running"
        /\ status' = [status EXCEPT ![r] = "ready"]
        /\ announced' = IF r = Current THEN announced \cup {r} ELSE announced
        /\ index' = [index EXCEPT ![r] = None]
  /\ reader' = Moved(reader)
  /\ writer' = Free /\ builder' = Idle
  /\ UNCHANGED <<parent, column, otherVars>>

(* Reading the rows or a chunk failed, before or after DuckDB committed.   *)
ChunkFails ==
  /\ faults < MaxFaults
  /\ \/ builder.at = "claimed" /\ UNCHANGED writer
     \/ builder.at = "built" /\ UNCHANGED writer
     \/ builder.at = "publishing" /\ writer' = Free
  /\ builder' = [at |-> "failed", revision |-> builder.revision]
  /\ faults' = faults + 1
  /\ UNCHANGED <<storeVars, index, reader, unrecorded, batches>>

(* fail_topology_projection; the worker ignores an error of its own.       *)
RecordFailure ==
  /\ writer = Free /\ builder.at = "failed"
  /\ status' = [status EXCEPT ![builder.revision] = "pending"]
  /\ builder' = Idle
  /\ UNCHANGED <<parent, column, announced, index, writer, reader, otherVars>>

RecordFails ==
  /\ faults < MaxFaults /\ builder.at = "failed"
  /\ builder' = Idle
  /\ faults' = faults + 1 /\ unrecorded' = unrecorded \cup {builder.revision}
  /\ UNCHANGED <<storeVars, index, writer, reader, batches>>

-----------------------------------------------------------------------------
(* A reader: a page of spans, or one span, of some revision.  `raced` is   *)
(* no part of the program: it marks pages that PagesAreTrue excepts.       *)

CheckPersisted ==
  /\ reader = Idle
  /\ \E r \in Opened :
       reader' = [at |-> "checked", revision |-> r, persisted |-> Persisted(r),
                  raced |-> status[r] = "open"]
  /\ UNCHANGED <<storeVars, index, writer, builder, otherVars>>

(* The rows as they are now, with the columns they have now.               *)
ReadRows ==
  /\ reader.at = "checked"
  /\ LET r == reader.revision
         ask(S) == IF reader.persisted
                   THEN [at |-> "answer", revision |-> r, raced |-> reader.raced,
                         page |-> [s \in S |->
                           IF column[r][s] = None THEN [depth |-> 0, children |-> FALSE]
                           ELSE [depth |-> column[r][s].depth,
                                 children |-> column[r][s].children]]]
                   ELSE [at |-> "asking", revision |-> r, ids |-> InOrder(S),
                         raced |-> reader.raced]
     IN \E S \in {DOMAIN parent[r]} \cup {{s} : s \in DOMAIN parent[r]} : reader' = ask(S)
  /\ UNCHANGED <<storeVars, index, writer, builder, otherVars>>

Answer(x, r, ids) ==
  /\ index' = [index EXCEPT ![r] = Asked(x, ids)]
  /\ reader' = [at |-> "answer", revision |-> r, raced |-> reader.raced,
                page |-> [s \in ToSet(ids) |-> Annotation(Asked(x, ids), s)]]

(* live_topology_annotations: the cached index answers, else its epoch is  *)
(* noted, the rows are loaded without the lock, and they become the index  *)
(* unless the cache moved on meanwhile.                                    *)
AskIndex ==
  /\ reader.at = "asking"
  /\ LET r == reader.revision
     IN IF index[r] # None THEN Answer(index[r], r, reader.ids)
        ELSE /\ reader' = [at |-> "missed", revision |-> r, ids |-> reader.ids,
                           raced |-> reader.raced, moved |-> FALSE]
             /\ UNCHANGED index
  /\ UNCHANGED <<storeVars, writer, builder, otherVars>>

LoadRows ==
  /\ reader.at = "missed"
  /\ reader' = [at |-> "loaded", revision |-> reader.revision, ids |-> reader.ids,
                raced |-> reader.raced, moved |-> reader.moved,
                rows |-> parent[reader.revision]]
  /\ UNCHANGED <<storeVars, index, writer, builder, otherVars>>

FillIndex ==
  /\ reader.at = "loaded"
  /\ LET r == reader.revision
     IN IF reader.moved
        THEN /\ reader' = [at |-> "asking", revision |-> r, ids |-> reader.ids,
                           raced |-> reader.raced]
             /\ UNCHANGED index
        ELSE Answer(IF index[r] = None THEN FromRows(reader.rows) ELSE index[r], r, reader.ids)
  /\ UNCHANGED <<storeVars, writer, builder, otherVars>>

Deliver ==
  /\ reader.at = "answer"
  /\ reader' = Idle
  /\ UNCHANGED <<storeVars, index, writer, builder, otherVars>>

-----------------------------------------------------------------------------
RestartLeavesJobs ==
  /\ faults < MaxFaults
  /\ index' = [r \in Revisions |-> None]
  /\ writer' = Free /\ builder' = Idle /\ reader' = Idle
  /\ faults' = faults + 1 /\ unrecorded' = {}
  /\ UNCHANGED <<storeVars, batches>>

(* The process ends; recover_topology_jobs runs before anything else when  *)
(* the workspace is opened again.                                          *)
Restart ==
  /\ faults < MaxFaults
  /\ status' = [r \in Revisions |-> IF status[r] = "running" THEN "pending" ELSE status[r]]
  /\ index' = [r \in Revisions |-> None]
  /\ writer' = Free /\ builder' = Idle /\ reader' = Idle
  /\ faults' = faults + 1 /\ unrecorded' = {}
  /\ UNCHANGED <<parent, column, announced, batches>>

Work == Claim \/ Build \/ WriteChunk \/ Publish \/ RecordFailure
Read == CheckPersisted \/ ReadRows \/ AskIndex \/ LoadRows \/ FillIndex \/ Deliver

Next ==
  \/ ProjectBatch \/ UpdateIndexes \/ Finalize
  \/ Work \/ ChunkFails \/ RecordFails
  \/ Read
  \/ Restart

Spec == Init /\ [][Next]_vars

(* The writer and the worker are loops that run until shutdown.            *)
FairSpec == Spec /\ WF_vars(UpdateIndexes) /\ WF_vars(Work)

-----------------------------------------------------------------------------
(* Properties.                                                             *)

Rows == [span : Spans, order : Nat, depth : Nat, children : BOOLEAN]

TypeOK ==
  /\ parent \in [Revisions -> Parents]
  /\ column \in [Revisions -> [Spans -> Rows \cup {None}]]
  /\ status \in [Revisions -> {"none", "open", "pending", "running", "ready"}]
  /\ announced \subseteq Revisions
  /\ \A r \in Revisions : index[r] # None => index[r].parents \in Parents
  /\ writer.at \in {"free", "projecting", "publishing"}
  /\ builder.at \in {"idle", "claimed", "built", "publishing", "failed"}
  /\ reader.at \in {"idle", "checked", "asking", "missed", "loaded", "answer"}
  /\ unrecorded \subseteq Revisions /\ batches \in 0..MaxBatches /\ faults \in 0..MaxFaults

(* A revision that is marked ready has the whole tree of its spans in the  *)
(* columns, whatever was interrupted on the way, and clients were told of  *)
(* it unless the trace had gone on.                                        *)
ReadyIsProjected ==
  \A r \in Revisions : status[r] = "ready" =>
    /\ Persisted(r)
    /\ \A s \in DOMAIN parent[r] : column[r][s].depth = Layout(parent[r])[s]
    /\ TreeIsComplete(parent[r], column[r])
    /\ r \notin announced => r # Current

(* No append is lost from an index that readers share: it holds the rows   *)
(* of the store, or lacks just the batch whose update is under way.        *)
IndexFollowsRows ==
  \A r \in Revisions : index[r] # None =>
    \/ index[r].parents = parent[r]
    \/ /\ writer.at = "projecting" /\ writer.revision = r
       /\ Over(writer.rows, index[r].parents) = parent[r]

TopologyIsSound == TypeOK /\ ReadyIsProjected /\ IndexFollowsRows

(* The depths a span may show: in a cycle they depend on what was asked    *)
(* for first.                                                              *)
DepthsOf(f, s) ==
  {ResolveAll(f, <<>>, order)[s] : order \in SetToSeqs(DOMAIN f)}

(* A page asked of a finalized revision shows the depths and the markers   *)
(* of its tree, from the columns or from the index, but for one case: the  *)
(* columns were found complete, and before the rows were read a repeated   *)
(* build had cleared them.                                                 *)
PagesAreTrue ==
  reader.at = "answer" /\ ~reader.raced =>
    LET f == parent[reader.revision]
    IN \A s \in DOMAIN reader.page :
         /\ reader.page[s].depth \in DepthsOf(f, s)
         /\ (\E c \in DOMAIN f : HasValidParent(f, Layout(f), c) /\ f[c] = s)
              => reader.page[s].children

(* The trees people see, live, while they are rebuilt and for ever after,  *)
(* are those of the spans.                                                 *)
TreesAreTrue == TopologyIsSound /\ PagesAreTrue

(* Every finalized revision gets its tree, whatever fails on the way and    *)
(* however often the process ends; unless recording a failure failed too:  *)
(* then its job stays running without a worker until the next start.       *)
TreesAppear ==
  \A r \in Revisions : []<>(status[r] \in {"none", "open", "ready"} \/ r \in unrecorded)

=============================================================================

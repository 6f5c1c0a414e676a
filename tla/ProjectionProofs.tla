-------------------------- MODULE ProjectionProofs --------------------------
(***************************************************************************)
(* Theorems about Projection and, at the end, about the MCP server, for    *)
(* every value of their constants.                                         *)
(***************************************************************************)
EXTENDS Projection, McpServer, FiniteSetTheorems, WellFoundedInduction, SequenceTheorems, TLAPS

(* Any nonempty set of naturals has a least member: the inclusion order on *)
(* the finite sets 0..x is well founded.                                   *)
LEMMA LeastExists ==
  ASSUME NEW S \in SUBSET Nat, S # {}
  PROVE  \E x \in S : \A y \in S : x =< y
<1> DEFINE T == {0..x : x \in S}
<1>1. T \subseteq FiniteSubsetsOf(Nat) /\ T # {}
  <2>1. ASSUME NEW x \in S PROVE 0..x \in FiniteSubsetsOf(Nat)
    <3>1. IsFiniteSet(0..x) /\ 0..x \subseteq Nat
      <4>1. x \in Int
        OBVIOUS
      <4> QED BY <4>1, FS_Interval
    <3> QED BY <3>1 DEF FiniteSubsetsOf
  <2> QED BY <2>1
<1> DEFINE R == StrictSubsetOrdering(Nat)
<1>2. IsWellFoundedOn(R, FiniteSubsetsOf(Nat))
  BY FS_StrictSubsetOrderingWellFounded
<1>3. PICK X \in T : \A Y \in T : ~(<<Y, X>> \in R)
  <2> HIDE DEF T, R
  <2> QED BY <1>1, <1>2, WFMin
<1>4. PICK x \in S : X = 0..x
  OBVIOUS
<1>5. ASSUME NEW y \in S, ~(x =< y) PROVE FALSE
  <2>1. 0..y \in T /\ 0..y \subseteq 0..x /\ 0..y # 0..x /\ 0..x \subseteq Nat
    <3>1. x \in 0..x /\ x \notin 0..y
      BY <1>5
    <3> QED BY <1>5, <3>1
  <2> QED BY <1>3, <1>4, <2>1 DEF StrictSubsetOrdering
<1> QED
  BY <1>5

(* Min and Max of FiniteSetsExt pick a member of any nonempty set of       *)
(* timestamps.                                                             *)
LEMMA MinInRange ==
  ASSUME NEW n \in Nat, NEW S \in SUBSET (0..n), S # {}
  PROVE  Min(S) \in 0..n
<1>1. \E x \in S : \A y \in S : x =< y
  BY LeastExists
<1> QED
  BY <1>1 DEF Min

LEMMA MaxInRange ==
  ASSUME NEW n \in Nat, NEW S \in SUBSET (0..n), S # {}
  PROVE  Max(S) \in 0..n
<1> DEFINE M == {n - y : y \in S}
<1>1. M \subseteq Nat /\ M # {}
  <2>1. \A y \in S : n - y \in Nat
    OBVIOUS
  <2>2. \E y \in S : n - y \in M
    OBVIOUS
  <2> QED BY <2>1, <2>2
<1>2. PICK m \in M : \A y \in M : m =< y
  BY <1>1, LeastExists
<1>3. PICK x \in S : m = n - x
  OBVIOUS
<1>4. \A y \in S : x >= y
  BY <1>2, <1>3
<1> QED
  BY <1>4 DEF Max

LEMMA MaxWithZero ==
  ASSUME NEW i \in Int
  PROVE  Max({0, i}) \in Nat
<1>1. \E x \in {0, i} : \A y \in {0, i} : x >= y
  OBVIOUS
<1>2. PICK x \in {0, i} : x = Max({0, i}) /\ \A y \in {0, i} : x >= y
  BY <1>1 DEF Max
<1> QED
  BY <1>2

(* The image of a finite set under a function is finite.                   *)
LEMMA ImageFinite ==
  ASSUME NEW S, IsFiniteSet(S), NEW f
  PROVE  IsFiniteSet({f[x] : x \in S})
<1> DEFINE T == {f[x] : x \in S}
           g == [x \in S |-> f[x]]
<1>1. g \in Surjection(S, T)
  BY DEF Surjection
<1> HIDE DEF T, g
<1>2. IsFiniteSet(T)
  BY <1>1, FS_Surjection
<1> QED
  BY <1>2 DEF T

-----------------------------------------------------------------------------
(* Types of the operators of a projected page.                             *)

(* A page has finitely many upserts, each a typed one.                     *)
LEMMA PositionsTyped ==
  ASSUME TypeOK, NEW rows \in SUBSET (DOMAIN journal)
  PROVE  /\ IsFiniteSet(Positions(rows))
         /\ \A d \in Positions(rows) : Upsert(d) \in Upserts
<1> DEFINE len(i) == Len(SpansOf[journal[i].payload])
<1>1. ASSUME NEW i \in rows
      PROVE  /\ SpansOf[journal[i].payload] \in Seq(Upserts)
             /\ DOMAIN SpansOf[journal[i].payload] = 1..len(i)
             /\ len(i) \in Nat
  <2>1. journal[i] \in JournalRows
    BY ElementOfSeq, LenProperties DEF TypeOK
  <2>2. SpansOf[journal[i].payload] \in Seq(Upserts)
    BY <2>1, ProjectionAssumption DEF JournalRows
  <2> QED BY <2>2, LenProperties
<1> DEFINE f == [i \in rows |-> {<<i, k>> : k \in DOMAIN SpansOf[journal[i].payload]}]
<1>2. IsFiniteSet(rows)
  <2>1. DOMAIN journal = 1..Len(journal) /\ Len(journal) \in Nat
    BY LenProperties DEF TypeOK
  <2>2. IsFiniteSet(DOMAIN journal)
    BY <2>1, FS_Interval
  <2> QED BY <2>2, FS_Subset
<1>3. ASSUME NEW i \in rows PROVE IsFiniteSet(f[i])
  <2>1. IsFiniteSet(1..len(i)) /\ IsFiniteSet({i})
    <3>1. 1 \in Int /\ len(i) \in Int
      BY <1>1
    <3> HIDE DEF len
    <3> QED BY <3>1, FS_Interval, FS_Singleton
  <2>2. IsFiniteSet({i} \X (1..len(i)))
    BY <2>1, FS_Product
  <2>3. f[i] \in SUBSET ({i} \X (1..len(i)))
    BY <1>1
  <2> QED BY <2>2, <2>3, FS_Subset
<1>4. Positions(rows) = UNION {f[i] : i \in rows}
  BY DEF Positions
<1>5. IsFiniteSet({f[i] : i \in rows})
  BY <1>2, ImageFinite
<1>6. IsFiniteSet(Positions(rows))
  <2> HIDE DEF f
  <2> QED BY <1>3, <1>4, <1>5, FS_UNION
<1>7. ASSUME NEW d \in Positions(rows) PROVE Upsert(d) \in Upserts
  <2>1. PICK i \in rows : \E k \in DOMAIN SpansOf[journal[i].payload] : d = <<i, k>>
    BY DEF Positions
  <2>2. PICK k \in 1..len(i) : d = <<i, k>>
    BY <1>1, <2>1
  <2>3. SpansOf[journal[i].payload][k] \in Upserts
    BY <1>1, ElementOfSeq
  <2> QED BY <2>2, <2>3 DEF Upsert
<1> QED
  BY <1>6, <1>7

LEMMA TargetTyped ==
  ASSUME TypeOK, NEW t \in Traces
  PROVE  Target(t) \in Nat
BY DEF TypeOK, TraceRows, Target

LEMMA NewRowsTyped ==
  ASSUME TypeOK, IsFiniteSet(spans), NEW rows \in SUBSET (DOMAIN journal)
  PROVE  /\ NewRows(rows) \subseteq SpanRows
         /\ IsFiniteSet(NewRows(rows))
<1> DEFINE earlier(d) == {e \in Changes(rows) : SameSpan(d, e) /\ ~Earlier(d, e)}
           new(d) == [trace |-> Upsert(d).trace, revision |-> Target(Upsert(d).trace),
                      id |-> Upsert(d).id,
                      version |-> StoredVersion(d) + Cardinality(earlier(d)),
                      content |-> Upsert(d).content,
                      current |-> ~\E e \in Changes(rows) : SameSpan(d, e) /\ Earlier(d, e)]
           f == [d \in Changes(rows) |-> new(d)]
<1>1. IsFiniteSet(Changes(rows)) /\ Changes(rows) \subseteq Positions(rows)
  BY PositionsTyped, FS_Subset DEF Changes
<1>2. NewRows(rows) = {f[d] : d \in Changes(rows)}
  BY DEF NewRows
<1>3. IsFiniteSet(NewRows(rows))
  <2> HIDE DEF f
  <2> QED BY <1>1, <1>2, ImageFinite
<1>4. ASSUME NEW d \in Changes(rows) PROVE new(d) \in SpanRows
  <2>1. Upsert(d) \in Upserts
    BY <1>1, PositionsTyped
  <2>2. Upsert(d).trace \in Traces /\ Upsert(d).id \in SpanIds /\ Upsert(d).content \in Contents
    BY <2>1 DEF Upserts
  <2>3. Target(Upsert(d).trace) \in Nat
    BY <2>2, TargetTyped
  <2>4. StoredVersion(d) \in Nat
    <3>1. Stored(d) \subseteq SpanRows
      BY DEF Stored, TypeOK
    <3>2. CASE Stored(d) = {}
      BY <3>2 DEF StoredVersion
    <3>3. CASE Stored(d) # {}
      <4>1. (CHOOSE s \in Stored(d) : TRUE) \in Stored(d)
        BY <3>3
      <4> QED BY <3>1, <3>3, <4>1 DEF StoredVersion, SpanRows
    <3> QED BY <3>2, <3>3
  <2>5. Cardinality(earlier(d)) \in Nat
    <3>1. earlier(d) \in SUBSET Changes(rows)
      OBVIOUS
    <3> HIDE DEF earlier
    <3> QED BY <1>1, <3>1, FS_Subset, FS_CardinalityType
  <2> HIDE DEF earlier
  <2>6. StoredVersion(d) + Cardinality(earlier(d)) \in Nat
    BY <2>4, <2>5
  <2> QED BY <2>2, <2>3, <2>6 DEF SpanRows
<1> QED
  <2> HIDE DEF new
  <2> QED BY <1>2, <1>3, <1>4

LEMMA SpansAfterTyped ==
  ASSUME TypeOK, IsFiniteSet(spans), NEW rows \in SUBSET (DOMAIN journal)
  PROVE  SpansAfter(rows) \subseteq SpanRows /\ IsFiniteSet(SpansAfter(rows))
<1> DEFINE old == {[s EXCEPT !.current = @ /\ ~Superseded(rows, s)] : s \in spans}
           f == [s \in spans |-> [s EXCEPT !.current = @ /\ ~Superseded(rows, s)]]
<1>1. old = {f[s] : s \in spans}
  OBVIOUS
<1>2. IsFiniteSet(old)
  <2> HIDE DEF f, old
  <2> QED BY <1>1, ImageFinite
<1>3. old \subseteq SpanRows
  <2>1. SUFFICES ASSUME NEW s \in spans, NEW b \in BOOLEAN
                 PROVE  [s EXCEPT !.current = b] \in SpanRows
    <3>1. \A s \in spans : (s.current /\ ~Superseded(rows, s)) \in BOOLEAN
      OBVIOUS
    <3> QED BY <2>1, <3>1
  <2>2. s \in SpanRows
    BY DEF TypeOK
  <2> QED BY ONLY <2>2, b \in BOOLEAN DEF SpanRows
<1>4. SpansAfter(rows) = old \cup NewRows(rows)
  BY DEF SpansAfter
<1> QED
  <2> HIDE DEF old
  <2> QED BY <1>2, <1>3, <1>4, NewRowsTyped, FS_Union

(* A recomputed summary is typed whatever rows it is computed from.        *)
LEMMA FullSummaryTyped ==
  ASSUME NEW rows \in SUBSET SpanRows, IsFiniteSet(rows), NEW t, NEW r
  PROVE  FullSummary(rows, t, r) \in Summaries
<1> DEFINE mine == {s \in rows : s.trace = t /\ s.revision = r /\ s.current}
           bad == {s \in mine : s.content.error}
           starts == {s.content.start : s \in mine}
           ends == {s.content.end : s \in mine}
<1>1. CASE mine = {}
  BY <1>1, ProjectionAssumption DEF FullSummary, NoSummary, Summaries
<1>2. CASE mine # {}
  <2>1. Cardinality(mine) \in Nat /\ Cardinality(bad) \in Nat
    <3>1. mine \in SUBSET rows /\ bad \in SUBSET mine
      OBVIOUS
    <3> HIDE DEF mine, bad
    <3> QED BY <3>1, FS_Subset, FS_CardinalityType
  <2>2. MaxTime \in Nat /\ starts \in SUBSET (0..MaxTime) /\ ends \in SUBSET (0..MaxTime)
    BY ProjectionAssumption DEF SpanRows
  <2>3. starts # {} /\ ends # {}
    BY <1>2
  <2>4. Min(starts) \in 0..MaxTime /\ Max(ends) \in 0..MaxTime
    <3> HIDE DEF starts, ends
    <3> QED BY <2>2, <2>3, MinInRange, MaxInRange
  <2>5. FullSummary(rows, t, r) = [count |-> Cardinality(mine), errors |-> Cardinality(bad),
                                   start |-> Min(starts), end |-> Max(ends)]
    BY <1>2 DEF FullSummary
  <2> HIDE DEF mine, bad, starts, ends
  <2> QED BY <2>1, <2>4, <2>5 DEF Summaries
<1> QED
  BY <1>1, <1>2

LEMMA BaseSummaryTyped ==
  ASSUME TypeOK, NEW t \in Traces
  PROVE  BaseSummary(t) \in Summaries
<1>1. NoSummary \in Summaries
  BY ProjectionAssumption DEF NoSummary, Summaries
<1>2. logical[t].summary \in Summaries
  BY DEF TypeOK, TraceRows
<1> QED
  BY <1>1, <1>2 DEF BaseSummary

(* An incremental summary is typed for a trace the page changes.           *)
LEMMA IncrementalSummaryTyped ==
  ASSUME TypeOK, IsFiniteSet(spans), NEW rows \in SUBSET (DOMAIN journal),
         NEW t \in Traces, \E d \in Changes(rows) : Upsert(d).trace = t
  PROVE  IncrementalSummary(rows, t) \in Summaries
<1> DEFINE base == BaseSummary(t)
           mine == {d \in Changes(rows) : Upsert(d).trace = t}
           isNew(d) == Seen(rows, d) = {}
           wasError(d) == \E c \in Seen(rows, d) : c.error
           upTo(d) == {e \in mine : Earlier(e, d)}
           kept(x) == IF base.count > 0 THEN {x} ELSE {}
           starts(S) == kept(base.start) \cup {Upsert(e).content.start : e \in S}
           ends(S) == kept(base.end) \cup {Upsert(e).content.end : e \in S}
           dirty == \E d \in mine : \E c \in Seen(rows, d) :
                      \/ c.start = Min(starts(upTo(d))) /\ Upsert(d).content.start > c.start
                      \/ c.end = Max(ends(upTo(d))) /\ Upsert(d).content.end < c.end
           reloaded == FullSummary(SpansAfter(rows), t, Target(t))
           fresh == {d \in mine : isNew(d)}
           newErrors == {d \in mine : Upsert(d).content.error}
           oldErrors == {d \in mine : wasError(d)}
           count == base.count + Cardinality(fresh)
           errors == Max({0, base.errors + Cardinality(newErrors) - Cardinality(oldErrors)})
           start == IF dirty THEN reloaded.start ELSE Min(starts(mine))
           end == IF dirty THEN reloaded.end ELSE Max(ends(mine))
<1>1. IncrementalSummary(rows, t)
        = [count |-> count, errors |-> errors, start |-> start, end |-> end]
  BY DEF IncrementalSummary
<1>2. base \in Summaries
  BY BaseSummaryTyped
<1>3. reloaded \in Summaries
  BY SpansAfterTyped, FullSummaryTyped
<1>4. /\ Cardinality(fresh) \in Nat
      /\ Cardinality(newErrors) \in Nat
      /\ Cardinality(oldErrors) \in Nat
  <2>1. IsFiniteSet(mine)
    <3>1. mine \in SUBSET Positions(rows)
      BY DEF Changes
    <3> HIDE DEF mine
    <3> QED BY <3>1, PositionsTyped, FS_Subset
  <2>2. fresh \in SUBSET mine /\ newErrors \in SUBSET mine /\ oldErrors \in SUBSET mine
    OBVIOUS
  <2> HIDE DEF mine, fresh, newErrors, oldErrors
  <2> QED BY <2>1, <2>2, FS_Subset, FS_CardinalityType
<1>5. /\ starts(mine) \in SUBSET (0..MaxTime) /\ starts(mine) # {}
      /\ ends(mine) \in SUBSET (0..MaxTime) /\ ends(mine) # {}
  <2>1. ASSUME NEW e \in mine
        PROVE  Upsert(e).content.start \in 0..MaxTime /\ Upsert(e).content.end \in 0..MaxTime
    <3>1. Upsert(e) \in Upserts
      BY PositionsTyped DEF Changes
    <3>2. Upsert(e).content \in Contents
      BY <3>1 DEF Upserts
    <3> QED BY <3>2, ProjectionAssumption
  <2>2. base.start \in 0..MaxTime /\ base.end \in 0..MaxTime
    BY <1>2 DEF Summaries
  <2>3. mine # {}
    OBVIOUS
  <2> HIDE DEF base, mine
  <2> QED BY <2>1, <2>2, <2>3
<1>6. count \in Nat
  <2> HIDE DEF base, fresh
  <2> QED BY <1>2, <1>4 DEF Summaries
<1>7. errors \in Nat
  <2>1. base.errors + Cardinality(newErrors) - Cardinality(oldErrors) \in Int
    <3> HIDE DEF base, newErrors, oldErrors
    <3> QED BY <1>2, <1>4 DEF Summaries
  <2> HIDE DEF base, newErrors, oldErrors
  <2> QED BY <2>1, MaxWithZero
<1>8. start \in 0..MaxTime /\ end \in 0..MaxTime
  <2>1. Min(starts(mine)) \in 0..MaxTime /\ Max(ends(mine)) \in 0..MaxTime
    <3>1. MaxTime \in Nat
      BY ProjectionAssumption
    <3> HIDE DEF starts, ends, mine
    <3> QED BY <1>5, <3>1, MinInRange, MaxInRange
  <2>2. reloaded.start \in 0..MaxTime /\ reloaded.end \in 0..MaxTime
    <3> HIDE DEF reloaded
    <3> QED BY <1>3 DEF Summaries
  <2> HIDE DEF dirty, reloaded, starts, ends, mine
  <2> QED BY <2>1, <2>2
<1> HIDE DEF count, errors, start, end
<1> QED
  BY <1>1, <1>6, <1>7, <1>8 DEF Summaries

(* What the SQLite transaction of a page would write is typed.             *)
LEMMA RowAfterTyped ==
  ASSUME TypeOK, IsFiniteSet(spans), NEW rows \in SUBSET (DOMAIN journal), NEW t \in Traces
  PROVE  RowAfter(rows, t) \in TraceRows
<1>1. EnsuredLifecycle(t) \in Lifecycles
  BY DEF EnsuredLifecycle, TypeOK, TraceRows, Lifecycles, Open
<1>2. Target(t) \in Nat
  BY TargetTyped
<1> DEFINE summary == IF t \notin Touched(rows) THEN BaseSummary(t)
                      ELSE IF Reconcile(rows) THEN FullSummary(SpansAfter(rows), t, Target(t))
                      ELSE IncrementalSummary(rows, t)
<1>3. summary \in Summaries
  <2>1. CASE t \notin Touched(rows)
    BY <2>1, BaseSummaryTyped
  <2>2. CASE t \in Touched(rows) /\ Reconcile(rows)
    BY <2>2, SpansAfterTyped, FullSummaryTyped
  <2>3. CASE t \in Touched(rows) /\ ~Reconcile(rows)
    <3>1. \E d \in Changes(rows) : Upsert(d).trace = t
      BY <2>3 DEF Touched
    <3> QED BY <2>3, <3>1, IncrementalSummaryTyped
  <2> QED BY <2>1, <2>2, <2>3
<1> HIDE DEF summary
<1>4. RowAfter(rows, t) = [revision |-> Target(t), lifecycle |-> EnsuredLifecycle(t),
                           summary |-> summary]
  BY DEF RowAfter, summary
<1> QED
  BY <1>1, <1>2, <1>3, <1>4 DEF TraceRows

-----------------------------------------------------------------------------
(* Type correctness.  TypeOK alone is not inductive: the counts of the     *)
(* summaries are numbers only because the span table is finite.            *)

TypeInv == TypeOK /\ IsFiniteSet(spans)

LEMMA TypeInvInit == Init => TypeInv
<1> SUFFICES ASSUME Init PROVE TypeInv
  OBVIOUS
<1>1. NoRow \in TraceRows /\ NoSummary \in Summaries
  BY ProjectionAssumption DEF NoRow, NoSummary, TraceRows, Summaries, Lifecycles
<1>2. journal \in Seq(JournalRows) /\ DOMAIN journal = {}
  BY EmptySeq, LenProperties DEF Init
<1>3. revisions \in [Traces -> Seq(Lifecycles)]
  BY EmptySeq DEF Init
<1>4. TypeOK
  BY <1>1, <1>2, <1>3, ProjectionAssumption DEF Init, TypeOK
<1> QED
  BY <1>4, FS_EmptySet DEF Init, TypeInv

(* A page holds every unprojected row up to some unprojected row.          *)
LEMMA PageIsPrefix ==
  ASSUME TypeOK, NEW rows \in Pages
  PROVE  /\ rows # {}
         /\ \E m \in Unprojected : rows = {i \in Unprojected : i <= m}
<1>1. PICK m \in Unprojected : rows = {i \in Unprojected : i <= m}
  BY DEF Pages
<1>2. m \in Nat
  BY LenProperties DEF Unprojected, TypeOK
<1>3. m \in rows
  BY <1>1, <1>2
<1> QED
  BY <1>1, <1>3

(* Committing the DuckDB half of any page keeps the types.                 *)
LEMMA CommitAnalyticsTyped ==
  ASSUME TypeInv, NEW rows \in Pages, CommitAnalytics(rows)
  PROVE  TypeInv'
<1> USE DEF TypeInv
<1>1. rows \in SUBSET (DOMAIN journal) /\ rows # {}
  BY PageIsPrefix DEF Unprojected
<1>2. SpansAfter(rows) \subseteq SpanRows /\ IsFiniteSet(SpansAfter(rows))
  BY <1>1, SpansAfterTyped
<1>3. \A t \in Traces : RowAfter(rows, t) \in TraceRows
  BY <1>1, RowAfterTyped
<1>4. LogicalAfter(rows) \in [Traces -> TraceRows]
  BY <1>3 DEF LogicalAfter, TypeOK
<1>5. AnnouncedAfter(rows) \in [Traces -> TraceRows]
  BY <1>3 DEF AnnouncedAfter, TypeOK
<1>6. RevisionsAfter(rows) \in [Traces -> Seq(Lifecycles)]
  <2>1. ASSUME NEW t \in Traces PROVE Append(revisions[t], EnsuredLifecycle(t)) \in Seq(Lifecycles)
    <3>1. EnsuredLifecycle(t) \in Lifecycles
      BY DEF EnsuredLifecycle, TypeOK, TraceRows, Lifecycles, Open
    <3> QED BY <3>1, AppendProperties DEF TypeOK
  <2> QED BY <2>1 DEF RevisionsAfter, TypeOK
<1>7. UNCHANGED <<blobs, journal, logical, revisions, announced, ingesting, toRevise,
                  toAnnounce, acked, torn, muted, faults>>
  BY DEF CommitAnalytics, controlVars, ghostVars
<1>8. spans' \subseteq SpanRows /\ IsFiniteSet(spans')
  BY <1>2 DEF CommitAnalytics
<1>9. applied' \subseteq DOMAIN journal /\ page' \subseteq DOMAIN journal /\ page' # {}
  BY <1>1 DEF CommitAnalytics, TypeOK
<1>10. staged' \in [logical   : [Traces -> TraceRows],
                    revisions : [Traces -> Seq(Lifecycles)],
                    announced : [Traces -> TraceRows]]
  BY <1>4, <1>5, <1>6 DEF CommitAnalytics
<1> QED
  BY <1>7, <1>8, <1>9, <1>10 DEF TypeOK

LEMMA CommitJournalTyped ==
  ASSUME TypeInv, NEW p \in Payloads, CommitJournal(p)
  PROVE  TypeInv'
<1> DEFINE row == [payload |-> p, projected |-> FALSE]
<1>1. row \in JournalRows
  BY DEF JournalRows
<1>2. Append(journal, row) \in Seq(JournalRows) /\ DOMAIN journal \subseteq DOMAIN Append(journal, row)
  <2>1. /\ Append(journal, row) \in Seq(JournalRows)
        /\ Len(Append(journal, row)) = Len(journal) + 1
    BY <1>1, AppendProperties DEF TypeInv, TypeOK
  <2> QED BY <2>1, LenProperties DEF TypeInv, TypeOK
<1>3. journal' \in Seq(JournalRows) /\ DOMAIN journal \subseteq DOMAIN journal'
  BY <1>2 DEF CommitJournal, TypeInv, TypeOK
<1> QED
  BY <1>3 DEF CommitJournal, TypeInv, TypeOK, analyticsVars

LEMMA CommitControlTyped ==
  ASSUME TypeInv, CommitControl
  PROVE  TypeInv'
<1>1. /\ journal' \in Seq(JournalRows)
      /\ DOMAIN journal' = DOMAIN journal
  <2> DEFINE n == Len(journal)
             f == [i \in 1..n |-> IF i \in page
                                  THEN [journal[i] EXCEPT !.projected = TRUE] ELSE journal[i]]
  <2>1. n \in Nat /\ journal \in [1..n -> JournalRows] /\ DOMAIN journal = 1..n
    BY LenProperties DEF TypeInv, TypeOK
  <2>2. f \in [1..n -> JournalRows]
    BY <2>1 DEF JournalRows
  <2>3. f \in Seq(JournalRows)
    BY <2>1, <2>2, SeqDef
  <2> QED BY <2>1, <2>2, <2>3 DEF CommitControl
<1>2. staged \in [logical   : [Traces -> TraceRows],
                  revisions : [Traces -> Seq(Lifecycles)],
                  announced : [Traces -> TraceRows]]
  BY DEF CommitControl, TypeInv, TypeOK
<1> QED
  BY <1>1, <1>2 DEF CommitControl, TypeInv, TypeOK, analyticsVars

LEMMA SweepTyped ==
  ASSUME TypeInv, NEW t \in Traces,
         SweepTraceRow(t) \/ SweepRevisionRow(t) \/ SweepDelta(t)
  PROVE  TypeInv'
<1> USE DEF TypeInv
<1>1. CASE SweepTraceRow(t)
  <2>1. Advanced(t) \in Lifecycles
    BY DEF Advanced, Lifecycles, Open
  <2>2. logical' \in [Traces -> TraceRows]
    <3>1. logical[t] \in TraceRows
      BY DEF TypeOK
    <3>2. [logical[t] EXCEPT !.lifecycle = Advanced(t)] \in TraceRows
      BY <2>1, <3>1 DEF TraceRows
    <3> QED BY <1>1, <3>2 DEF SweepTraceRow, TypeOK
  <2>3. UNCHANGED <<blobs, journal, revisions, announced, applied, spans, ingesting, page,
                    staged, toAnnounce, acked, torn, muted, faults>> /\ toRevise' = {t}
    BY <1>1 DEF SweepTraceRow, analyticsVars, ghostVars
  <2> QED BY <2>2, <2>3 DEF TypeOK
<1>2. CASE SweepRevisionRow(t)
  <2> DEFINE r == logical[t].revision
             row == [revisions[t] EXCEPT ![r] = logical[t].lifecycle]
  <2>1. logical[t].lifecycle \in Lifecycles /\ revisions[t] \in Seq(Lifecycles)
    BY DEF TypeOK, TraceRows
  <2>2. row \in Seq(Lifecycles)
    <3>1. CASE r \in 1..Len(revisions[t])
      BY <2>1, <3>1, ExceptSeq
    <3>2. CASE r \notin 1..Len(revisions[t])
      <4>1. DOMAIN revisions[t] = 1..Len(revisions[t])
        BY <2>1, LenProperties
      <4>2. row = revisions[t]
        BY <2>1, <3>2, <4>1, LenProperties
      <4> QED BY <2>1, <4>2
    <3> QED BY <3>1, <3>2
  <2>3. revisions' = [revisions EXCEPT ![t] = row]
    BY <1>2 DEF SweepRevisionRow
  <2> HIDE DEF row, r
  <2>4. revisions' \in [Traces -> Seq(Lifecycles)]
    BY <2>2, <2>3 DEF TypeOK
  <2> QED BY <1>2, <2>4 DEF SweepRevisionRow, TypeOK, analyticsVars, ghostVars
<1>3. CASE SweepDelta(t)
  BY <1>3 DEF SweepDelta, TypeOK, analyticsVars
<1> QED
  BY <1>1, <1>2, <1>3

LEMMA TypeInvNext == TypeInv /\ [Next]_vars => TypeInv'
<1> SUFFICES ASSUME TypeInv, [Next]_vars PROVE TypeInv'
  OBVIOUS
<1>1. ASSUME NEW p \in Payloads, PutBlobs(p) PROVE TypeInv'
  BY <1>1 DEF PutBlobs, TypeInv, TypeOK, controlVars, analyticsVars, ghostVars
<1>2. ASSUME NEW p \in Payloads, CommitJournal(p) PROVE TypeInv'
  BY <1>2, CommitJournalTyped
<1>3. ASSUME NEW rows \in Pages, CommitAnalytics(rows) PROVE TypeInv'
  BY <1>3, CommitAnalyticsTyped
<1>4. CASE CommitControl
  BY <1>4, CommitControlTyped
<1>5. CASE Sweep \/ FinishSweep
  BY <1>5, SweepTyped DEF Sweep, FinishSweep
<1>6. CASE Interrupt
  BY <1>6, ProjectionAssumption
     DEF Interrupt, TypeInv, TypeOK, TraceRows, controlVars, analyticsVars
<1>7. CASE UNCHANGED vars
  BY <1>7 DEF vars, TypeInv, TypeOK
<1> QED
  BY <1>1, <1>2, <1>3, <1>4, <1>5, <1>6, <1>7 DEF Next, Ingest, Project

LEMMA AlwaysTypeInv == Spec => []TypeInv
BY TypeInvInit, TypeInvNext, PTL DEF Spec

(* Every reachable state is typed: whatever payloads are delivered in      *)
(* whatever order, and however projections and sweeps are interrupted, the *)
(* rows of all three stores, the counters of the summaries and their       *)
(* timestamps stay in their domains.                                       *)
THEOREM TypeCorrect == Spec => []TypeOK
<1>1. TypeInv => TypeOK
  BY DEF TypeInv
<1> QED
  BY <1>1, AlwaysTypeInv, PTL

-----------------------------------------------------------------------------
(* Acknowledged payloads are durable.  The strengthening: the writer       *)
(* answers only for payloads whose blobs it has just written, and no two   *)
(* journal rows hold the same payload.                                     *)

DurableInv ==
  /\ ingesting \subseteq blobs
  /\ acked \subseteq blobs
  /\ \A p \in acked : Journaled(p)
  /\ \A i, j \in DOMAIN journal : journal[i].payload = journal[j].payload => i = j

LEMMA DurableInvInit == Init => DurableInv
BY EmptySeq, LenProperties DEF Init, DurableInv

LEMMA CommitJournalDurable ==
  ASSUME TypeOK, DurableInv, NEW p \in Payloads, CommitJournal(p)
  PROVE  DurableInv'
<1>1. UNCHANGED blobs /\ ingesting' = {} /\ acked' = acked \cup {p} /\ p \in blobs
  BY DEF CommitJournal, DurableInv
<1>2. CASE Journaled(p)
  <2>1. UNCHANGED journal
    BY <1>2 DEF CommitJournal
  <2> QED BY <1>1, <1>2, <2>1 DEF DurableInv, Journaled
<1>3. CASE ~Journaled(p)
  <2> DEFINE n == Len(journal)
             row == [payload |-> p, projected |-> FALSE]
  <2>1. journal' = Append(journal, row) /\ row \in JournalRows
    BY <1>3 DEF CommitJournal, JournalRows
  <2>2. /\ n \in Nat /\ DOMAIN journal = 1..n /\ DOMAIN journal' = 1..(n + 1)
        /\ \A i \in 1..n : journal'[i] = journal[i]
        /\ journal'[n + 1].payload = p
    BY <2>1, AppendProperties, LenProperties DEF TypeOK
  <2>3. \A i \in 1..n : journal[i].payload # p
    BY <1>3, <2>2 DEF Journaled
  <2>4. \A i, j \in DOMAIN journal' : journal'[i].payload = journal'[j].payload => i = j
    <3>1. \A i \in 1..(n + 1) : i \in 1..n \/ i = n + 1
      BY <2>2
    <3> QED BY <2>2, <2>3, <3>1 DEF DurableInv
  <2>5. \A q \in acked' : \E i \in DOMAIN journal' : journal'[i].payload = q
    <3>1. n + 1 \in 1..(n + 1) /\ 1..n \subseteq 1..(n + 1)
      BY <2>2
    <3> QED BY <1>1, <2>2, <3>1 DEF DurableInv, Journaled
  <2> QED BY <1>1, <2>4, <2>5 DEF DurableInv, Journaled
<1> QED
  BY <1>2, <1>3

LEMMA DurableInvNext == TypeInv /\ DurableInv /\ [Next]_vars => DurableInv'
<1> SUFFICES ASSUME TypeInv, DurableInv, [Next]_vars PROVE DurableInv'
  OBVIOUS
<1> USE DEF TypeInv
<1>1. ASSUME NEW p \in Payloads, PutBlobs(p) PROVE DurableInv'
  BY <1>1 DEF PutBlobs, DurableInv, Journaled, controlVars, ghostVars
<1>2. ASSUME NEW p \in Payloads, CommitJournal(p) PROVE DurableInv'
  BY <1>2, CommitJournalDurable
<1>3. CASE CommitControl
  <2>1. /\ DOMAIN journal' = DOMAIN journal
        /\ \A i \in DOMAIN journal : journal'[i].payload = journal[i].payload
    <3>1. \A i \in DOMAIN journal : journal[i] \in JournalRows
      BY ElementOfSeq, LenProperties DEF TypeOK
    <3> QED BY <1>3, <3>1 DEF CommitControl, JournalRows
  <2> QED BY <1>3, <2>1 DEF CommitControl, DurableInv, Journaled
<1>4. CASE Project \/ Sweep \/ FinishSweep
  BY <1>4 DEF Project, CommitAnalytics, Sweep, SweepTraceRow, FinishSweep, SweepRevisionRow,
              SweepDelta, DurableInv, Journaled, controlVars, ghostVars
<1>5. CASE Interrupt
  BY <1>5 DEF Interrupt, DurableInv, Journaled, controlVars
<1>6. CASE UNCHANGED vars
  BY <1>6 DEF vars, DurableInv, Journaled
<1> QED
  BY <1>1, <1>2, <1>3, <1>4, <1>5, <1>6 DEF Next, Ingest

(* "Every acknowledged OTLP batch is durably journaled": for any number of *)
(* payloads and interruptions, an answered payload has its blobs and       *)
(* exactly one journal row.                                                *)
THEOREM AcknowledgedDurably == Spec => []AckedIsDurable
<1>1. DurableInv => AckedIsDurable
  BY DEF DurableInv, AckedIsDurable, Journaled
<1>2. Spec => []DurableInv
  BY DurableInvInit, DurableInvNext, AlwaysTypeInv, PTL DEF Spec
<1> QED
  BY <1>1, <1>2, PTL

-----------------------------------------------------------------------------
(* Rows are projected oldest first.  The strengthening: the page in flight *)
(* is in DuckDB, and every row older than one of its rows is projected or  *)
(* also in the page.                                                       *)

OrderInv ==
  /\ ProjectedInOrder
  /\ page \subseteq applied
  /\ \A i \in page : \A j \in 1..i : j \in page \/ journal[j].projected

LEMMA OrderInvInit == Init => OrderInv
BY EmptySeq, LenProperties DEF Init, OrderInv, ProjectedInOrder

LEMMA OrderInvNext == TypeInv /\ OrderInv /\ [Next]_vars => OrderInv'
<1> SUFFICES ASSUME TypeInv, OrderInv, [Next]_vars PROVE OrderInv'
  OBVIOUS
<1> USE DEF TypeInv
<1> DEFINE n == Len(journal)
<1>0. n \in Nat /\ DOMAIN journal = 1..n /\ \A i \in 1..n : journal[i] \in JournalRows
  BY ElementOfSeq, LenProperties DEF TypeOK
<1>1. ASSUME NEW p \in Payloads, CommitJournal(p) PROVE OrderInv'
  <2> DEFINE row == [payload |-> p, projected |-> FALSE]
  <2>1. CASE UNCHANGED journal
    BY <1>1, <2>1 DEF CommitJournal, OrderInv, ProjectedInOrder, analyticsVars
  <2>2. CASE journal' = Append(journal, row)
    <3>1. /\ DOMAIN journal' = 1..(n + 1)
          /\ \A i \in 1..n : journal'[i] = journal[i]
          /\ journal'[n + 1].projected = FALSE
      <4>1. row \in JournalRows
        BY DEF JournalRows
      <4> QED BY <2>2, <4>1, AppendProperties, LenProperties DEF TypeOK
    <3>2. \A i \in 1..(n + 1) : journal'[i].projected => i \in 1..n
      BY <1>0, <3>1
    <3>3. \A i \in 1..n : 1..i \subseteq 1..n
      BY <1>0
    <3>4. page \subseteq 1..n /\ UNCHANGED <<page, applied>>
      BY <1>0, <1>1 DEF TypeOK, CommitJournal, analyticsVars
    <3>5. ProjectedInOrder'
      BY <1>0, <3>1, <3>2, <3>3, <3>4 DEF OrderInv, ProjectedInOrder
    <3> QED BY <3>1, <3>3, <3>4, <3>5 DEF OrderInv
  <2> QED BY <1>1, <2>1, <2>2 DEF CommitJournal
<1>2. ASSUME NEW rows \in Pages, CommitAnalytics(rows) PROVE OrderInv'
  <2>1. PICK m \in Unprojected : rows = {i \in Unprojected : i <= m}
    BY PageIsPrefix
  <2>2. UNCHANGED journal /\ page' = rows /\ applied' = applied \cup rows
    BY <1>2 DEF CommitAnalytics, controlVars
  <2>3. ASSUME NEW i \in rows, NEW j \in 1..i PROVE j \in rows \/ journal[j].projected
    <3>1. m \in 1..n /\ i \in 1..n /\ i <= m
      BY <1>0, <2>1 DEF Unprojected
    <3>2. j \in 1..n /\ j <= m
      BY <1>0, <3>1
    <3> QED BY <1>0, <2>1, <3>2 DEF Unprojected
  <2> QED BY <2>2, <2>3 DEF OrderInv, ProjectedInOrder
<1>3. CASE CommitControl
  <2>1. /\ DOMAIN journal' = 1..n
        /\ \A i \in 1..n : journal'[i].projected = (i \in page \/ journal[i].projected)
    BY <1>0, <1>3 DEF CommitControl, JournalRows
  <2>2. page' = {} /\ UNCHANGED applied
    BY <1>3 DEF CommitControl, analyticsVars
  <2>3. \A i \in 1..n : 1..i \subseteq 1..n
    BY <1>0
  <2>4. ASSUME NEW i \in 1..n, i \in page \/ journal[i].projected
        PROVE  i \in applied /\ \A j \in 1..i : j \in page \/ journal[j].projected
    BY <1>0, <2>4 DEF OrderInv, ProjectedInOrder
  <2> QED BY <2>1, <2>2, <2>3, <2>4 DEF OrderInv, ProjectedInOrder
<1>4. CASE (\E p \in Payloads : PutBlobs(p)) \/ Sweep \/ FinishSweep
  BY <1>4 DEF PutBlobs, Sweep, SweepTraceRow, FinishSweep, SweepRevisionRow, SweepDelta,
              OrderInv, ProjectedInOrder, controlVars, analyticsVars
<1>5. CASE Interrupt
  BY <1>5 DEF Interrupt, OrderInv, ProjectedInOrder, controlVars, analyticsVars
<1>6. CASE UNCHANGED vars
  BY <1>6 DEF vars, OrderInv, ProjectedInOrder
<1> QED
  BY <1>1, <1>2, <1>3, <1>4, <1>5, <1>6 DEF Next, Ingest, Project

(* However pages are cut, lost and retried, a journal row is marked        *)
(* projected only when its spans and every older row are in place.         *)
THEOREM ProjectsInOrder == Spec => []ProjectedInOrder
<1>1. OrderInv => ProjectedInOrder
  BY DEF OrderInv
<1>2. Spec => []OrderInv
  BY OrderInvInit, OrderInvNext, AlwaysTypeInv, PTL DEF Spec
<1> QED
  BY <1>1, <1>2, PTL

-----------------------------------------------------------------------------
(* Finalized revisions are immutable.  What a half committed page will     *)
(* write to a trace row is either nothing new or the open revision that    *)
(* takes the trace's next upsert.                                          *)

StagedInv ==
  page # {} =>
    \A t \in Traces : \/ staged.logical[t] = logical[t]
                     \/ /\ staged.logical[t].revision = Target(t)
                        /\ staged.logical[t].lifecycle \in Open

LEMMA StagedInvNext == TypeInv /\ StagedInv /\ [Next]_vars => StagedInv'
<1> SUFFICES ASSUME TypeInv, StagedInv, [Next]_vars PROVE StagedInv'
  OBVIOUS
<1> USE DEF TypeInv
<1>1. ASSUME NEW rows \in Pages, CommitAnalytics(rows) PROVE StagedInv'
  <2>1. UNCHANGED logical /\ staged'.logical = LogicalAfter(rows)
    BY <1>1 DEF CommitAnalytics, controlVars
  <2>2. ASSUME NEW t \in Mentions(rows), t \in Traces
        PROVE  /\ LogicalAfter(rows)[t].revision = Target(t)
               /\ LogicalAfter(rows)[t].lifecycle \in Open
    <3>1. EnsuredLifecycle(t) \in Open
      BY <2>2 DEF EnsuredLifecycle, TypeOK, TraceRows, Lifecycles, Open
    <3> QED BY <2>2, <3>1 DEF LogicalAfter, RowAfter
  <2>3. \A t \in Traces \ Mentions(rows) : LogicalAfter(rows)[t] = logical[t]
    BY DEF LogicalAfter
  <2>4. \A t \in Traces : Target(t)' = Target(t)
    BY <2>1 DEF Target
  <2> QED BY <2>1, <2>2, <2>3, <2>4 DEF StagedInv
<1>2. CASE Sweep
  BY <1>2 DEF Sweep, SweepTraceRow, Idle, StagedInv
<1>3. CASE CommitControl \/ Interrupt
  BY <1>3 DEF CommitControl, Interrupt, StagedInv
<1>4. CASE (\E p \in Payloads : PutBlobs(p)) \/ Ingest \/ FinishSweep \/ UNCHANGED vars
  BY <1>4 DEF PutBlobs, Ingest, CommitJournal, FinishSweep, SweepRevisionRow, SweepDelta,
              StagedInv, Target, controlVars, vars
<1> QED
  BY <1>1, <1>2, <1>3, <1>4 DEF Next, Project

(* The DuckDB half of a page writes only rows of target revisions.         *)
LEMMA CommitAnalyticsLeavesSealed ==
  ASSUME TypeInv, NEW rows \in Pages, CommitAnalytics(rows),
         NEW t \in Traces, NEW r \in Nat, r # Target(t)
  PROVE  RowsOf(t, r)' = RowsOf(t, r)
<1>1. spans' = SpansAfter(rows)
  BY DEF CommitAnalytics
<1>2. ASSUME NEW s \in NewRows(rows) PROVE ~(s.trace = t /\ s.revision = r)
  <2> DEFINE version(d) == StoredVersion(d)
                    + Cardinality({e \in Changes(rows) : SameSpan(d, e) /\ ~Earlier(d, e)})
             last(d) == ~\E e \in Changes(rows) : SameSpan(d, e) /\ Earlier(d, e)
             new(d) == [trace |-> Upsert(d).trace, revision |-> Target(Upsert(d).trace),
                        id |-> Upsert(d).id, version |-> version(d),
                        content |-> Upsert(d).content, current |-> last(d)]
  <2>0. NewRows(rows) = {new(d) : d \in Changes(rows)}
    BY DEF NewRows
  <2>1. PICK d \in Changes(rows) :
             s.trace = Upsert(d).trace /\ s.revision = Target(Upsert(d).trace)
    <3> HIDE DEF version, last
    <3> QED BY <2>0
  <2> QED BY <2>1
<1>3. ASSUME NEW s \in spans, s.trace = t, s.revision = r PROVE ~Superseded(rows, s)
  BY <1>3 DEF Superseded, Stored
<1> DEFINE upd(s) == [s EXCEPT !.current = @ /\ ~Superseded(rows, s)]
<1>4. ASSUME NEW s \in spans
      PROVE  /\ upd(s).trace = s.trace /\ upd(s).revision = s.revision
             /\ ~Superseded(rows, s) => upd(s) = s
  <2>1. s \in SpanRows
    BY DEF TypeInv, TypeOK
  <2>2. s.current \in BOOLEAN
    BY <2>1 DEF SpanRows
  <2> QED BY <2>1, <2>2 DEF SpanRows
<1>5. spans' = {upd(s) : s \in spans} \cup NewRows(rows)
  BY <1>1 DEF SpansAfter
<1> HIDE DEF upd
<1> QED
  BY <1>2, <1>3, <1>4, <1>5 DEF RowsOf

(* Once a revision is finalized, no delivery, retry, reopening or sweep of *)
(* its trace changes a row of it, and it stays finalized.                  *)
THEOREM FinalizedRevisionsAreImmutable == Spec => FinalizedIsImmutable
<1> DEFINE Step == \A t \in Traces : \A r \in 1..logical[t].revision :
                     SealedRevision(t, r) =>
                       RowsOf(t, r)' = RowsOf(t, r) /\ SealedRevision(t, r)'
<1>1. TypeInv /\ StagedInv /\ [Next]_vars => Step
  <2> SUFFICES ASSUME TypeInv, StagedInv, [Next]_vars,
                      NEW t \in Traces, NEW r \in 1..logical[t].revision, SealedRevision(t, r)
               PROVE  RowsOf(t, r)' = RowsOf(t, r) /\ SealedRevision(t, r)'
    OBVIOUS
  <2>0. /\ logical[t] \in TraceRows /\ logical[t].revision \in Nat /\ r \in Nat
        /\ r # Target(t)
    <3>1. logical[t] \in TraceRows /\ logical[t].revision \in Nat
      BY DEF TypeInv, TypeOK, TraceRows
    <3> QED BY <3>1 DEF SealedRevision, Target
  <2>1. ASSUME NEW rows \in Pages, CommitAnalytics(rows)
        PROVE  RowsOf(t, r)' = RowsOf(t, r) /\ SealedRevision(t, r)'
    <3>1. UNCHANGED logical
      BY <2>1 DEF CommitAnalytics, controlVars
    <3>2. SealedRevision(t, r)'
      BY <3>1 DEF SealedRevision
    <3> QED BY <2>0, <2>1, <3>2, CommitAnalyticsLeavesSealed
  <2>2. CASE CommitControl
    <3>1. UNCHANGED spans /\ logical'[t] = staged.logical[t] /\ page # {}
      BY <2>2 DEF CommitControl, analyticsVars
    <3>2. RowsOf(t, r)' = RowsOf(t, r)
      BY <3>1 DEF RowsOf
    <3>3. CASE staged.logical[t] = logical[t]
      BY <3>1, <3>2, <3>3 DEF SealedRevision
    <3>4. CASE /\ staged.logical[t].revision = Target(t)
               /\ staged.logical[t].lifecycle \in Open
      <4>1. r < Target(t)
        BY <2>0 DEF SealedRevision, Target
      <4>2. Target(t) \in Nat
        BY <2>0 DEF Target
      <4> QED BY <2>0, <3>1, <3>2, <3>4, <4>1, <4>2 DEF SealedRevision
    <3> QED BY <3>1, <3>3, <3>4 DEF StagedInv
  <2>3. ASSUME NEW u \in Traces, SweepTraceRow(u)
        PROVE  RowsOf(t, r)' = RowsOf(t, r) /\ SealedRevision(t, r)'
    <3>1. /\ UNCHANGED spans
          /\ logical'[t].revision = logical[t].revision
          /\ u # t => logical'[t] = logical[t]
          /\ u = t => logical[t].lifecycle # "finalized"
      BY <2>0, <2>3 DEF SweepTraceRow, TypeInv, TypeOK, TraceRows, Open, analyticsVars
    <3> QED BY <2>0, <3>1 DEF RowsOf, SealedRevision
  <2>4. CASE (\E p \in Payloads : PutBlobs(p)) \/ Ingest \/ FinishSweep
             \/ Interrupt \/ UNCHANGED vars
    <3>1. UNCHANGED <<spans, logical>>
      BY <2>4 DEF PutBlobs, Ingest, CommitJournal, FinishSweep, SweepRevisionRow, SweepDelta,
                  Interrupt, controlVars, analyticsVars, vars
    <3> QED BY <3>1 DEF RowsOf, SealedRevision
  <2> QED
    BY <2>1, <2>2, <2>3, <2>4 DEF Next, Project, Sweep
<1>2. Init => StagedInv
  BY DEF Init, StagedInv
<1>3. Spec => []StagedInv
  BY <1>2, StagedInvNext, AlwaysTypeInv, PTL DEF Spec
<1>4. Spec => [][Step]_vars
  <2>1. TypeInv /\ StagedInv /\ [Next]_vars => [Step]_vars
    BY <1>1
  <2> HIDE DEF Step
  <2> QED BY <1>3, <2>1, AlwaysTypeInv, PTL DEF Spec
<1> QED
  BY <1>4 DEF FinalizedIsImmutable

-----------------------------------------------------------------------------
(* The journal never lies: every acknowledged batch is in it exactly once,  *)
(* and what it marks as projected was committed, oldest first.             *)
THEOREM JournalStaysTrue == Spec => []JournalIsTrue
  BY TypeCorrect, AcknowledgedDurably, ProjectsInOrder, PTL DEF JournalIsTrue

-----------------------------------------------------------------------------
(* The order of the upserts of a page: journal rows in sequence, and the   *)
(* upserts of a row as they come.                                          *)

LEMMA PositionIs ==
  ASSUME TypeOK, NEW rows \in SUBSET (DOMAIN journal), NEW d \in Positions(rows)
  PROVE  /\ d = <<d[1], d[2]>> /\ d[1] \in rows
         /\ Len(journal) \in Nat /\ DOMAIN journal = 1..Len(journal) /\ d[1] \in 1..Len(journal)
         /\ SpansOf[journal[d[1]].payload] \in Seq(Upserts)
         /\ d[2] \in 1..Len(SpansOf[journal[d[1]].payload])
         /\ Len(SpansOf[journal[d[1]].payload]) \in Nat
         /\ Upsert(d).trace \in Traces /\ Upsert(d).id \in SpanIds
         /\ Upsert(d).content \in Contents
<1>1. PICK i \in rows : \E k \in DOMAIN SpansOf[journal[i].payload] : d = <<i, k>>
  BY DEF Positions
<1>2. PICK k \in DOMAIN SpansOf[journal[i].payload] : d = <<i, k>>
  BY <1>1
<1>3. Len(journal) \in Nat /\ DOMAIN journal = 1..Len(journal) /\ journal[i] \in JournalRows
  BY ElementOfSeq, LenProperties DEF TypeOK
<1>4. SpansOf[journal[i].payload] \in Seq(Upserts)
  BY <1>3, ProjectionAssumption DEF JournalRows
<1>5. k \in 1..Len(SpansOf[journal[i].payload]) /\ Len(SpansOf[journal[i].payload]) \in Nat
  BY <1>2, <1>4, LenProperties
<1>6. Upsert(d) \in Upserts
  BY PositionsTyped
<1> QED
  BY <1>2, <1>3, <1>4, <1>5, <1>6 DEF Upserts

LEMMA EarlierIsTotal ==
  ASSUME TypeOK, NEW rows \in SUBSET (DOMAIN journal),
         NEW d \in Positions(rows), NEW e \in Positions(rows)
  PROVE  /\ ~Earlier(d, d)
         /\ Earlier(d, e) => ~Earlier(e, d) /\ d # e
         /\ d = e \/ Earlier(d, e) \/ Earlier(e, d)
<1>1. d = <<d[1], d[2]>> /\ d[1] \in Nat /\ d[2] \in Nat
  BY PositionIs
<1>2. e = <<e[1], e[2]>> /\ e[1] \in Nat /\ e[2] \in Nat
  BY PositionIs
<1>3. d[1] = e[1] /\ d[2] = e[2] => d = e
  BY <1>1, <1>2
<1> QED
  BY <1>1, <1>2, <1>3 DEF Earlier

LEMMA EarlierIsTransitive ==
  ASSUME TypeOK, NEW rows \in SUBSET (DOMAIN journal), NEW d \in Positions(rows),
         NEW e \in Positions(rows), NEW f \in Positions(rows), Earlier(d, e), Earlier(e, f)
  PROVE  Earlier(d, f)
<1>1. d[1] \in Nat /\ d[2] \in Nat  BY PositionIs
<1>2. e[1] \in Nat /\ e[2] \in Nat  BY PositionIs
<1>3. f[1] \in Nat /\ f[2] \in Nat  BY PositionIs
<1> QED
  BY <1>1, <1>2, <1>3 DEF Earlier

LEMMA GreatestExists ==
  ASSUME NEW n \in Nat, NEW S \in SUBSET (0..n), S # {}
  PROVE  \E x \in S : \A y \in S : y =< x
<1> DEFINE M == {n - y : y \in S}
<1>1. M \subseteq Nat /\ M # {}
  <2>1. \A y \in S : n - y \in Nat  OBVIOUS
  <2> QED BY <2>1
<1>2. PICK m \in M : \A y \in M : m =< y
  BY <1>1, LeastExists
<1>3. PICK x \in S : m = n - x
  OBVIOUS
<1>4. \A y \in S : n - y \in M
  OBVIOUS
<1>5. \A y \in S : n - x =< n - y
  BY <1>2, <1>3, <1>4
<1> QED
  BY <1>5

(* Any set of upserts of a page has a last and a first one.                *)
LEMMA LastPosition ==
  ASSUME TypeOK, NEW rows \in SUBSET (DOMAIN journal),
         NEW S \in SUBSET Positions(rows), S # {}
  PROVE  \E d \in S : \A e \in S : d = e \/ Earlier(e, d)
<1> DEFINE I == {d[1] : d \in S}
<1>1. Len(journal) \in Nat /\ \A d \in S : d[1] \in 0..Len(journal)
  <2>1. Len(journal) \in Nat  BY LenProperties DEF TypeOK
  <2>2. \A d \in S : d[1] \in 1..Len(journal)  BY PositionIs
  <2> QED BY <2>1, <2>2
<1>2. PICK i \in I : \A j \in I : j =< i
  <2>1. I \in SUBSET (0..Len(journal)) /\ I # {}
    BY <1>1
  <2> HIDE DEF I
  <2> QED BY <1>1, <2>1, GreatestExists
<1> DEFINE K == {d[2] : d \in {x \in S : x[1] = i}}
           n == Len(SpansOf[journal[i].payload])
<1>3. n \in Nat /\ K \in SUBSET (0..n) /\ K # {}
  <2>1. PICK d \in S : d[1] = i
    OBVIOUS
  <2>2. n \in Nat
    BY <2>1, PositionIs
  <2>3. \A x \in S : x[1] = i => x[2] \in 0..n
    BY <2>2, PositionIs
  <2> QED BY <2>1, <2>2, <2>3
<1>4. PICK k \in K : \A j \in K : j =< k
  <2> HIDE DEF K, n
  <2> QED BY <1>3, GreatestExists
<1>5. PICK d \in S : d[1] = i /\ d[2] = k
  OBVIOUS
<1>6. ASSUME NEW e \in S PROVE d = e \/ Earlier(e, d)
  <2>1. e[1] =< i /\ (e[1] = i => e[2] =< k)
    BY <1>2, <1>4
  <2>2. /\ e = <<e[1], e[2]>> /\ e[1] \in Nat /\ e[2] \in Nat
    BY PositionIs
  <2>3. /\ d = <<d[1], d[2]>> /\ d[1] \in Nat /\ d[2] \in Nat
    BY PositionIs
  <2>4. e[1] = d[1] /\ e[2] = d[2] => d = e
    BY <2>2, <2>3
  <2> QED BY <1>5, <2>1, <2>2, <2>3, <2>4 DEF Earlier
<1> QED
  BY <1>6

LEMMA FirstPosition ==
  ASSUME TypeOK, NEW rows \in SUBSET (DOMAIN journal),
         NEW S \in SUBSET Positions(rows), S # {}
  PROVE  \E d \in S : \A e \in S : d = e \/ Earlier(d, e)
<1> DEFINE I == {d[1] : d \in S}
<1>1. \A d \in S : d[1] \in Nat /\ d[2] \in Nat
  BY PositionIs
<1>2. PICK i \in I : \A j \in I : i =< j
  <2>1. I \in SUBSET Nat /\ I # {}
    BY <1>1
  <2> HIDE DEF I
  <2> QED BY <2>1, LeastExists
<1> DEFINE K == {d[2] : d \in {x \in S : x[1] = i}}
<1>3. K \in SUBSET Nat /\ K # {}
  <2>1. PICK d \in S : d[1] = i
    OBVIOUS
  <2> QED BY <1>1, <2>1
<1>4. PICK k \in K : \A j \in K : k =< j
  <2> HIDE DEF K
  <2> QED BY <1>3, LeastExists
<1>5. PICK d \in S : d[1] = i /\ d[2] = k
  OBVIOUS
<1>6. ASSUME NEW e \in S PROVE d = e \/ Earlier(d, e)
  <2>1. i =< e[1] /\ (e[1] = i => k =< e[2])
    BY <1>2, <1>4
  <2>2. /\ e = <<e[1], e[2]>> /\ e[1] \in Nat /\ e[2] \in Nat
    BY PositionIs
  <2>3. /\ d = <<d[1], d[2]>> /\ d[1] \in Nat /\ d[2] \in Nat
    BY PositionIs
  <2>4. e[1] = d[1] /\ e[2] = d[2] => d = e
    BY <2>2, <2>3
  <2> QED BY <1>5, <2>1, <2>2, <2>3, <2>4 DEF Earlier
<1> QED
  BY <1>6

-----------------------------------------------------------------------------
(* What a page does to the versions of one span.                           *)

OfSpan(rows, t, i) ==
  {d \in Positions(rows) : Upsert(d).trace = t /\ Upsert(d).id = i}
Changed(rows, t, i) == Changes(rows) \cap OfSpan(rows, t, i)
Versions(table, t, r, i) == {x \in table : x.trace = t /\ x.revision = r /\ x.id = i}

(* The versions are 1..n, and the last one is current.                     *)
VersionsTrue(V) ==
  /\ {x.version : x \in V} = 1..Cardinality(V)
  /\ \A x \in V : x.current <=> x.version = Cardinality(V)

RankAmong(rows, d) == Cardinality({e \in Changes(rows) : SameSpan(d, e) /\ ~Earlier(d, e)})
IsLast(rows, d) == ~\E e \in Changes(rows) : SameSpan(d, e) /\ Earlier(d, e)
NewRow(rows, d) ==
  [trace |-> Upsert(d).trace, revision |-> Target(Upsert(d).trace), id |-> Upsert(d).id,
   version |-> StoredVersion(d) + RankAmong(rows, d), content |-> Upsert(d).content,
   current |-> IsLast(rows, d)]
Kept(rows, s) == [s EXCEPT !.current = @ /\ ~Superseded(rows, s)]

LEMMA NewRowIs ==
  ASSUME NEW rows, NEW d
  PROVE  /\ NewRow(rows, d).trace = Upsert(d).trace /\ NewRow(rows, d).id = Upsert(d).id
         /\ NewRow(rows, d).revision = Target(Upsert(d).trace)
         /\ NewRow(rows, d).version = StoredVersion(d) + RankAmong(rows, d)
         /\ NewRow(rows, d).content = Upsert(d).content
         /\ NewRow(rows, d).current = IsLast(rows, d)
<1> DEFINE v == StoredVersion(d) + RankAmong(rows, d)
           l == IsLast(rows, d)
<1>1. NewRow(rows, d) = [trace |-> Upsert(d).trace, revision |-> Target(Upsert(d).trace),
        id |-> Upsert(d).id, version |-> v, content |-> Upsert(d).content, current |-> l]
  BY DEF NewRow
<1>2. v = StoredVersion(d) + RankAmong(rows, d) /\ l = IsLast(rows, d)
  OBVIOUS
<1> HIDE DEF v, l
<1> QED
  BY <1>1, <1>2

LEMMA NewRowsAre == ASSUME NEW rows PROVE NewRows(rows) = {NewRow(rows, d) : d \in Changes(rows)}
  BY DEF NewRows, NewRow, RankAmong, IsLast

LEMMA KeptIs ==
  ASSUME TypeOK, NEW rows, NEW s \in spans
  PROVE  /\ Kept(rows, s).trace = s.trace /\ Kept(rows, s).revision = s.revision
         /\ Kept(rows, s).id = s.id /\ Kept(rows, s).version = s.version
         /\ Kept(rows, s).content = s.content
         /\ Kept(rows, s).current = (s.current /\ ~Superseded(rows, s))
         /\ ~Superseded(rows, s) => Kept(rows, s) = s
<1>1. s \in SpanRows /\ s.current \in BOOLEAN
  BY DEF TypeOK, SpanRows
<1> QED
  BY <1>1 DEF Kept, SpanRows

LEMMA SupersededIs ==
  ASSUME TypeOK, NEW rows \in SUBSET (DOMAIN journal), NEW s \in spans
  PROVE  Superseded(rows, s) <=> /\ s.current /\ s.revision = Target(s.trace)
                                 /\ Changed(rows, s.trace, s.id) # {}
  BY DEF Superseded, Stored, Changed, OfSpan, Changes

LEMMA VersionsAfter ==
  ASSUME TypeOK, NEW rows \in SUBSET (DOMAIN journal), NEW t \in Traces, NEW r, NEW i
  PROVE  Versions(SpansAfter(rows), t, r, i) =
           {Kept(rows, s) : s \in Versions(spans, t, r, i)} \cup
           {NewRow(rows, d) : d \in {e \in Changed(rows, t, i) : r = Target(t)}}
<1>1. SpansAfter(rows) = {Kept(rows, s) : s \in spans} \cup {NewRow(rows, d) : d \in Changes(rows)}
  BY NewRowsAre DEF SpansAfter, Kept
<1>2. \A s \in spans : /\ Kept(rows, s).trace = s.trace /\ Kept(rows, s).revision = s.revision
                       /\ Kept(rows, s).id = s.id
  BY KeptIs
<1>3. \A d \in Changes(rows) :
        /\ NewRow(rows, d).trace = Upsert(d).trace /\ NewRow(rows, d).id = Upsert(d).id
        /\ NewRow(rows, d).revision = Target(Upsert(d).trace)
        /\ d \in Positions(rows)
  BY NewRowIs DEF Changes
<1> QED
  BY <1>1, <1>2, <1>3 DEF Versions, Changed, OfSpan

LEMMA ChangesFinite ==
  ASSUME TypeOK, NEW rows \in SUBSET (DOMAIN journal), NEW t, NEW i
  PROVE  /\ IsFiniteSet(Changes(rows)) /\ Changes(rows) \subseteq Positions(rows)
         /\ IsFiniteSet(Changed(rows, t, i)) /\ Cardinality(Changed(rows, t, i)) \in Nat
<1>1. IsFiniteSet(Changes(rows)) /\ Changes(rows) \subseteq Positions(rows)
  BY PositionsTyped, FS_Subset DEF Changes
<1>2. Changed(rows, t, i) \in SUBSET Changes(rows)
  BY DEF Changed
<1> QED
  BY <1>1, <1>2, FS_Subset, FS_CardinalityType

(* The changes of a span are numbered in the order of their positions.     *)
LEMMA RankAmongIs ==
  ASSUME TypeOK, NEW rows \in SUBSET (DOMAIN journal), NEW t, NEW i
  PROVE  LET D == Changed(rows, t, i)
         IN  /\ \A d, e \in D : RankAmong(rows, d) = RankAmong(rows, e) => d = e
             /\ {RankAmong(rows, d) : d \in D} = 1..Cardinality(D)
             /\ \A d \in D : IsLast(rows, d) <=> RankAmong(rows, d) = Cardinality(D)
<1> DEFINE D == Changed(rows, t, i)
           upTo(d) == {e \in D : ~Earlier(d, e)}
           n == Cardinality(D)
<1>1. IsFiniteSet(D) /\ n \in Nat /\ \A d \in D : d \in Positions(rows)
  BY ChangesFinite DEF Changed, Changes
<1>2. ASSUME NEW d \in D PROVE RankAmong(rows, d) = Cardinality(upTo(d))
  <2>1. {e \in Changes(rows) : SameSpan(d, e) /\ ~Earlier(d, e)} = upTo(d)
    BY DEF Changed, OfSpan, SameSpan, Changes
  <2> HIDE DEF upTo
  <2> QED BY <2>1 DEF RankAmong
<1>3. ASSUME NEW d \in D PROVE RankAmong(rows, d) \in 1..n
  <2>1. upTo(d) \in SUBSET D
    OBVIOUS
  <2>2. d \in upTo(d)
    BY <1>1, EarlierIsTotal
  <2>3. IsFiniteSet(upTo(d)) /\ Cardinality(upTo(d)) \in Nat /\ Cardinality(upTo(d)) =< n
    <3> HIDE DEF upTo, D
    <3> QED BY <1>1, <2>1, FS_Subset, FS_CardinalityType
  <2>4. Cardinality(upTo(d)) # 0
    <3> HIDE DEF upTo
    <3> QED BY <2>2, <2>3, FS_EmptySet
  <2> HIDE DEF upTo, D
  <2> QED BY <1>1, <1>2, <2>3, <2>4
<1>4. ASSUME NEW d \in D, NEW e \in D, Earlier(d, e) PROVE RankAmong(rows, d) # RankAmong(rows, e)
  <2>1. upTo(d) \in SUBSET upTo(e)
    <3> SUFFICES ASSUME NEW f \in D, ~Earlier(d, f) PROVE ~Earlier(e, f)
      OBVIOUS
    <3> QED BY <1>1, <1>4, EarlierIsTransitive
  <2>2. e \in upTo(e) /\ e \notin upTo(d)
    BY <1>1, <1>4, EarlierIsTotal
  <2>3. IsFiniteSet(upTo(e))
    <3>1. upTo(e) \in SUBSET D
      OBVIOUS
    <3> HIDE DEF upTo, D
    <3> QED BY <1>1, <3>1, FS_Subset
  <2>4. upTo(d) # upTo(e)
    BY <2>2
  <2>5. Cardinality(upTo(e)) # Cardinality(upTo(d))
    <3> HIDE DEF upTo, D
    <3> QED BY <2>1, <2>3, <2>4, FS_Subset
  <2> HIDE DEF upTo, D
  <2> QED BY <1>2, <2>5
<1>5. \A d, e \in D : RankAmong(rows, d) = RankAmong(rows, e) => d = e
  <2> SUFFICES ASSUME NEW d \in D, NEW e \in D, RankAmong(rows, d) = RankAmong(rows, e) PROVE d = e
    OBVIOUS
  <2>1. d = e \/ Earlier(d, e) \/ Earlier(e, d)
    BY <1>1, EarlierIsTotal
  <2> HIDE DEF D
  <2> QED BY <1>4, <2>1
<1>6. {RankAmong(rows, d) : d \in D} = 1..n
  <2> DEFINE f == [d \in D |-> RankAmong(rows, d)]
  <2>1. f \in Injection(D, 1..n)
    <3> HIDE DEF D
    <3> QED BY <1>3, <1>5 DEF Injection, IsInjective
  <2>2. IsFiniteSet(1..n) /\ Cardinality(1..n) = n
    <3> HIDE DEF n
    <3> QED BY <1>1, FS_Interval
  <2>3. f \in Surjection(D, 1..n)
    <3> HIDE DEF D, f
    <3> QED BY <2>1, <2>2, FS_Injection DEF n
  <2>4. \A d \in D : f[d] = RankAmong(rows, d)
    OBVIOUS
  <2>5. \A k \in 1..n : \E d \in D : f[d] = k
    <3> HIDE DEF D, f
    <3> QED BY <2>3 DEF Surjection
  <2> HIDE DEF D, f
  <2> QED BY <1>3, <2>4, <2>5
<1>7. ASSUME NEW d \in D PROVE IsLast(rows, d) <=> RankAmong(rows, d) = n
  <2>1. IsLast(rows, d) <=> upTo(d) = D
    BY DEF IsLast, Changed, OfSpan, SameSpan, Changes
  <2>2. upTo(d) \in SUBSET D
    OBVIOUS
  <2>3. upTo(d) = D <=> Cardinality(upTo(d)) = n
    <3> HIDE DEF upTo, D
    <3> QED BY <1>1, <2>2, FS_Subset DEF n
  <2> HIDE DEF upTo, D, n
  <2> QED BY <1>2, <2>1, <2>3
<1> HIDE DEF upTo
<1> QED
  BY <1>5, <1>6, <1>7

LEMMA VersionsDistinct ==
  ASSUME NEW V, IsFiniteSet(V), VersionsTrue(V)
  PROVE  \A x, y \in V : x.version = y.version => x = y
<1> DEFINE n == Cardinality(V)
           f == [x \in V |-> x.version]
<1>1. n \in Nat
  BY FS_CardinalityType
<1>2. f \in Surjection(V, 1..n)
  BY DEF VersionsTrue, Surjection
<1>3. Cardinality(1..n) = n
  <2> HIDE DEF n
  <2> QED BY <1>1, FS_Interval
<1>4. f \in Injection(V, 1..n)
  <2> HIDE DEF f
  <2> QED BY <1>2, <1>3, FS_Surjection
<1> QED
  BY <1>4 DEF Injection, IsInjective

(* At most one version of a span is current.                               *)
LEMMA OneIsCurrent ==
  ASSUME NEW V, IsFiniteSet(V), VersionsTrue(V), NEW x \in V, NEW y \in V, x.current, y.current
  PROVE  x = y
  BY VersionsDistinct DEF VersionsTrue

LEMMA VersionsFinite ==
  ASSUME NEW table, IsFiniteSet(table), NEW t, NEW r, NEW i
  PROVE  /\ IsFiniteSet(Versions(table, t, r, i))
         /\ Cardinality(Versions(table, t, r, i)) \in Nat
<1>1. Versions(table, t, r, i) \in SUBSET table
  BY DEF Versions
<1> QED
  BY <1>1, FS_Subset, FS_CardinalityType

(* The version an upsert is numbered from is the number of those stored.   *)
LEMMA StoredVersionIs ==
  ASSUME TypeInv, NEW rows \in SUBSET (DOMAIN journal), NEW t \in Traces, NEW i,
         VersionsTrue(Versions(spans, t, Target(t), i)), NEW d \in Changed(rows, t, i)
  PROVE  StoredVersion(d) = Cardinality(Versions(spans, t, Target(t), i))
<1> DEFINE V == Versions(spans, t, Target(t), i)
           n == Cardinality(V)
<1>1. IsFiniteSet(V) /\ n \in Nat
  BY VersionsFinite DEF TypeInv
<1>2. Stored(d) = {s \in V : s.current}
  BY DEF Stored, Versions, Changed, OfSpan
<1>3. CASE V = {}
  BY <1>2, <1>3, FS_EmptySet DEF StoredVersion
<1>4. CASE V # {}
  <2>1. n # 0
    <3> HIDE DEF V
    <3> QED BY <1>1, <1>4, FS_EmptySet DEF n
  <2>2. PICK s \in V : s.version = n
    <3>1. n \in {x.version : x \in V}
      <4>1. VersionsTrue(V)
        OBVIOUS
      <4>2. n \in 1..n
        BY <1>1, <2>1
      <4> HIDE DEF V
      <4> QED BY <4>1, <4>2 DEF VersionsTrue
    <3> QED BY <3>1
  <2>3. s \in Stored(d)
    BY <1>2, <2>2 DEF VersionsTrue
  <2>4. (CHOOSE x \in Stored(d) : TRUE) \in Stored(d)
    BY <2>3
  <2>5. \A x \in Stored(d) : x.version = n
    BY <1>2 DEF VersionsTrue
  <2> QED BY <2>3, <2>4, <2>5 DEF StoredVersion
<1> QED
  BY <1>3, <1>4

LEMMA VersionsOfPage ==
  ASSUME TypeInv, NEW rows \in SUBSET (DOMAIN journal), NEW t \in Traces, NEW i,
         VersionsTrue(Versions(spans, t, Target(t), i))
  PROVE  VersionsTrue(Versions(SpansAfter(rows), t, Target(t), i))
<1> DEFINE V == Versions(spans, t, Target(t), i)
           n == Cardinality(V)
           D == Changed(rows, t, i)
           m == Cardinality(D)
           W == Versions(SpansAfter(rows), t, Target(t), i)
<1>1. /\ IsFiniteSet(V) /\ n \in Nat /\ IsFiniteSet(D) /\ m \in Nat
      /\ V \subseteq spans /\ TypeOK
  <2>1. TypeOK /\ IsFiniteSet(spans)
    BY DEF TypeInv
  <2>2. V \subseteq spans
    BY DEF Versions
  <2> QED BY <2>1, <2>2, VersionsFinite, ChangesFinite
<1>2. W = {Kept(rows, s) : s \in V} \cup {NewRow(rows, d) : d \in D}
  <2>1. {e \in D : Target(t) = Target(t)} = D
    OBVIOUS
  <2> HIDE DEF D
  <2> QED BY <1>1, <2>1, VersionsAfter DEF D
<1>3. \A s \in V : /\ Kept(rows, s).version = s.version /\ s.version \in 1..n
                   /\ Kept(rows, s).current = (s.current /\ D = {})
                   /\ s.current \in BOOLEAN /\ (s.current <=> s.version = n)
  <2> SUFFICES ASSUME NEW s \in V
               PROVE  /\ Kept(rows, s).version = s.version /\ s.version \in 1..n
                      /\ Kept(rows, s).current = (s.current /\ D = {})
                      /\ s.current \in BOOLEAN /\ (s.current <=> s.version = n)
    OBVIOUS
  <2>1. s \in spans /\ s.trace = t /\ s.revision = Target(t) /\ s.id = i
    BY DEF Versions
  <2>2. s.current \in BOOLEAN
    BY <1>1, <2>1 DEF TypeOK, SpanRows
  <2>3. Superseded(rows, s) <=> s.current /\ D # {}
    BY <1>1, <2>1, SupersededIs
  <2>4. Kept(rows, s).current = (s.current /\ ~Superseded(rows, s))
        /\ Kept(rows, s).version = s.version
    BY <1>1, <2>1, KeptIs
  <2>5. s.version \in 1..n /\ (s.current <=> s.version = n)
    <3> HIDE DEF V
    <3> QED BY DEF VersionsTrue, n, V
  <2>6. (s.current /\ ~Superseded(rows, s)) = (s.current /\ D = {})
    <3> HIDE DEF D
    <3> QED BY <2>3
  <2> QED BY <2>2, <2>4, <2>5, <2>6
<1>4. /\ \A d, e \in D : RankAmong(rows, d) = RankAmong(rows, e) => d = e
      /\ {RankAmong(rows, d) : d \in D} = 1..m
      /\ \A d \in D : IsLast(rows, d) <=> RankAmong(rows, d) = m
  BY <1>1, RankAmongIs
<1>5. \A d \in D : /\ RankAmong(rows, d) \in 1..m
                   /\ NewRow(rows, d).version = n + RankAmong(rows, d)
                   /\ NewRow(rows, d).current <=> RankAmong(rows, d) = m
  <2> SUFFICES ASSUME NEW d \in D
               PROVE  /\ RankAmong(rows, d) \in 1..m
                      /\ NewRow(rows, d).version = n + RankAmong(rows, d)
                      /\ NewRow(rows, d).current <=> RankAmong(rows, d) = m
    OBVIOUS
  <2>1. StoredVersion(d) = n
    BY StoredVersionIs
  <2> HIDE DEF D, n
  <2> QED BY <1>4, <2>1, NewRowIs
<1> HIDE DEF V, D, n, m, W
<1>6. \A x \in W : \/ \E s \in V : x = Kept(rows, s) /\ x.version = s.version
                   \/ \E d \in D : x = NewRow(rows, d) /\ x.version = n + RankAmong(rows, d)
  BY <1>2, <1>3, <1>5
<1>7. VersionsTrue(V)
  BY DEF V
<1>8. \A s, x \in V : s.version = x.version => s = x
  BY <1>1, <1>7, VersionsDistinct
<1> DEFINE g == [x \in W |-> x.version]
<1>9. \A x \in W : x.version \in 1..(n + m)
  BY <1>1, <1>3, <1>5, <1>6
<1>10. \A x, y \in W : x.version = y.version => x = y
  <2> SUFFICES ASSUME NEW x \in W, NEW y \in W, x.version = y.version PROVE x = y
    OBVIOUS
  <2>1. CASE x.version =< n
    <3>1. PICK s \in V : x = Kept(rows, s) /\ x.version = s.version
      BY <1>1, <1>5, <1>6, <2>1
    <3>2. PICK z \in V : y = Kept(rows, z) /\ y.version = z.version
      BY <1>1, <1>5, <1>6, <2>1
    <3> QED BY <1>8, <3>1, <3>2
  <2>2. CASE x.version > n
    <3>1. PICK d \in D : x = NewRow(rows, d) /\ x.version = n + RankAmong(rows, d)
      BY <1>1, <1>3, <1>6, <2>2
    <3>2. PICK e \in D : y = NewRow(rows, e) /\ y.version = n + RankAmong(rows, e)
      BY <1>1, <1>3, <1>6, <2>2
    <3>3. RankAmong(rows, d) = RankAmong(rows, e)
      BY <1>1, <1>5, <3>1, <3>2
    <3> QED BY <1>4, <3>1, <3>2, <3>3
  <2> QED BY <1>1, <1>9, <2>1, <2>2
<1>11. \A k \in 1..(n + m) : \E x \in W : x.version = k
  <2> SUFFICES ASSUME NEW k \in 1..(n + m) PROVE \E x \in W : x.version = k
    OBVIOUS
  <2>1. CASE k =< n
    <3>1. k \in {s.version : s \in V}
      BY <1>1, <1>7, <2>1 DEF VersionsTrue, n
    <3>2. PICK s \in V : s.version = k
      BY <3>1
    <3> QED BY <1>2, <1>3, <3>2
  <2>2. CASE k > n
    <3>1. k - n \in {RankAmong(rows, d) : d \in D}
      <4>1. k - n \in 1..m
        BY <1>1, <2>2
      <4> QED BY <1>4, <4>1
    <3>2. PICK d \in D : RankAmong(rows, d) = k - n
      BY <3>1
    <3>3. NewRow(rows, d).version = k
      BY <1>1, <1>5, <3>2
    <3> QED BY <1>2, <3>3
  <2> QED BY <1>1, <2>1, <2>2
<1>12. Cardinality(W) = n + m
  <2>1. g \in Bijection(W, 1..(n + m))
    BY <1>9, <1>10, <1>11 DEF Bijection, Injection, IsInjective, Surjection
  <2>2. IsFiniteSet(1..(n + m)) /\ Cardinality(1..(n + m)) = n + m
    <3>1. n + m \in Nat
      BY <1>1
    <3>2. \A k \in Nat : IsFiniteSet(1..k) /\ Cardinality(1..k) = k
      BY FS_Interval
    <3> QED BY <3>1, <3>2
  <2> HIDE DEF g
  <2>3. IsFiniteSet(W)
    BY <2>1, <2>2, FS_Injection DEF Bijection
  <2> QED BY <2>1, <2>2, <2>3, FS_Bijection DEF ExistsBijection
<1>13. ASSUME NEW x \in W PROVE x.current <=> x.version = n + m
  <2>1. CASE \E s \in V : x = Kept(rows, s) /\ x.version = s.version
    <3>1. PICK s \in V : x = Kept(rows, s) /\ x.version = s.version
      BY <2>1
    <3>2. D = {} <=> m = 0
      BY <1>1, FS_EmptySet DEF m
    <3>3. x.current = (s.current /\ D = {}) /\ s.version \in 1..n /\ (s.current <=> s.version = n)
      BY <1>3, <3>1
    <3>4. (s.version = n /\ m = 0) <=> (s.version = n + m)
      BY <1>1, <3>3
    <3> QED BY <3>1, <3>2, <3>3, <3>4, Zenon
  <2>2. CASE \E d \in D : x = NewRow(rows, d) /\ x.version = n + RankAmong(rows, d)
    <3>1. PICK d \in D : x = NewRow(rows, d) /\ x.version = n + RankAmong(rows, d)
      BY <2>2
    <3>2. RankAmong(rows, d) = m <=> n + RankAmong(rows, d) = n + m
      BY <1>1, <1>5
    <3> QED BY <1>5, <3>1, <3>2
  <2> QED BY <1>6, <2>1, <2>2
<1>14. {x.version : x \in W} = 1..(n + m)
  BY <1>9, <1>11
<1> QED
  BY <1>12, <1>13, <1>14 DEF VersionsTrue, W

LEMMA VersionsElsewhere ==
  ASSUME TypeOK, NEW rows \in SUBSET (DOMAIN journal), NEW t \in Traces, NEW r, NEW i,
         r # Target(t) \/ Changed(rows, t, i) = {}
  PROVE  Versions(SpansAfter(rows), t, r, i) = Versions(spans, t, r, i)
<1>1. {e \in Changed(rows, t, i) : r = Target(t)} = {}
  OBVIOUS
<1>2. \A s \in Versions(spans, t, r, i) : s \in spans /\ ~Superseded(rows, s)
  BY SupersededIs DEF Versions
<1>3. \A s \in Versions(spans, t, r, i) : Kept(rows, s) = s
  BY <1>2, KeptIs
<1> QED
  BY <1>1, <1>3, VersionsAfter

LEMMA NoVersions ==
  ASSUME NEW V, V = {}
  PROVE  VersionsTrue(V)
  BY FS_EmptySet DEF VersionsTrue

(* VersionsWellFormed, span by span.                                       *)
LEMMA VersionsOfSpans ==
  VersionsWellFormed <=>
    \A s \in spans : VersionsTrue(Versions(spans, s.trace, s.revision, s.id))
  BY DEF VersionsWellFormed, VersionsTrue, Versions

LEMMA AllVersionsTrue ==
  ASSUME VersionsWellFormed, NEW t, NEW r, NEW i
  PROVE  VersionsTrue(Versions(spans, t, r, i))
<1>1. CASE Versions(spans, t, r, i) = {}
  BY <1>1, NoVersions
<1>2. CASE Versions(spans, t, r, i) # {}
  <2>1. PICK s \in spans : s.trace = t /\ s.revision = r /\ s.id = i
    BY <1>2 DEF Versions
  <2>2. VersionsTrue(Versions(spans, s.trace, s.revision, s.id))
    BY VersionsOfSpans
  <2> QED BY <2>1, <2>2
<1> QED
  BY <1>1, <1>2

LEMMA PageVersions ==
  ASSUME TypeInv, VersionsWellFormed, NEW rows \in SUBSET (DOMAIN journal), NEW s \in SpansAfter(rows)
  PROVE  VersionsTrue(Versions(SpansAfter(rows), s.trace, s.revision, s.id))
<1>1. TypeOK /\ IsFiniteSet(spans)
  BY DEF TypeInv
<1>2. s.trace \in Traces
  BY <1>1, SpansAfterTyped DEF SpanRows
<1>3. CASE s.revision # Target(s.trace)
  BY <1>1, <1>2, <1>3, VersionsElsewhere, AllVersionsTrue
<1>4. CASE s.revision = Target(s.trace)
  BY <1>2, <1>4, VersionsOfPage, AllVersionsTrue
<1> QED
  BY <1>3, <1>4

LEMMA VersionsNext == TypeInv /\ VersionsWellFormed /\ [Next]_vars => VersionsWellFormed'
<1> SUFFICES ASSUME TypeInv, VersionsWellFormed, [Next]_vars PROVE VersionsWellFormed'
  OBVIOUS
<1>1. ASSUME NEW rows \in Pages, CommitAnalytics(rows) PROVE VersionsWellFormed'
  <2>1. rows \in SUBSET (DOMAIN journal)
    BY PageIsPrefix DEF Unprojected, TypeInv
  <2>2. spans' = SpansAfter(rows)
    BY <1>1 DEF CommitAnalytics
  <2>3. \A s \in SpansAfter(rows) :
          VersionsTrue(Versions(SpansAfter(rows), s.trace, s.revision, s.id))
    BY <2>1, PageVersions
  <2> QED BY <2>2, <2>3 DEF VersionsWellFormed, VersionsTrue, Versions
<1>2. ASSUME UNCHANGED spans PROVE VersionsWellFormed'
  BY <1>2 DEF VersionsWellFormed
<1>3. CASE (\E p \in Payloads : PutBlobs(p)) \/ Ingest \/ CommitControl
  BY <1>2, <1>3 DEF PutBlobs, Ingest, CommitJournal, CommitControl, analyticsVars
<1>4. CASE Sweep \/ FinishSweep \/ Interrupt \/ UNCHANGED vars
  BY <1>2, <1>4 DEF Sweep, SweepTraceRow, FinishSweep, SweepRevisionRow, SweepDelta,
                    Interrupt, analyticsVars, vars
<1> QED
  BY <1>1, <1>3, <1>4 DEF Next, Project

LEMMA AlwaysVersions == Spec => [](TypeInv /\ VersionsWellFormed)
<1>1. Init => VersionsWellFormed
  BY DEF Init, VersionsWellFormed
<1> QED
  BY <1>1, VersionsNext, AlwaysTypeInv, PTL DEF Spec

-----------------------------------------------------------------------------
(* What an upsert replaces, and what is shown after a page.                *)

(* Earlier upserts of the span, and those of them that changed it.         *)
BeforeIt(rows, d) == {e \in Positions(rows) : SameSpan(e, d) /\ Earlier(e, d)}
Prior(rows, d) == BeforeIt(rows, d) \cap Changes(rows)

LEMMA StoredIsOne ==
  ASSUME TypeInv, VersionsWellFormed, NEW d, NEW s \in Stored(d), NEW x \in Stored(d)
  PROVE  s = x
<1> DEFINE V == Versions(spans, Upsert(d).trace, Target(Upsert(d).trace), Upsert(d).id)
<1>1. s \in V /\ x \in V /\ s.current /\ x.current
  BY DEF Stored, Versions
<1>2. IsFiniteSet(V) /\ VersionsTrue(V)
  BY VersionsFinite, AllVersionsTrue DEF TypeInv
<1> HIDE DEF V
<1> QED
  BY <1>1, <1>2, OneIsCurrent

(* An upsert sees its predecessor in the page, if there is one.            *)
LEMMA SeenIs ==
  ASSUME TypeOK, NEW rows \in SUBSET (DOMAIN journal), NEW d \in Positions(rows)
  PROVE  \/ BeforeIt(rows, d) = {} /\ Seen(rows, d) = {s.content : s \in Stored(d)}
         \/ \E e \in BeforeIt(rows, d) :
              /\ \A x \in BeforeIt(rows, d) : x = e \/ Earlier(x, e)
              /\ Seen(rows, d) = {Upsert(e).content}
<1> DEFINE B == BeforeIt(rows, d)
           top == {x \in B : \A y \in B : ~Earlier(x, y)}
<1>1. Seen(rows, d) = IF B = {} THEN {s.content : s \in Stored(d)}
                      ELSE {Upsert(e).content : e \in top}
  BY DEF Seen, BeforeIt
<1>2. CASE B = {}
  BY <1>1, <1>2
<1>3. CASE B # {}
  <2>1. B \in SUBSET Positions(rows)
    BY DEF BeforeIt
  <2>2. PICK e \in B : \A x \in B : e = x \/ Earlier(x, e)
    <3> HIDE DEF B
    <3> QED BY <1>3, <2>1, LastPosition
  <2>3. \A x, y \in B : (Earlier(x, y) => ~Earlier(y, x)) /\ ~Earlier(x, x)
    <3> HIDE DEF B
    <3> QED BY <2>1, EarlierIsTotal
  <2>4. top = {e}
    <3>1. e \in top
      <4> HIDE DEF B
      <4> QED BY <2>2, <2>3
    <3>2. \A x \in top : x = e
      <4> HIDE DEF B
      <4> QED BY <2>2
    <3> QED BY <3>1, <3>2
  <2>5. Seen(rows, d) = {Upsert(e).content}
    <3> HIDE DEF top, B
    <3> QED BY <1>1, <1>3, <2>4
  <2> QED BY <2>2, <2>5
<1> QED
  BY <1>2, <1>3

(* Unchanged upserts pass on what they see: an upsert sees the last change *)
(* before it, or what was stored.  The first one that did not would have a *)
(* predecessor that does.                                                  *)
SeesPrior(rows, d) ==
  \/ Prior(rows, d) = {} /\ Seen(rows, d) = {s.content : s \in Stored(d)}
  \/ \E c \in Prior(rows, d) :
       /\ \A x \in Prior(rows, d) : x = c \/ Earlier(x, c)
       /\ Seen(rows, d) = {Upsert(c).content}

LEMMA SeenIsPrior ==
  ASSUME TypeInv, VersionsWellFormed, NEW rows \in SUBSET (DOMAIN journal),
         NEW d \in Positions(rows)
  PROVE  SeesPrior(rows, d)
<1> DEFINE Bad == {x \in Positions(rows) : ~SeesPrior(rows, x)}
<1>0. TypeOK
  BY DEF TypeInv
<1> SUFFICES ASSUME Bad # {} PROVE FALSE
  OBVIOUS
<1>1. PICK q \in Bad : \A x \in Bad : q = x \/ Earlier(q, x)
  <2>1. Bad \in SUBSET Positions(rows)
    OBVIOUS
  <2> HIDE DEF Bad
  <2> QED BY <1>0, <2>1, FirstPosition
<1>2. q \in Positions(rows) /\ ~SeesPrior(rows, q)
  OBVIOUS
<1>3. BeforeIt(rows, q) # {}
  <2> SUFFICES ASSUME BeforeIt(rows, q) = {} PROVE FALSE
    OBVIOUS
  <2>1. Seen(rows, q) = {s.content : s \in Stored(q)}
    BY <1>0, <1>2, SeenIs
  <2> QED BY <1>2, <2>1 DEF SeesPrior, Prior
<1>4. PICK e \in BeforeIt(rows, q) :
        /\ \A x \in BeforeIt(rows, q) : x = e \/ Earlier(x, e)
        /\ Seen(rows, q) = {Upsert(e).content}
  BY <1>0, <1>2, <1>3, SeenIs
<1>5. e \in Positions(rows) /\ SameSpan(e, q) /\ Earlier(e, q)
  BY DEF BeforeIt
<1>6. CASE e \in Changes(rows)
  BY <1>2, <1>4, <1>6 DEF SeesPrior, Prior
<1>7. CASE e \notin Changes(rows)
  <2>1. Upsert(e).content \in Seen(rows, e)
    BY <1>5, <1>7 DEF Changes
  <2>2. SeesPrior(rows, e)
    <3>1. e \in Bad => q = e \/ Earlier(q, e)
      BY <1>1
    <3>2. q # e /\ ~Earlier(q, e)
      BY <1>0, <1>2, <1>5, EarlierIsTotal
    <3> QED BY <1>5, <3>1, <3>2
  <2>3. \A x : SameSpan(x, e) <=> SameSpan(x, q)
    BY <1>5 DEF SameSpan
  <2>4. BeforeIt(rows, e) \subseteq BeforeIt(rows, q)
    <3> SUFFICES ASSUME NEW x \in Positions(rows), SameSpan(x, e), Earlier(x, e)
                 PROVE  SameSpan(x, q) /\ Earlier(x, q)
      BY DEF BeforeIt
    <3> QED BY <1>0, <1>2, <1>5, <2>3, EarlierIsTransitive
  <2>5. \A x \in BeforeIt(rows, q) : x = e \/ x \in BeforeIt(rows, e)
    BY <1>4, <2>3 DEF BeforeIt
  <2>6. Prior(rows, e) = Prior(rows, q)
    BY <1>7, <2>4, <2>5 DEF Prior
  <2>7. Stored(e) = Stored(q)
    BY <1>5 DEF Stored, SameSpan
  <2>8. CASE Prior(rows, e) = {} /\ Seen(rows, e) = {s.content : s \in Stored(e)}
    <3>1. PICK s \in Stored(q) : Upsert(e).content = s.content
      BY <2>1, <2>7, <2>8
    <3>2. \A x \in Stored(q) : x = s
      BY StoredIsOne
    <3>3. {x.content : x \in Stored(q)} = {Upsert(e).content}
      BY <3>1, <3>2
    <3> QED BY <1>2, <1>4, <2>6, <2>8, <3>3 DEF SeesPrior
  <2>9. CASE \E c \in Prior(rows, e) :
               /\ \A x \in Prior(rows, e) : x = c \/ Earlier(x, c)
               /\ Seen(rows, e) = {Upsert(c).content}
    <3>1. PICK c \in Prior(rows, q) :
            /\ \A x \in Prior(rows, q) : x = c \/ Earlier(x, c)
            /\ Seen(rows, e) = {Upsert(c).content}
      BY <2>6, <2>9
    <3>2. Seen(rows, q) = {Upsert(c).content}
      BY <1>4, <2>1, <3>1
    <3> QED BY <1>2, <3>1, <3>2 DEF SeesPrior
  <2> QED BY <2>2, <2>8, <2>9 DEF SeesPrior
<1> QED
  BY <1>6, <1>7

(* After a page the last upsert of each of its spans is what is current.   *)
LEMMA LastIsCurrent ==
  ASSUME TypeInv, VersionsWellFormed, NEW rows \in SUBSET (DOMAIN journal),
         NEW d \in Positions(rows),
         \A e \in Positions(rows) : SameSpan(d, e) => ~Earlier(d, e)
  PROVE  \E s \in SpansAfter(rows) :
           /\ s.trace = Upsert(d).trace /\ s.id = Upsert(d).id
           /\ s.revision = Target(Upsert(d).trace)
           /\ s.current /\ s.content = Upsert(d).content
<1>0. TypeOK
  BY DEF TypeInv
<1>1. SpansAfter(rows) = {Kept(rows, s) : s \in spans} \cup {NewRow(rows, e) : e \in Changes(rows)}
  BY NewRowsAre DEF SpansAfter, Kept
<1>2. ASSUME NEW c \in Changes(rows), SameSpan(c, d), Upsert(c).content = Upsert(d).content,
             IsLast(rows, c)
      PROVE  \E s \in SpansAfter(rows) :
               /\ s.trace = Upsert(d).trace /\ s.id = Upsert(d).id
               /\ s.revision = Target(Upsert(d).trace)
               /\ s.current /\ s.content = Upsert(d).content
  <2>1. NewRow(rows, c) \in SpansAfter(rows)
    BY <1>1
  <2> QED BY <1>2, <2>1, NewRowIs DEF SameSpan
<1>3. CASE d \in Changes(rows)
  BY <1>2, <1>3 DEF IsLast, SameSpan, Changes
<1>4. CASE d \notin Changes(rows)
  <2>1. Upsert(d).content \in Seen(rows, d)
    BY <1>4 DEF Changes
  <2>2. \A e \in Changes(rows) : SameSpan(e, d) => e \in Prior(rows, d)
    <3> SUFFICES ASSUME NEW e \in Changes(rows), SameSpan(e, d) PROVE Earlier(e, d)
      BY DEF Prior, BeforeIt, Changes
    <3>1. e \in Positions(rows) /\ e # d /\ ~Earlier(d, e)
      BY <1>4 DEF Changes, SameSpan
    <3> QED BY <1>0, <3>1, EarlierIsTotal
  <2>3. CASE Prior(rows, d) = {} /\ Seen(rows, d) = {s.content : s \in Stored(d)}
    <3>1. PICK s \in Stored(d) : s.content = Upsert(d).content
      BY <2>1, <2>3
    <3>2. s \in spans /\ s.trace = Upsert(d).trace /\ s.id = Upsert(d).id /\ s.current
          /\ s.revision = Target(Upsert(d).trace)
      BY DEF Stored
    <3>3. Changed(rows, s.trace, s.id) = {}
      BY <2>2, <2>3, <3>2 DEF Changed, OfSpan, SameSpan
    <3>4. Kept(rows, s) = s
      BY <1>0, <3>2, <3>3, SupersededIs, KeptIs
    <3>5. s \in SpansAfter(rows)
      BY <1>1, <3>2, <3>4
    <3> QED BY <3>1, <3>2, <3>5
  <2>4. CASE \E c \in Prior(rows, d) :
               /\ \A x \in Prior(rows, d) : x = c \/ Earlier(x, c)
               /\ Seen(rows, d) = {Upsert(c).content}
    <3>1. PICK c \in Prior(rows, d) :
            /\ \A x \in Prior(rows, d) : x = c \/ Earlier(x, c)
            /\ Seen(rows, d) = {Upsert(c).content}
      BY <2>4
    <3>2. c \in Changes(rows) /\ c \in Positions(rows) /\ SameSpan(c, d)
      BY DEF Prior, BeforeIt
    <3>3. IsLast(rows, c)
      <4> SUFFICES ASSUME NEW e \in Changes(rows), SameSpan(c, e), Earlier(c, e) PROVE FALSE
        BY DEF IsLast
      <4>1. e \in Prior(rows, d) /\ e \in Positions(rows)
        BY <2>2, <3>2 DEF SameSpan, Changes
      <4>2. e = c \/ Earlier(e, c)
        BY <3>1, <4>1
      <4> QED BY <1>0, <3>2, <4>1, <4>2, EarlierIsTotal
    <3>4. Upsert(c).content = Upsert(d).content
      BY <2>1, <3>1
    <3> QED BY <1>2, <3>2, <3>3, <3>4
  <2> QED BY <2>3, <2>4, SeenIsPrior DEF SeesPrior
<1> QED
  BY <1>3, <1>4

-----------------------------------------------------------------------------
(* The store implements FinalizedRevisions.  What a trace shows of a       *)
(* revision are its current rows; the draft is the revision that takes the *)
(* next upsert, and no row is of a later one.                              *)

RowsBound ==
  /\ \A t \in Traces : Target(t) >= 1
  /\ \A s \in spans : s.revision =< Target(s.trace)

Shown(table, t, r) ==
  {[id |-> s.id, content |-> s.content] :
     s \in {x \in {y \in table : y.trace = t /\ y.revision = r} : x.current}}

SealedRevisions == [t \in Traces |-> [r \in 1..SealedCount(t) |-> ContentsOf(t, r)]]
Drafts == [t \in Traces |-> ContentsOf(t, Target(t))]

LEMMA ContentsShown == ASSUME NEW t, NEW r PROVE ContentsOf(t, r) = Shown(spans, t, r)
  BY DEF ContentsOf, RowsOf, Shown

LEMMA ShownIsSnapshot ==
  ASSUME NEW table, IsFiniteSet(table), table \subseteq SpanRows, NEW t, NEW r,
         \A s \in table : VersionsTrue(Versions(table, s.trace, s.revision, s.id))
  PROVE  Shown(table, t, r) \in Revisions!Snapshots
<1> DEFINE mine == {x \in {y \in table : y.trace = t /\ y.revision = r} : x.current}
<1>1. \A s \in mine : [id |-> s.id, content |-> s.content] \in Revisions!Spans
  BY DEF SpanRows, Revisions!Spans
<1>2. ASSUME NEW s \in mine, NEW x \in mine, s.id = x.id PROVE s = x
  <2>1. /\ s \in Versions(table, s.trace, s.revision, s.id)
        /\ x \in Versions(table, s.trace, s.revision, s.id)
    BY <1>2 DEF Versions
  <2>2. IsFiniteSet(Versions(table, s.trace, s.revision, s.id))
    BY VersionsFinite
  <2> QED BY <2>1, <2>2, OneIsCurrent
<1>3. Shown(table, t, r) = {[id |-> s.id, content |-> s.content] : s \in mine}
  BY DEF Shown
<1> HIDE DEF mine
<1>4. Shown(table, t, r) \in SUBSET Revisions!Spans
  BY <1>1, <1>3
<1>5. ASSUME NEW x \in Shown(table, t, r), NEW y \in Shown(table, t, r), x.id = y.id PROVE x = y
  <2>1. PICK s \in mine : x = [id |-> s.id, content |-> s.content]
    BY <1>3
  <2>2. PICK z \in mine : y = [id |-> z.id, content |-> z.content]
    BY <1>3
  <2>3. s.id = z.id
    BY <1>5, <2>1, <2>2
  <2> QED BY <1>2, <2>1, <2>2, <2>3
<1> QED
  BY <1>4, <1>5 DEF Revisions!Snapshots

(* A page loses no span of a draft: one that is superseded has a newer     *)
(* current row.                                                            *)
LEMMA DraftsGrow ==
  ASSUME TypeInv, VersionsWellFormed, NEW rows \in SUBSET (DOMAIN journal), NEW t \in Traces
  PROVE  Revisions!Ids(Shown(spans, t, Target(t)))
           \subseteq Revisions!Ids(Shown(SpansAfter(rows), t, Target(t)))
<1>0. TypeOK
  BY DEF TypeInv
<1> SUFFICES ASSUME NEW s \in spans, s.trace = t, s.revision = Target(t), s.current
             PROVE  \E x \in SpansAfter(rows) : /\ x.trace = t /\ x.revision = Target(t)
                                                /\ x.current /\ x.id = s.id
  <2>1. ASSUME NEW table, NEW k
        PROVE  k \in Revisions!Ids(Shown(table, t, Target(t))) <=>
                 \E x \in table : /\ x.trace = t /\ x.revision = Target(t)
                                 /\ x.current /\ x.id = k
    <3> DEFINE mine == {x \in {y \in table : y.trace = t /\ y.revision = Target(t)} : x.current}
               row(x) == [id |-> x.id, content |-> x.content]
    <3>1. Shown(table, t, Target(t)) = {row(x) : x \in mine} /\ \A x : row(x).id = x.id
      BY DEF Shown
    <3> HIDE DEF mine, row
    <3>2. k \in Revisions!Ids(Shown(table, t, Target(t))) <=> \E x \in mine : x.id = k
      BY <3>1 DEF Revisions!Ids
    <3> QED BY <3>2 DEF mine
  <2> QED BY <2>1
<1>1. CASE OfSpan(rows, t, s.id) = {}
  <2>1. Changed(rows, t, s.id) = {}
    BY <1>1 DEF Changed
  <2>2. s \in Versions(SpansAfter(rows), t, Target(t), s.id)
    BY <1>0, <2>1, VersionsElsewhere DEF Versions
  <2> QED BY <2>2 DEF Versions
<1>2. CASE OfSpan(rows, t, s.id) # {}
  <2>1. OfSpan(rows, t, s.id) \in SUBSET Positions(rows)
    BY DEF OfSpan
  <2>2. PICK d \in OfSpan(rows, t, s.id) :
          \A e \in OfSpan(rows, t, s.id) : d = e \/ Earlier(e, d)
    BY <1>0, <1>2, <2>1, LastPosition
  <2>3. d \in Positions(rows) /\ Upsert(d).trace = t /\ Upsert(d).id = s.id
    BY DEF OfSpan
  <2>4. ASSUME NEW e \in Positions(rows), SameSpan(d, e) PROVE ~Earlier(d, e)
    <3>1. e \in OfSpan(rows, t, s.id)
      BY <2>3, <2>4 DEF OfSpan, SameSpan
    <3> QED BY <1>0, <2>2, <2>3, <3>1, EarlierIsTotal
  <2> QED BY <2>3, <2>4, LastIsCurrent
<1> QED
  BY <1>1, <1>2

LEMMA RowsBoundNext ==
  TypeInv /\ StagedInv /\ RowsBound /\ [Next]_vars => RowsBound'
<1> SUFFICES ASSUME TypeInv, StagedInv, RowsBound, [Next]_vars PROVE RowsBound'
  OBVIOUS
<1>0. TypeOK /\ \A s \in spans : s.trace \in Traces /\ s.revision \in Nat
  BY DEF TypeInv, TypeOK, SpanRows
<1>1. ASSUME NEW rows \in Pages, CommitAnalytics(rows) PROVE RowsBound'
  <2>1. /\ rows \in SUBSET (DOMAIN journal) /\ logical' = logical
        /\ spans' = {Kept(rows, s) : s \in spans} \cup {NewRow(rows, d) : d \in Changes(rows)}
    BY <1>0, <1>1, PageIsPrefix, NewRowsAre
       DEF Unprojected, CommitAnalytics, controlVars, SpansAfter, Kept
  <2>2. \A t : Target(t)' = Target(t)
    BY <2>1 DEF Target
  <2>3. \A s \in spans : Kept(rows, s).trace = s.trace /\ Kept(rows, s).revision = s.revision
    BY <1>0, KeptIs
  <2>4. \A d \in Changes(rows) : /\ NewRow(rows, d).trace = Upsert(d).trace
                                 /\ NewRow(rows, d).revision = Target(Upsert(d).trace)
                                 /\ Target(Upsert(d).trace) \in Nat
    <3>1. \A d \in Changes(rows) : Upsert(d).trace \in Traces
      BY <1>0, <2>1, PositionIs DEF Changes
    <3> QED BY <1>0, <3>1, NewRowIs, TargetTyped
  <2> QED BY <2>1, <2>2, <2>3, <2>4 DEF RowsBound
<1>2. ASSUME spans' = spans, \A t \in Traces : Target(t)' \in Nat /\ Target(t) =< Target(t)'
      PROVE  RowsBound'
  BY <1>0, <1>2, TargetTyped DEF RowsBound
<1>3. CASE CommitControl
  <2>1. /\ spans' = spans /\ logical' = staged.logical /\ page # {}
    BY <1>3 DEF CommitControl, analyticsVars
  <2>2. ASSUME NEW t \in Traces PROVE Target(t)' = Target(t)
    <3>1. CASE staged.logical[t] = logical[t]
      BY <2>1, <3>1 DEF Target
    <3>2. CASE staged.logical[t].revision = Target(t) /\ staged.logical[t].lifecycle \in Open
      BY <2>1, <3>2 DEF Target, Open
    <3> QED BY <2>1, <3>1, <3>2 DEF StagedInv
  <2> QED BY <1>0, <1>2, <2>1, <2>2, TargetTyped
<1>4. ASSUME NEW t \in Traces, SweepTraceRow(t) PROVE RowsBound'
  <2>1. /\ spans' = spans
        /\ \A u \in Traces : /\ logical'[u].revision = logical[u].revision
                             /\ u # t => logical'[u] = logical[u]
                             /\ logical[u].revision \in Nat
        /\ logical[t].lifecycle \in Open
    BY <1>0, <1>4 DEF SweepTraceRow, analyticsVars, TypeOK, TraceRows
  <2>2. \A u \in Traces : Target(u)' \in Nat /\ Target(u) =< Target(u)'
    BY <2>1 DEF Target, Open
  <2> QED BY <1>2, <2>1, <2>2
<1>5. CASE (\E p \in Payloads : PutBlobs(p)) \/ Ingest \/ FinishSweep \/ Interrupt \/ UNCHANGED vars
  <2>1. spans' = spans /\ logical' = logical
    BY <1>5 DEF PutBlobs, Ingest, CommitJournal, FinishSweep, SweepRevisionRow, SweepDelta,
                Interrupt, controlVars, analyticsVars, vars
  <2> QED BY <2>1 DEF RowsBound, Target
<1> QED
  BY <1>1, <1>3, <1>4, <1>5 DEF Next, Project, Sweep

LEMMA PageRefines ==
  ASSUME TypeInv, VersionsWellFormed, NEW rows \in Pages, CommitAnalytics(rows)
  PROVE  /\ SealedRevisions' = SealedRevisions
         /\ Drafts' \in [Traces -> Revisions!Snapshots]
         /\ \A t \in Traces : Revisions!Ids(Drafts[t]) \subseteq Revisions!Ids(Drafts'[t])
<1>1. TypeOK /\ rows \in SUBSET (DOMAIN journal)
  BY PageIsPrefix DEF Unprojected, TypeInv
<1>2. spans' = SpansAfter(rows) /\ logical' = logical
  BY DEF CommitAnalytics, controlVars
<1>3. \A t : Target(t)' = Target(t) /\ SealedCount(t)' = SealedCount(t)
  BY <1>2 DEF Target, SealedCount
<1>4. \A t, r : ContentsOf(t, r)' = Shown(SpansAfter(rows), t, r)
  BY <1>2 DEF ContentsOf, RowsOf, Shown
<1>5. SpansAfter(rows) \subseteq SpanRows /\ IsFiniteSet(SpansAfter(rows))
  BY <1>1, SpansAfterTyped DEF TypeInv
<1>6. \A t, r : Shown(SpansAfter(rows), t, r) \in Revisions!Snapshots
  BY <1>1, <1>5, PageVersions, ShownIsSnapshot
<1>7. \A t \in Traces : Target(t) \in Nat /\ SealedCount(t) = Target(t) - 1
  BY <1>1, TargetTyped DEF SealedCount
<1>8. ASSUME NEW t \in Traces, NEW r \in 1..SealedCount(t)
      PROVE  ContentsOf(t, r)' = ContentsOf(t, r)
  <2>1. r \in Nat /\ r # Target(t)
    BY <1>7
  <2>2. RowsOf(t, r)' = RowsOf(t, r)
    BY <2>1, CommitAnalyticsLeavesSealed
  <2> QED BY <2>2 DEF ContentsOf
<1>9. SealedRevisions' = SealedRevisions
  BY <1>3, <1>8 DEF SealedRevisions
<1>10. Drafts' = [t \in Traces |-> Shown(SpansAfter(rows), t, Target(t))]
  BY <1>3, <1>4 DEF Drafts
<1>11. Drafts = [t \in Traces |-> Shown(spans, t, Target(t))]
  BY ContentsShown DEF Drafts
<1> QED
  BY <1>1, <1>6, <1>9, <1>10, <1>11, DraftsGrow

(* Finalizing a trace seals its draft; nothing else advances a trace.      *)
LEMMA SweepRefines ==
  ASSUME TypeInv, RowsBound, NEW t \in Traces, SweepTraceRow(t)
  PROVE  \/ UNCHANGED <<SealedRevisions, Drafts>>
         \/ /\ SealedRevisions' = [SealedRevisions EXCEPT ![t] = Append(@, Drafts[t])]
            /\ Drafts' = [Drafts EXCEPT ![t] = {}]
<1>1. TypeOK /\ spans' = spans /\ \A u \in Traces : logical[u].revision \in Nat
  BY DEF SweepTraceRow, analyticsVars, TypeInv, TypeOK, TraceRows
<1>2. /\ \A u \in Traces \ {t} : logical'[u] = logical[u]
      /\ logical'[t].revision = logical[t].revision
      /\ logical[t].lifecycle \in Open /\ logical'[t].lifecycle = Advanced(t)
  BY <1>1 DEF SweepTraceRow, TypeOK, TraceRows
<1>3. \A u, r : ContentsOf(u, r)' = ContentsOf(u, r)
  BY <1>1 DEF ContentsOf, RowsOf
<1>4. \A u \in Traces \ {t} : Target(u)' = Target(u) /\ SealedCount(u)' = SealedCount(u)
  BY <1>2 DEF Target, SealedCount
<1>5. Target(t) = logical[t].revision /\ SealedCount(t) = logical[t].revision - 1
  BY <1>2 DEF Target, SealedCount, Open
<1>6. CASE Advanced(t) = "quiescent"
  <2>1. Target(t)' = Target(t) /\ SealedCount(t)' = SealedCount(t)
    BY <1>2, <1>5, <1>6 DEF Target, SealedCount
  <2>2. \A u \in Traces : Target(u)' = Target(u) /\ SealedCount(u)' = SealedCount(u)
    BY <1>4, <2>1
  <2> QED BY <1>3, <2>2 DEF SealedRevisions, Drafts
<1>7. CASE Advanced(t) = "finalized"
  <2> DEFINE n == SealedCount(t)
             new == [r \in 1..(n + 1) |-> ContentsOf(t, r)]
             old == [r \in 1..n |-> ContentsOf(t, r)]
             All == {ContentsOf(t, r) : r \in 1..(n + 1)}
             draft == ContentsOf(t, Target(t))
  <2>1. Target(t)' = Target(t) + 1 /\ SealedCount(t)' = n + 1
    BY <1>1, <1>2, <1>5, <1>7 DEF Target, SealedCount
  <2>2. n \in Nat /\ Target(t) = n + 1
    BY <1>1, <1>5 DEF RowsBound
  <2>3. old \in Seq(All) /\ Len(old) = n /\ draft \in All /\ DOMAIN old = 1..n
    <3>1. 1..n \subseteq 1..(n + 1) /\ n + 1 \in 1..(n + 1)
      BY <2>2
    <3>2. old \in [1..n -> All]
      BY <3>1
    <3>3. draft \in All
      BY <2>2, <3>1
    <3> HIDE DEF old, All, n
    <3> QED BY <2>2, <3>2, <3>3, SeqDef, LenProperties
  <2>4. Append(old, draft) = new
    <3>1. /\ Append(old, draft) \in Seq(All) /\ Len(Append(old, draft)) = n + 1
          /\ \A r \in 1..n : Append(old, draft)[r] = old[r]
          /\ Append(old, draft)[n + 1] = draft
      <4> HIDE DEF old, All, n, draft
      <4> QED BY <2>2, <2>3, AppendProperties
    <3>2. DOMAIN Append(old, draft) = 1..(n + 1) /\ Append(old, draft) \in [1..(n + 1) -> All]
      <4> HIDE DEF old, All, n, draft
      <4> QED BY <3>1, LenProperties
    <3>3. \A r \in 1..(n + 1) : Append(old, draft)[r] = new[r]
      <4> SUFFICES ASSUME NEW r \in 1..(n + 1) PROVE Append(old, draft)[r] = ContentsOf(t, r)
        OBVIOUS
      <4>1. CASE r \in 1..n
        BY <3>1, <4>1
      <4>2. CASE r = n + 1
        BY <2>2, <3>1, <4>2
      <4> QED BY <2>2, <4>1, <4>2
    <3> HIDE DEF old, All, n, draft
    <3> QED BY <3>2, <3>3
  <2>5. SealedRevisions[t] = old /\ Drafts[t] = draft
    BY DEF SealedRevisions, Drafts
  <2>6. ContentsOf(t, Target(t) + 1) = {}
    <3>1. \A s \in spans : ~(s.trace = t /\ s.revision = Target(t) + 1)
      <4>1. Target(t) \in Nat
        BY <2>2
      <4> QED BY <4>1 DEF RowsBound
    <3> QED BY <3>1 DEF ContentsOf, RowsOf
  <2>7. SealedRevisions' = [SealedRevisions EXCEPT ![t] = new]
    <3>1. SealedRevisions' = [u \in Traces |-> [r \in 1..SealedCount(u)' |-> ContentsOf(u, r)]]
      BY <1>3 DEF SealedRevisions
    <3>2. [r \in 1..SealedCount(t)' |-> ContentsOf(t, r)] = new
      BY <2>1
    <3>3. \A u \in Traces \ {t} : [r \in 1..SealedCount(u)' |-> ContentsOf(u, r)] = SealedRevisions[u]
      BY <1>4 DEF SealedRevisions
    <3> HIDE DEF new
    <3> QED BY <3>1, <3>2, <3>3 DEF SealedRevisions
  <2>8. Drafts' = [Drafts EXCEPT ![t] = {}]
    <3>1. Drafts' = [u \in Traces |-> ContentsOf(u, Target(u)')]
      BY <1>3 DEF Drafts
    <3>2. ContentsOf(t, Target(t)') = {}
      BY <2>1, <2>6
    <3>3. \A u \in Traces \ {t} : ContentsOf(u, Target(u)') = Drafts[u]
      BY <1>4 DEF Drafts
    <3> QED BY <3>1, <3>2, <3>3 DEF Drafts
  <2> HIDE DEF new, old, draft
  <2> QED BY <2>4, <2>5, <2>7, <2>8
<1> QED
  BY <1>6, <1>7 DEF Advanced

(* Marking a page in SQLite advances no trace: its target revision is the  *)
(* one the DuckDB half has already written.                                *)
LEMMA TargetKept ==
  ASSUME StagedInv, CommitControl, NEW t \in Traces
  PROVE  Target(t)' = Target(t)
<1>1. logical' = staged.logical /\ page # {}
  BY DEF CommitControl
<1>2. CASE staged.logical[t] = logical[t]
  BY <1>1, <1>2 DEF Target
<1>3. CASE staged.logical[t].revision = Target(t) /\ staged.logical[t].lifecycle \in Open
  BY <1>1, <1>3 DEF Target, Open
<1> QED
  BY <1>1, <1>2, <1>3 DEF StagedInv

LEMMA StepRefines ==
  ASSUME TypeInv, VersionsWellFormed, StagedInv, RowsBound, [Next]_vars
  PROVE  Revisions!Next \/ UNCHANGED <<SealedRevisions, Drafts>>
<1>1. ASSUME NEW rows \in Pages, CommitAnalytics(rows) PROVE Revisions!Next
  BY <1>1, PageRefines DEF Revisions!Next, Revisions!Write, SealedRevisions, Drafts
<1>2. ASSUME NEW t \in Traces, SweepTraceRow(t)
      PROVE  Revisions!Next \/ UNCHANGED <<SealedRevisions, Drafts>>
  <2>1. CASE /\ SealedRevisions' = [SealedRevisions EXCEPT ![t] = Append(@, Drafts[t])]
             /\ Drafts' = [Drafts EXCEPT ![t] = {}]
    BY <2>1 DEF Revisions!Next, Revisions!Seal, SealedRevisions, Drafts
  <2> QED BY <1>2, <2>1, SweepRefines
<1>3. ASSUME spans' = spans, \A t \in Traces : Target(t)' = Target(t)
      PROVE  UNCHANGED <<SealedRevisions, Drafts>>
  <2>1. \A t, r : ContentsOf(t, r)' = ContentsOf(t, r)
    BY <1>3 DEF ContentsOf, RowsOf
  <2>2. \A t \in Traces : SealedCount(t)' = SealedCount(t)
    BY <1>3 DEF SealedCount
  <2>3. \A t \in Traces : [r \in 1..SealedCount(t)' |-> ContentsOf(t, r)']
                           = [r \in 1..SealedCount(t) |-> ContentsOf(t, r)]
    BY <2>1, <2>2
  <2>4. \A t \in Traces : ContentsOf(t, Target(t)') = ContentsOf(t, Target(t))
    BY <1>3
  <2> QED BY <2>1, <2>3, <2>4, <1>3 DEF SealedRevisions, Drafts
<1>4. CASE CommitControl
  BY <1>3, <1>4, TargetKept DEF CommitControl, analyticsVars
<1>5. CASE (\E p \in Payloads : PutBlobs(p)) \/ Ingest \/ FinishSweep \/ Interrupt \/ UNCHANGED vars
  <2>1. spans' = spans /\ logical' = logical
    BY <1>5 DEF PutBlobs, Ingest, CommitJournal, FinishSweep, SweepRevisionRow, SweepDelta,
                Interrupt, controlVars, analyticsVars, vars
  <2> QED BY <2>1, <1>3 DEF Target
<1> QED
  BY <1>1, <1>2, <1>4, <1>5 DEF Next, Project, Sweep

LEMMA InitRefines == Init => RowsBound /\ StagedInv /\ Revisions!Init
<1> SUFFICES ASSUME Init PROVE RowsBound /\ StagedInv /\ Revisions!Init
  OBVIOUS
<1>1. \A t \in Traces : Target(t) = 1 /\ SealedCount(t) = 0
  BY DEF Init, Target, SealedCount, NoRow
<1>2. \A t, r : ContentsOf(t, r) = {}
  BY DEF Init, ContentsOf, RowsOf
<1>3. \A t \in Traces : [r \in 1..SealedCount(t) |-> ContentsOf(t, r)] = <<>>
  <2>1. 1..0 = {}
    OBVIOUS
  <2> QED BY <1>1, <2>1
<1>4. Revisions!Init
  BY <1>1, <1>2, <1>3 DEF Revisions!Init
<1> QED
  BY <1>1, <1>4 DEF Init, RowsBound, StagedInv

(* Readers of a trace are kept the promise of FinalizedRevisions: through  *)
(* journal, pages, half commits, retries and sweeps its sealed revisions   *)
(* never change, a draft loses no span, and a draft is sealed as it is.    *)
THEOREM StoreImplementsRevisions == Spec => ImplementsRevisions
<1> DEFINE AllInv == TypeInv /\ VersionsWellFormed /\ StagedInv /\ RowsBound
<1>1. Init => AllInv /\ Revisions!Init
  <2>1. Init => VersionsWellFormed
    BY DEF Init, VersionsWellFormed
  <2> QED BY <2>1, TypeInvInit, InitRefines
<1>2. AllInv /\ [Next]_vars => AllInv'
  BY TypeInvNext, VersionsNext, StagedInvNext, RowsBoundNext
<1>3. AllInv /\ [Next]_vars => [Revisions!Next]_<<SealedRevisions, Drafts>>
  BY StepRefines
<1> HIDE DEF AllInv
<1> QED
  BY <1>1, <1>2, <1>3, PTL DEF Spec, ImplementsRevisions, Revisions!Spec, SealedRevisions, Drafts

-----------------------------------------------------------------------------
(* The three stores agree.  What is needed besides the properties of       *)
(* StoreIsTrue: the writer runs one command at a time, the rows half       *)
(* committed are the oldest outstanding ones, no row of DuckDB is unknown  *)
(* to SQLite but those of half committed pages, and what the open SQLite   *)
(* transaction will write is true of the rows DuckDB already has.          *)

OneCommand ==
  /\ page # {} => ingesting = {} /\ toRevise = {} /\ toAnnounce = {}
  /\ \A t \in toRevise : toRevise = {t} /\ toAnnounce = {}
  /\ \A t \in toAnnounce : toAnnounce = {t} /\ toRevise = {}

HalfIsPrefix ==
  /\ page \subseteq HalfApplied
  /\ \A i \in HalfApplied : \A j \in Unprojected : j =< i => j \in HalfApplied

RowsKnown ==
  \A s \in spans : \/ s.revision =< logical[s.trace].revision
                   \/ s.trace \in Mentions(HalfApplied)

AbsentIsNew == \A t \in Traces : logical[t].lifecycle = "absent" => logical[t].revision = 0

StagedRow(t) ==
  IF t \in Mentions(page)
  THEN /\ staged.logical[t].revision = Target(t)
       /\ staged.logical[t].lifecycle = EnsuredLifecycle(t)
       /\ t \notin Mentions(HalfApplied \ page) =>
            staged.logical[t].summary = FullSummary(spans, t, Target(t))
  ELSE staged.logical[t] = logical[t]

(* A trace of the page that gets no delta has changed in nothing but being *)
(* awake again.                                                            *)
StagedDelta(t) ==
  \/ staged.announced[t] = staged.logical[t]
  \/ /\ staged.announced[t] = announced[t]
     /\ staged.logical[t].revision = logical[t].revision
     /\ staged.logical[t].summary = logical[t].summary
     /\ \/ staged.logical[t].lifecycle = logical[t].lifecycle
        \/ logical[t].lifecycle = "quiescent" /\ staged.logical[t].lifecycle = "live"

ShowsUpsert(table, d) ==
  \E s \in table : /\ s.trace = Upsert(d).trace /\ s.id = Upsert(d).id
                   /\ s.revision = Target(Upsert(d).trace)
                   /\ s.current /\ s.content = Upsert(d).content

StagedIsTrue ==
  page # {} =>
    /\ \A t \in Traces : StagedRow(t) /\ StagedDelta(t)
    /\ staged.revisions = RevisionsAfter(page)
    /\ \A d \in Positions(page) :
         \/ \E e \in Positions(page) : SameSpan(d, e) /\ Earlier(d, e)
         \/ ShowsUpsert(spans, d)

(* RevisionRowsFollow and AnnouncedTracksControl, during a sweep as well.  *)
RevisionRowsKept ==
  \A t \in Traces :
    /\ Len(revisions[t]) = logical[t].revision
    /\ \A r \in 1..logical[t].revision :
         \/ <<t, r>> \in torn
         \/ revisions[t][r] = "finalized"
         \/ r = logical[t].revision /\ (logical[t].lifecycle # "finalized" \/ t \in toRevise)

DeltasKept ==
  \A t \in Traces :
    /\ announced[t].revision = logical[t].revision
    /\ announced[t].summary = logical[t].summary
    /\ \/ announced[t].lifecycle = logical[t].lifecycle
       \/ announced[t].lifecycle = "quiescent" /\ logical[t].lifecycle = "live"
       \/ t \in muted \cup toRevise \cup toAnnounce

CommandInv == OneCommand /\ HalfIsPrefix

(* What a step does to the journal: sequences keep their payloads, and     *)
(* only the SQLite commit of a page marks rows, exactly the page's.        *)
JournalGrows ==
  /\ DOMAIN journal \subseteq DOMAIN journal'
  /\ \A i \in DOMAIN journal : journal'[i].payload = journal[i].payload

LEMMA CommitJournalGrows ==
  ASSUME TypeOK, NEW p \in Payloads, CommitJournal(p)
  PROVE  /\ JournalGrows
         /\ \A i \in DOMAIN journal : journal'[i] = journal[i]
         /\ \A i \in DOMAIN journal' \ DOMAIN journal :
              ~journal'[i].projected /\ \A j \in DOMAIN journal : ~(i =< j)
<1> DEFINE n == Len(journal)
           row == [payload |-> p, projected |-> FALSE]
<1>1. CASE UNCHANGED journal
  BY <1>1 DEF JournalGrows
<1>2. CASE journal' = Append(journal, row)
  <2>1. row \in JournalRows
    BY DEF JournalRows
  <2>2. /\ n \in Nat /\ DOMAIN journal = 1..n /\ DOMAIN journal' = 1..(n + 1)
        /\ \A i \in 1..n : journal'[i] = journal[i]
        /\ journal'[n + 1] = row
    BY <1>2, <2>1, AppendProperties, LenProperties DEF TypeOK
  <2>3. \A i \in DOMAIN journal' \ DOMAIN journal : i = n + 1
    BY <2>2
  <2>4. \A j \in DOMAIN journal : ~(n + 1 =< j)
    BY <2>2
  <2> QED BY <2>2, <2>3, <2>4 DEF JournalGrows
<1> QED
  BY <1>1, <1>2 DEF CommitJournal

LEMMA CommitControlMarks ==
  ASSUME TypeOK, CommitControl
  PROVE  /\ JournalGrows /\ DOMAIN journal' = DOMAIN journal
         /\ \A i \in DOMAIN journal : journal'[i].projected = (i \in page \/ journal[i].projected)
<1>1. \A i \in DOMAIN journal : journal[i] \in JournalRows
  BY ElementOfSeq, LenProperties DEF TypeOK
<1> QED
  BY <1>1 DEF CommitControl, JournalRows, JournalGrows

LEMMA PositionsKept ==
  ASSUME JournalGrows, NEW rows \in SUBSET (DOMAIN journal)
  PROVE  /\ Positions(rows)' = Positions(rows)
         /\ \A d \in Positions(rows) : Upsert(d)' = Upsert(d)
<1>1. \A i \in rows : SpansOf[journal'[i].payload] = SpansOf[journal[i].payload]
  BY DEF JournalGrows
<1>2. UNION {{<<i, k>> : k \in DOMAIN SpansOf[journal'[i].payload]} : i \in rows}
        = UNION {{<<i, k>> : k \in DOMAIN SpansOf[journal[i].payload]} : i \in rows}
  BY <1>1
<1>3. ASSUME NEW d \in Positions(rows) PROVE d[1] \in rows
  BY DEF Positions
<1> QED
  BY <1>1, <1>2, <1>3 DEF Positions, Upsert

LEMMA MentionsKept ==
  ASSUME JournalGrows, NEW rows \in SUBSET (DOMAIN journal)
  PROVE  Mentions(rows)' = Mentions(rows)
  BY PositionsKept DEF Mentions

(* More rows mention more traces.                                          *)
LEMMA PositionsOf ==
  ASSUME NEW R, NEW S
  PROVE  /\ Positions(R \cup S) = Positions(R) \cup Positions(S)
         /\ R \subseteq S => Positions(R) \subseteq Positions(S) /\ Mentions(R) \subseteq Mentions(S)
         /\ \A d \in Positions(R) : d[1] \in R
  BY DEF Positions, Mentions

LEMMA CommandInvNext == TypeInv /\ CommandInv /\ [Next]_vars => CommandInv'
<1> SUFFICES ASSUME TypeInv, CommandInv, [Next]_vars PROVE CommandInv'
  OBVIOUS
<1>0. TypeOK /\ page \subseteq applied /\ page \subseteq HalfApplied
  BY DEF TypeInv, CommandInv, HalfIsPrefix, HalfApplied
<1>1. OneCommand'
  BY DEF CommandInv, OneCommand, Next, PutBlobs, Ingest, CommitJournal, Project, CommitAnalytics,
         CommitControl, Sweep, SweepTraceRow, FinishSweep, SweepRevisionRow, SweepDelta, Interrupt,
         vars, Idle
<1>2. HalfIsPrefix'
  <2>1. ASSUME NEW p \in Payloads, CommitJournal(p) PROVE HalfIsPrefix'
    <3>1. page' = page /\ applied' = applied
      BY <2>1 DEF CommitJournal, analyticsVars
    <3>2. HalfApplied' = HalfApplied /\ HalfApplied \subseteq DOMAIN journal
      BY <1>0, <2>1, <3>1, CommitJournalGrows DEF HalfApplied, TypeOK, JournalGrows
    <3>3. ASSUME NEW i \in HalfApplied, NEW j \in Unprojected', j =< i PROVE j \in Unprojected
      BY <1>0, <2>1, <3>2, <3>3, CommitJournalGrows DEF Unprojected
    <3> QED BY <3>1, <3>2, <3>3 DEF HalfIsPrefix, CommandInv
  <2>2. ASSUME NEW rows \in Pages, CommitAnalytics(rows) PROVE HalfIsPrefix'
    <3>1. PICK m \in Unprojected : rows = {i \in Unprojected : i <= m}
      BY <1>0, PageIsPrefix
    <3>2. page' = rows /\ applied' = applied \cup rows /\ journal' = journal
      BY <2>2 DEF CommitAnalytics, controlVars
    <3>3. HalfApplied' = HalfApplied \cup rows
      BY <3>1, <3>2 DEF HalfApplied, Unprojected
    <3>4. Unprojected' = Unprojected /\ Unprojected \subseteq Nat
      <4>1. DOMAIN journal \subseteq Nat
        BY <1>0, LenProperties DEF TypeOK
      <4> QED BY <3>2, <4>1 DEF Unprojected
    <3>5. \A i \in rows : \A j \in Unprojected : j =< i => j \in rows
      BY <3>1, <3>4
    <3> QED BY <3>2, <3>3, <3>4, <3>5 DEF HalfIsPrefix, CommandInv
  <2>3. CASE CommitControl
    <3>1. page' = {} /\ applied' = applied
      BY <2>3 DEF CommitControl, analyticsVars
    <3>2. HalfApplied' = HalfApplied \ page /\ Unprojected' = Unprojected \ page
      BY <1>0, <2>3, <3>1, CommitControlMarks DEF HalfApplied, Unprojected, TypeOK
    <3> QED BY <3>1, <3>2 DEF HalfIsPrefix, CommandInv
  <2>4. CASE (\E p \in Payloads : PutBlobs(p)) \/ Sweep \/ FinishSweep \/ Interrupt \/ UNCHANGED vars
    <3>1. journal' = journal /\ applied' = applied /\ (page' = page \/ page' = {})
      BY <2>4 DEF PutBlobs, Sweep, SweepTraceRow, FinishSweep, SweepRevisionRow, SweepDelta,
                  Interrupt, vars, controlVars, analyticsVars
    <3> QED BY <3>1 DEF HalfIsPrefix, CommandInv, HalfApplied, Unprojected
  <2> QED BY <2>1, <2>2, <2>3, <2>4 DEF Next, Ingest, Project
<1> QED
  BY <1>1, <1>2 DEF CommandInv

(* What the SQLite commit of a page leaves behind.                         *)
LEMMA CommitControlRows ==
  ASSUME TypeInv, CommandInv, StagedIsTrue, CommitControl, NEW t \in Traces
  PROVE  /\ StagedRow(t) /\ StagedDelta(t) /\ page # {}
         /\ toRevise = {} /\ toAnnounce = {}
         /\ logical'[t] = staged.logical[t] /\ announced'[t] = staged.announced[t]
         /\ revisions'[t] = RevisionsAfter(page)[t]
         /\ t \in Mentions(page) =>
              /\ logical'[t].revision = Target(t)
              /\ logical'[t].lifecycle = EnsuredLifecycle(t) /\ EnsuredLifecycle(t) \in Open
         /\ t \notin Mentions(page) => logical'[t] = logical[t]
<1>1. EnsuredLifecycle(t) \in Open
  BY DEF EnsuredLifecycle, TypeInv, TypeOK, TraceRows, Lifecycles, Open
<1> QED
  BY <1>1 DEF CommitControl, CommandInv, OneCommand, StagedIsTrue, StagedRow

LEMMA RevisionsKeptByPage ==
  ASSUME TypeInv, RowsBound, CommandInv, StagedIsTrue, AbsentIsNew, RevisionRowsKept, CommitControl
  PROVE  AbsentIsNew' /\ RevisionRowsKept'
<1>0. TypeOK /\ torn' = torn /\ toRevise = {} /\ toRevise' = {}
  BY CommitControlRows DEF TypeInv, CommitControl, CommandInv, OneCommand
<1>1. ASSUME NEW t \in Traces
      PROVE  logical[t].lifecycle \in Lifecycles /\ logical[t].revision \in Nat
             /\ revisions[t] \in Seq(Lifecycles)
  BY <1>0 DEF TypeOK, TraceRows
<1>2. AbsentIsNew'
  BY <1>1, CommitControlRows DEF AbsentIsNew, Open
<1>3. ASSUME NEW t \in Traces
      PROVE  /\ Len(revisions'[t]) = logical'[t].revision
             /\ \A r \in 1..logical'[t].revision :
                  \/ <<t, r>> \in torn
                  \/ revisions'[t][r] = "finalized"
                  \/ r = logical'[t].revision /\ logical'[t].lifecycle # "finalized"
  <2> DEFINE n == logical[t].revision
  <2>0. n \in Nat /\ Len(revisions[t]) = n
        /\ \A r \in 1..n : \/ <<t, r>> \in torn
                           \/ revisions[t][r] = "finalized"
                           \/ r = n /\ logical[t].lifecycle # "finalized"
    BY <1>0, <1>1 DEF RevisionRowsKept
  <2>1. CASE t \notin Mentions(page)
    <3>1. revisions'[t] = revisions[t] /\ logical'[t] = logical[t]
      BY <2>1, CommitControlRows DEF RevisionsAfter
    <3> QED BY <2>0, <3>1
  <2>2. CASE t \in Mentions(page) /\ logical[t].lifecycle \in Open
    <3>1. revisions'[t] = revisions[t] /\ logical'[t].revision = n /\ logical'[t].lifecycle # "finalized"
      BY <2>2, CommitControlRows DEF RevisionsAfter, Target, Open
    <3> QED BY <2>0, <3>1
  <2>3. CASE t \in Mentions(page) /\ logical[t].lifecycle \notin Open
    <3>1. /\ revisions'[t] = Append(revisions[t], EnsuredLifecycle(t))
          /\ logical'[t].revision = n + 1 /\ logical'[t].lifecycle # "finalized"
          /\ logical[t].lifecycle \in {"absent", "finalized"}
      BY <1>1, <2>3, CommitControlRows DEF RevisionsAfter, Target, Open, Lifecycles
    <3>2. EnsuredLifecycle(t) \in Lifecycles
      BY <1>1, <2>3, CommitControlRows DEF Lifecycles
    <3>3. /\ Len(revisions'[t]) = n + 1
          /\ \A r \in 1..n : revisions'[t][r] = revisions[t][r]
      BY <1>1, <2>0, <3>1, <3>2, AppendProperties
    <3>4. \A r \in 1..n : <<t, r>> \in torn \/ revisions[t][r] = "finalized"
      BY <2>0, <3>1 DEF AbsentIsNew
    <3>5. \A r \in 1..(n + 1) : r \in 1..n \/ r = n + 1
      BY <2>0
    <3> QED BY <3>1, <3>3, <3>4, <3>5
  <2> QED BY <2>1, <2>2, <2>3
<1> QED
  BY <1>0, <1>2, <1>3 DEF RevisionRowsKept

LEMMA RevisionsNext ==
  TypeInv /\ RowsBound /\ CommandInv /\ StagedIsTrue /\ AbsentIsNew /\ RevisionRowsKept
    /\ [Next]_vars => AbsentIsNew' /\ RevisionRowsKept'
<1> SUFFICES ASSUME TypeInv, RowsBound, CommandInv, StagedIsTrue, AbsentIsNew, RevisionRowsKept,
                    [Next]_vars
             PROVE  AbsentIsNew' /\ RevisionRowsKept'
  OBVIOUS
<1>0. TypeOK /\ \A t \in Traces : /\ logical[t] \in TraceRows /\ logical[t].revision \in Nat
                                  /\ revisions[t] \in Seq(Lifecycles)
                                  /\ logical[t].lifecycle \in Lifecycles
  BY DEF TypeInv, TypeOK, TraceRows
<1>1. ASSUME NEW t \in Traces, SweepTraceRow(t) PROVE AbsentIsNew' /\ RevisionRowsKept'
  <2>1. /\ revisions' = revisions /\ torn' = torn /\ toRevise' = {t} /\ toRevise = {}
        /\ \A u \in Traces : /\ u # t => logical'[u] = logical[u]
                             /\ logical'[u].revision = logical[u].revision
        /\ logical[t].lifecycle # "finalized" /\ logical'[t].lifecycle # "absent"
    BY <1>0, <1>1 DEF SweepTraceRow, TypeOK, TraceRows, Advanced, Open, ghostVars, Idle
  <2>2. AbsentIsNew'
    BY <2>1 DEF AbsentIsNew
  <2>3. RevisionRowsKept'
    BY <2>1 DEF RevisionRowsKept
  <2> QED BY <2>2, <2>3
<1>2. ASSUME NEW t \in Traces, SweepRevisionRow(t) PROVE AbsentIsNew' /\ RevisionRowsKept'
  <2> DEFINE n == logical[t].revision
  <2>1. /\ logical' = logical /\ torn' = torn /\ toRevise = {t} /\ toRevise' = {}
        /\ revisions' = [revisions EXCEPT ![t][n] = logical[t].lifecycle]
    BY <1>2 DEF SweepRevisionRow, CommandInv, OneCommand, ghostVars
  <2>2. /\ \A u \in Traces \ {t} : revisions'[u] = revisions[u]
        /\ revisions'[t] = [revisions[t] EXCEPT ![n] = logical[t].lifecycle]
    BY <1>0, <2>1 DEF TypeOK
  <2>3. n \in Nat /\ Len(revisions[t]) = n /\ DOMAIN revisions[t] = 1..n
    BY <1>0, LenProperties DEF RevisionRowsKept
  <2>4. /\ Len(revisions'[t]) = n
        /\ \A r \in 1..n : r # n => revisions'[t][r] = revisions[t][r]
        /\ \A r \in 1..n : r = n => revisions'[t][r] = logical[t].lifecycle
    <3>1. CASE n \in 1..n
      BY <1>0, <2>2, <2>3, <3>1, ExceptSeq
    <3>2. CASE n \notin 1..n
      <4>1. revisions'[t] = revisions[t]
        BY <1>0, <2>2, <2>3, <3>2, LenProperties
      <4> QED BY <2>3, <3>2, <4>1
    <3> QED BY <3>1, <3>2
  <2>5. ASSUME NEW r \in 1..n
        PROVE  \/ <<t, r>> \in torn
               \/ revisions'[t][r] = "finalized"
               \/ r = n /\ logical[t].lifecycle # "finalized"
    BY <2>4 DEF RevisionRowsKept
  <2>6. RevisionRowsKept'
    BY <2>1, <2>2, <2>4, <2>5 DEF RevisionRowsKept
  <2> QED BY <2>1, <2>6 DEF AbsentIsNew
<1>3. CASE Interrupt
  <2>1. /\ logical' = logical /\ revisions' = revisions /\ toRevise' = {}
        /\ torn' = torn \cup {<<t, logical[t].revision>> : t \in toRevise}
    BY <1>3 DEF Interrupt, controlVars
  <2> QED BY <2>1 DEF AbsentIsNew, RevisionRowsKept
<1>4. ASSUME UNCHANGED <<logical, revisions, torn, toRevise>> PROVE AbsentIsNew' /\ RevisionRowsKept'
  BY <1>4 DEF AbsentIsNew, RevisionRowsKept
<1>5. CASE (\E p \in Payloads : PutBlobs(p)) \/ Ingest \/ Project \/ UNCHANGED vars
           \/ \E t \in Traces : SweepDelta(t)
  BY <1>4, <1>5 DEF PutBlobs, Ingest, CommitJournal, Project, CommitAnalytics, SweepDelta,
                    controlVars, ghostVars, vars
<1> QED
  BY <1>1, <1>2, <1>3, <1>5, RevisionsKeptByPage DEF Next, Sweep, FinishSweep

LEMMA DeltasNext ==
  TypeInv /\ CommandInv /\ StagedIsTrue /\ DeltasKept /\ [Next]_vars => DeltasKept'
<1> SUFFICES ASSUME TypeInv, CommandInv, StagedIsTrue, DeltasKept, [Next]_vars PROVE DeltasKept'
  OBVIOUS
<1>0. TypeOK
  BY DEF TypeInv
<1>1. CASE CommitControl
  <2>1. /\ muted' = muted \ {t \in Traces : staged.announced[t] # announced[t]}
        /\ toRevise' = toRevise /\ toAnnounce' = toAnnounce
    BY <1>1 DEF CommitControl
  <2>2. ASSUME NEW t \in Traces
        PROVE  /\ announced'[t].revision = logical'[t].revision
               /\ announced'[t].summary = logical'[t].summary
               /\ \/ announced'[t].lifecycle = logical'[t].lifecycle
                  \/ announced'[t].lifecycle = "quiescent" /\ logical'[t].lifecycle = "live"
                  \/ t \in muted' \cup toRevise' \cup toAnnounce'
    <3>1. CASE staged.announced[t] = staged.logical[t]
      BY <1>1, <3>1, CommitControlRows
    <3>2. CASE staged.announced[t] # staged.logical[t]
      <4>1. /\ announced'[t] = announced[t] /\ (t \in muted' <=> t \in muted)
            /\ logical'[t].revision = logical[t].revision
            /\ logical'[t].summary = logical[t].summary
            /\ \/ logical'[t].lifecycle = logical[t].lifecycle
               \/ logical[t].lifecycle = "quiescent" /\ logical'[t].lifecycle = "live"
            /\ toRevise = {} /\ toAnnounce = {}
        BY <1>1, <2>1, <3>2, CommitControlRows DEF StagedDelta
      <4> QED BY <4>1 DEF DeltasKept
    <3> QED BY <3>1, <3>2
  <2> QED BY <2>2 DEF DeltasKept
<1>2. ASSUME NEW t \in Traces, SweepTraceRow(t) PROVE DeltasKept'
  <2>1. /\ announced' = announced /\ muted' = muted /\ toRevise' = {t}
        /\ toRevise = {} /\ toAnnounce = {}
        /\ \A u \in Traces : /\ u # t => logical'[u] = logical[u]
                             /\ logical'[u].revision = logical[u].revision
                             /\ logical'[u].summary = logical[u].summary
    BY <1>0, <1>2 DEF SweepTraceRow, TypeOK, TraceRows, ghostVars, Idle
  <2> QED BY <2>1 DEF DeltasKept
<1>3. ASSUME NEW t \in Traces, SweepRevisionRow(t) PROVE DeltasKept'
  BY <1>3 DEF SweepRevisionRow, CommandInv, OneCommand, DeltasKept, ghostVars
<1>4. ASSUME NEW t \in Traces, SweepDelta(t) PROVE DeltasKept'
  <2>1. /\ toAnnounce = {t} /\ toRevise = {} /\ toRevise' = {} /\ muted' = muted \ {t}
        /\ logical' = logical /\ announced'[t] = logical[t]
        /\ \A u \in Traces \ {t} : announced'[u] = announced[u]
    BY <1>0, <1>4 DEF SweepDelta, CommandInv, OneCommand, TypeOK
  <2> QED BY <2>1 DEF DeltasKept
<1>5. CASE Interrupt
  BY <1>5 DEF Interrupt, DeltasKept, controlVars
<1>6. CASE (\E p \in Payloads : PutBlobs(p)) \/ Ingest \/ Project \/ UNCHANGED vars
  BY <1>6 DEF PutBlobs, Ingest, CommitJournal, Project, CommitAnalytics, DeltasKept,
              controlVars, ghostVars, vars
<1> QED
  BY <1>1, <1>2, <1>3, <1>4, <1>5, <1>6 DEF Next, Sweep, FinishSweep

(* How the outstanding work moves: a DuckDB commit adds its page to what   *)
(* is half applied, the SQLite commit takes it off and marks it.           *)
Done == {i \in DOMAIN journal : journal[i].projected}

LEMMA WorkMoves ==
  ASSUME TypeInv, CommandInv, [Next]_vars
  PROVE  /\ JournalGrows
         /\ HalfApplied \subseteq DOMAIN journal /\ Done \subseteq DOMAIN journal
         /\ page \subseteq HalfApplied
         /\ \/ \E rows \in Pages : /\ CommitAnalytics(rows) /\ rows \in SUBSET (DOMAIN journal)
                                   /\ HalfApplied' = HalfApplied \cup rows
                                   /\ Done' = Done /\ journal' = journal
            \/ /\ CommitControl
               /\ HalfApplied' = HalfApplied \ page /\ Done' = Done \cup page
            \/ /\ HalfApplied' = HalfApplied /\ Done' = Done /\ spans' = spans
               /\ \A t \in Traces : logical'[t].revision = logical[t].revision
                                    /\ logical'[t].summary = logical[t].summary
               /\ page' # {} => page' = page /\ staged' = staged /\ logical' = logical
                                /\ announced' = announced /\ revisions' = revisions
<1>0. TypeOK /\ page \subseteq HalfApplied /\ HalfApplied \subseteq DOMAIN journal
      /\ Done \subseteq DOMAIN journal
  BY DEF TypeInv, CommandInv, HalfIsPrefix, HalfApplied, TypeOK, Done
<1>1. ASSUME NEW rows \in Pages, CommitAnalytics(rows)
      PROVE  /\ rows \in SUBSET (DOMAIN journal) /\ journal' = journal
             /\ HalfApplied' = HalfApplied \cup rows /\ Done' = Done /\ JournalGrows
  <2>1. rows \in SUBSET Unprojected
    BY <1>0, PageIsPrefix
  <2> QED BY <1>1, <2>1 DEF CommitAnalytics, HalfApplied, Unprojected, controlVars, Done, JournalGrows
<1>2. CASE CommitControl
  <2>1. HalfApplied' = HalfApplied \ page /\ Done' = Done \cup page /\ JournalGrows
    BY <1>0, <1>2, CommitControlMarks
       DEF HalfApplied, TypeOK, CommitControl, analyticsVars, Done
  <2> QED BY <1>0, <1>2, <2>1
<1>3. ASSUME NEW p \in Payloads, CommitJournal(p)
      PROVE  /\ HalfApplied' = HalfApplied /\ Done' = Done /\ spans' = spans /\ logical' = logical
             /\ JournalGrows /\ page = {} /\ page' = {}
  <2>1. applied' = applied /\ spans' = spans /\ logical' = logical /\ page' = page /\ page = {}
    BY <1>3 DEF CommitJournal, analyticsVars, CommandInv, OneCommand
  <2>2. HalfApplied' = HalfApplied /\ Done' = Done /\ JournalGrows
    BY <1>0, <1>3, <2>1, CommitJournalGrows DEF HalfApplied, TypeOK, JournalGrows, Done
  <2> QED BY <2>1, <2>2
<1>4. ASSUME UNCHANGED <<journal, applied, spans>>
      PROVE  HalfApplied' = HalfApplied /\ Done' = Done /\ JournalGrows
  BY <1>4 DEF HalfApplied, Done, JournalGrows
<1>5. ASSUME NEW t \in Traces, SweepTraceRow(t)
      PROVE  /\ UNCHANGED <<journal, applied, spans>> /\ page' = {}
             /\ \A u \in Traces : logical'[u].revision = logical[u].revision
                                  /\ logical'[u].summary = logical[u].summary
  BY <1>0, <1>5 DEF SweepTraceRow, TypeOK, TraceRows, analyticsVars, Idle
<1>6. CASE (\E p \in Payloads : PutBlobs(p)) \/ FinishSweep \/ Interrupt
  <2>1. UNCHANGED <<journal, applied, spans, logical>> /\ page' = {}
    BY <1>6 DEF PutBlobs, FinishSweep, SweepRevisionRow, SweepDelta, Interrupt, controlVars,
                analyticsVars, CommandInv, OneCommand, Idle
  <2> QED BY <1>0, <1>4, <2>1
<1>7. CASE UNCHANGED vars
  <2>1. UNCHANGED <<journal, applied, spans, logical, page, staged, announced, revisions>>
    BY <1>7 DEF vars
  <2> QED BY <1>0, <1>4, <2>1
<1>8. CASE Ingest
  BY <1>0, <1>3, <1>8 DEF Ingest
<1>9. CASE Sweep
  BY <1>0, <1>4, <1>5, <1>9 DEF Sweep
<1>10. CASE Project
  BY <1>0, <1>1, <1>10 DEF Project
<1> QED
  BY <1>2, <1>6, <1>7, <1>8, <1>9, <1>10 DEF Next

LEMMA RowsKnownNext ==
  TypeInv /\ RowsBound /\ CommandInv /\ StagedIsTrue /\ RowsKnown /\ [Next]_vars => RowsKnown'
<1> SUFFICES ASSUME TypeInv, RowsBound, CommandInv, StagedIsTrue, RowsKnown, [Next]_vars
             PROVE  RowsKnown'
  OBVIOUS
<1>0. TypeOK /\ JournalGrows /\ \A s \in spans : s.trace \in Traces /\ s.revision \in Nat
  BY WorkMoves DEF TypeInv, TypeOK, SpanRows
<1>1. ASSUME NEW S \in SUBSET (DOMAIN journal) PROVE Mentions(S)' = Mentions(S)
  BY <1>0, MentionsKept
<1>2. ASSUME NEW rows \in Pages, CommitAnalytics(rows), rows \in SUBSET (DOMAIN journal),
             HalfApplied' = HalfApplied \cup rows, journal' = journal
      PROVE  RowsKnown'
  <2>1. /\ logical' = logical
        /\ spans' = {Kept(rows, s) : s \in spans} \cup {NewRow(rows, d) : d \in Changes(rows)}
    BY <1>2, NewRowsAre DEF CommitAnalytics, controlVars, SpansAfter, Kept
  <2>2. Mentions(HalfApplied)' = Mentions(HalfApplied \cup rows)
    BY <1>2 DEF Mentions, Positions, Upsert
  <2>3. \A d \in Changes(rows) : NewRow(rows, d).trace \in Mentions(rows)
    BY NewRowIs DEF Changes, Mentions
  <2>4. \A s \in spans : Kept(rows, s).trace = s.trace /\ Kept(rows, s).revision = s.revision
    BY <1>0, KeptIs
  <2>5. Mentions(rows) \subseteq Mentions(HalfApplied \cup rows)
        /\ Mentions(HalfApplied) \subseteq Mentions(HalfApplied \cup rows)
    BY PositionsOf
  <2> QED BY <2>1, <2>2, <2>3, <2>4, <2>5 DEF RowsKnown
<1>3. ASSUME CommitControl, HalfApplied' = HalfApplied \ page, page \subseteq HalfApplied,
             HalfApplied \subseteq DOMAIN journal
      PROVE  RowsKnown'
  <2>1. spans' = spans
    BY <1>3 DEF CommitControl, analyticsVars
  <2>2. Mentions(HalfApplied)' = Mentions(HalfApplied \ page)
    <3>1. \A S \in SUBSET (DOMAIN journal) : Mentions(S)' = Mentions(S)
      BY <1>1
    <3>2. HalfApplied \ page \in SUBSET (DOMAIN journal)
      BY <1>3
    <3> QED BY <1>3, <3>1, <3>2
  <2>3. Mentions(HalfApplied) = Mentions(HalfApplied \ page) \cup Mentions(page)
    <3>1. HalfApplied = (HalfApplied \ page) \cup page
      BY <1>3
    <3> QED BY <3>1, PositionsOf DEF Mentions
  <2>4. ASSUME NEW s \in spans
        PROVE  s.revision =< logical'[s.trace].revision \/ s.trace \in Mentions(HalfApplied \ page)
    <3>1. CASE s.trace \in Mentions(page)
      BY <1>0, <1>3, <3>1, CommitControlRows DEF RowsBound
    <3>2. CASE s.trace \notin Mentions(page)
      BY <1>0, <1>3, <2>3, <3>2, CommitControlRows DEF RowsKnown
    <3> QED BY <3>1, <3>2
  <2> QED BY <2>1, <2>2, <2>4 DEF RowsKnown
<1>4. ASSUME HalfApplied' = HalfApplied, spans' = spans, HalfApplied \subseteq DOMAIN journal,
             \A t \in Traces : logical'[t].revision = logical[t].revision
      PROVE  RowsKnown'
  <2>1. Mentions(HalfApplied)' = Mentions(HalfApplied)
    <3>1. \A S \in SUBSET (DOMAIN journal) : Mentions(S)' = Mentions(S)
      BY <1>1
    <3> QED BY <1>4, <3>1
  <2> QED BY <1>0, <1>4, <2>1 DEF RowsKnown
<1> QED
  BY <1>2, <1>3, <1>4, WorkMoves

(* The rows a summary is about: what a page leaves of them, and adds.      *)
Currents(table, t, r) == {s \in table : s.trace = t /\ s.revision = r /\ s.current}
ChangesOf(rows, t) == {d \in Changes(rows) : Upsert(d).trace = t}
LastChanges(rows, t) == {d \in ChangesOf(rows, t) : IsLast(rows, d)}
Unchanged(rows, t, S) == {s \in S : Changed(rows, t, s.id) = {}}

LEMMA CurrentsAfter ==
  ASSUME TypeOK, NEW rows \in SUBSET (DOMAIN journal), NEW t \in Traces
  PROVE  Currents(SpansAfter(rows), t, Target(t)) =
           Unchanged(rows, t, Currents(spans, t, Target(t)))
             \cup {NewRow(rows, d) : d \in LastChanges(rows, t)}
<1> DEFINE A == Currents(spans, t, Target(t))
           new == {NewRow(rows, d) : d \in LastChanges(rows, t)}
<1>1. SpansAfter(rows) = {Kept(rows, s) : s \in spans} \cup {NewRow(rows, d) : d \in Changes(rows)}
  BY NewRowsAre DEF SpansAfter, Kept
<1>2. ASSUME NEW s \in Unchanged(rows, t, A) PROVE s \in Currents(SpansAfter(rows), t, Target(t))
  <2>1. s \in spans /\ s \in A /\ Changed(rows, s.trace, s.id) = {}
    BY DEF Unchanged, Currents
  <2>2. Kept(rows, s) = s
    BY <2>1, SupersededIs, KeptIs
  <2> QED BY <1>1, <2>1, <2>2 DEF Currents
<1>3. ASSUME NEW d \in LastChanges(rows, t)
      PROVE  NewRow(rows, d) \in Currents(SpansAfter(rows), t, Target(t))
  <2>1. d \in Changes(rows) /\ Upsert(d).trace = t /\ IsLast(rows, d)
    BY DEF LastChanges, ChangesOf
  <2> QED BY <1>1, <2>1, NewRowIs DEF Currents
<1>4. ASSUME NEW x \in Currents(SpansAfter(rows), t, Target(t)), x \notin new
      PROVE  x \in Unchanged(rows, t, A)
  <2>0. x.trace = t /\ x.revision = Target(t) /\ x.current
    BY DEF Currents
  <2>1. CASE \E s \in spans : x = Kept(rows, s)
    <3>1. PICK s \in spans : x = Kept(rows, s)
      BY <2>1
    <3>2. /\ s.trace = t /\ s.revision = Target(t)
          /\ x.current = (s.current /\ ~Superseded(rows, s))
          /\ ~Superseded(rows, s) => x = s
      BY <2>0, <3>1, KeptIs
    <3>3. s.current /\ ~Superseded(rows, s)
      BY <2>0, <3>2, Zenon
    <3>4. x = s /\ Changed(rows, t, s.id) = {}
      BY <3>2, <3>3, SupersededIs
    <3> QED BY <2>0, <3>4 DEF Unchanged, Currents
  <2>2. CASE \E d \in Changes(rows) : x = NewRow(rows, d)
    <3>1. PICK d \in Changes(rows) : x = NewRow(rows, d)
      BY <2>2
    <3>2. Upsert(d).trace = t /\ IsLast(rows, d)
      <4>1. x.trace = Upsert(d).trace /\ x.current = IsLast(rows, d)
        BY <3>1, NewRowIs
      <4> QED BY <2>0, <4>1, Zenon
    <3> QED BY <1>4, <3>1, <3>2 DEF LastChanges, ChangesOf
  <2> QED BY <1>1, <2>1, <2>2 DEF Currents
<1> HIDE DEF A
<1> QED
  BY <1>2, <1>3, <1>4 DEF A

(* A trace without a change keeps its rows.                                *)
LEMMA TraceUntouched ==
  ASSUME TypeOK, NEW rows \in SUBSET (DOMAIN journal), NEW t \in Traces,
         ChangesOf(rows, t) = {}
  PROVE  {s \in SpansAfter(rows) : s.trace = t} = {s \in spans : s.trace = t}
<1>1. SpansAfter(rows) = {Kept(rows, s) : s \in spans} \cup {NewRow(rows, d) : d \in Changes(rows)}
  BY NewRowsAre DEF SpansAfter, Kept
<1>2. ASSUME NEW s \in spans PROVE Kept(rows, s).trace = s.trace /\ (s.trace = t => Kept(rows, s) = s)
  <2>1. s.trace = t => ~Superseded(rows, s)
    BY SupersededIs DEF Changed, OfSpan, ChangesOf
  <2> QED BY <2>1, KeptIs
<1>3. \A d \in Changes(rows) : NewRow(rows, d).trace # t
  BY NewRowIs DEF ChangesOf
<1> QED
  BY <1>1, <1>2, <1>3

LEMMA SummaryUntouched ==
  ASSUME TypeOK, NEW rows \in SUBSET (DOMAIN journal), NEW t \in Traces,
         ChangesOf(rows, t) = {}, NEW r
  PROVE  FullSummary(SpansAfter(rows), t, r) = FullSummary(spans, t, r)
<1>1. {s \in SpansAfter(rows) : s.trace = t /\ s.revision = r /\ s.current}
        = {s \in spans : s.trace = t /\ s.revision = r /\ s.current}
  BY TraceUntouched
<1> QED
  BY <1>1 DEF FullSummary

LEMMA NotMentioned ==
  ASSUME NEW rows, NEW t, t \notin Mentions(rows)
  PROVE  ChangesOf(rows, t) = {}
  BY DEF ChangesOf, Changes, Mentions

LEMMA SummaryNext ==
  TypeInv /\ CommandInv /\ StagedIsTrue /\ SummaryAgrees /\ [Next]_vars => SummaryAgrees'
<1> SUFFICES ASSUME TypeInv, CommandInv, StagedIsTrue, SummaryAgrees, [Next]_vars
             PROVE  SummaryAgrees'
  OBVIOUS
<1>0. TypeOK /\ JournalGrows
  BY WorkMoves DEF TypeInv
<1>1. \A S \in SUBSET (DOMAIN journal) : Mentions(S)' = Mentions(S)
  BY <1>0, MentionsKept
<1>2. ASSUME NEW rows \in Pages, CommitAnalytics(rows), rows \in SUBSET (DOMAIN journal),
             HalfApplied' = HalfApplied \cup rows, journal' = journal
      PROVE  SummaryAgrees'
  <2>1. logical' = logical /\ spans' = SpansAfter(rows)
    BY <1>2 DEF CommitAnalytics, controlVars
  <2>2. Mentions(HalfApplied)' = Mentions(HalfApplied \cup rows)
    BY <1>2 DEF Mentions, Positions, Upsert
  <2>3. ASSUME NEW t \in Traces, t \notin Mentions(HalfApplied \cup rows)
        PROVE  logical[t].summary = FullSummary(SpansAfter(rows), t, logical[t].revision)
    <3>1. t \notin Mentions(rows) /\ t \notin Mentions(HalfApplied)
      BY <2>3, PositionsOf
    <3>2. FullSummary(SpansAfter(rows), t, logical[t].revision)
            = FullSummary(spans, t, logical[t].revision)
      BY <1>0, <1>2, <3>1, NotMentioned, SummaryUntouched
    <3> QED BY <3>1, <3>2 DEF SummaryAgrees
  <2> QED BY <2>1, <2>2, <2>3 DEF SummaryAgrees
<1>3. ASSUME CommitControl, HalfApplied' = HalfApplied \ page, page \subseteq HalfApplied,
             HalfApplied \subseteq DOMAIN journal
      PROVE  SummaryAgrees'
  <2>1. spans' = spans
    BY <1>3 DEF CommitControl, analyticsVars
  <2>2. Mentions(HalfApplied)' = Mentions(HalfApplied \ page)
    <3>1. HalfApplied \ page \in SUBSET (DOMAIN journal)
      BY <1>3
    <3> QED BY <1>1, <1>3, <3>1
  <2>3. Mentions(HalfApplied) = Mentions(HalfApplied \ page) \cup Mentions(page)
    <3>1. HalfApplied = (HalfApplied \ page) \cup page
      BY <1>3
    <3> QED BY <3>1, PositionsOf DEF Mentions
  <2>4. ASSUME NEW t \in Traces, t \notin Mentions(HalfApplied \ page)
        PROVE  logical'[t].summary = FullSummary(spans, t, logical'[t].revision)
    <3>1. CASE t \in Mentions(page)
      BY <1>3, <2>4, <3>1, CommitControlRows DEF StagedRow
    <3>2. CASE t \notin Mentions(page)
      BY <1>3, <2>3, <2>4, <3>2, CommitControlRows DEF SummaryAgrees
    <3> QED BY <3>1, <3>2
  <2> QED BY <2>1, <2>2, <2>4 DEF SummaryAgrees
<1>4. ASSUME HalfApplied' = HalfApplied, spans' = spans, HalfApplied \subseteq DOMAIN journal,
             \A t \in Traces : logical'[t].revision = logical[t].revision
                               /\ logical'[t].summary = logical[t].summary
      PROVE  SummaryAgrees'
  <2>1. Mentions(HalfApplied)' = Mentions(HalfApplied)
    BY <1>1, <1>4
  <2> QED BY <1>4, <2>1 DEF SummaryAgrees
<1> QED
  BY <1>2, <1>3, <1>4, WorkMoves

(* LastUpsertVisible, upsert by upsert.                                    *)
ShownLast(d) ==
  \E s \in spans :
    /\ s.trace = Upsert(d).trace /\ s.id = Upsert(d).id
    /\ s.current /\ s.content = Upsert(d).content
    /\ s.revision <= logical[s.trace].revision
    /\ \A x \in spans : (x.trace = s.trace /\ x.id = s.id) => x.revision <= s.revision

Settled(d) ==
  \/ \E e \in Positions(Done) : SameSpan(d, e) /\ Earlier(d, e)
  \/ \E e \in Positions(HalfApplied) : SameSpan(d, e)
  \/ ShownLast(d)

LEMMA UpsertsSettled == LastUpsertVisible <=> \A d \in Positions(Done) : Settled(d)
  BY DEF LastUpsertVisible, Settled, ShownLast, Done

(* An upsert of another span does not disturb what is shown of this one.   *)
LEMMA ShownAfterPage ==
  ASSUME TypeInv, NEW rows \in SUBSET (DOMAIN journal), CommitAnalytics(rows),
         NEW S \in SUBSET (DOMAIN journal), NEW d \in Positions(S), ShownLast(d),
         \A e \in Positions(rows) : ~SameSpan(d, e)
  PROVE  ShownLast(d)'
<1> DEFINE t == Upsert(d).trace
           i == Upsert(d).id
<1>0. TypeOK /\ t \in Traces
  BY PositionIs DEF TypeInv
<1>1. spans' = SpansAfter(rows) /\ logical' = logical /\ journal' = journal
  BY DEF CommitAnalytics, controlVars
<1>2. Changed(rows, t, i) = {}
  BY DEF Changed, OfSpan, SameSpan
<1>3. \A r : Versions(SpansAfter(rows), t, r, i) = Versions(spans, t, r, i)
  BY <1>0, <1>2, VersionsElsewhere
<1>4. \A x : x.trace = t /\ x.id = i => (x \in SpansAfter(rows) <=> x \in spans)
  <2> SUFFICES ASSUME NEW x, x.trace = t, x.id = i PROVE x \in SpansAfter(rows) <=> x \in spans
    OBVIOUS
  <2>1. \A table : x \in table <=> x \in Versions(table, t, x.revision, i)
    BY DEF Versions
  <2> QED BY <1>3, <2>1
<1>5. Upsert(d)' = Upsert(d)
  BY <1>1 DEF Upsert
<1>6. PICK s \in spans :
        /\ s.trace = t /\ s.id = i
        /\ s.current /\ s.content = Upsert(d).content
        /\ s.revision <= logical[s.trace].revision
        /\ \A x \in spans : (x.trace = s.trace /\ x.id = s.id) => x.revision <= s.revision
  BY DEF ShownLast
<1>7. s \in SpansAfter(rows)
  BY <1>4, <1>6
<1>8. \A x \in SpansAfter(rows) : (x.trace = s.trace /\ x.id = s.id) => x.revision <= s.revision
  BY <1>4, <1>6
<1> HIDE DEF t, i
<1> QED
  BY <1>1, <1>5, <1>6, <1>7, <1>8 DEF ShownLast, t, i

LEMMA LastUpsertNext ==
  TypeInv /\ RowsBound /\ OrderInv /\ CommandInv /\ StagedIsTrue /\ LastUpsertVisible
    /\ [Next]_vars => LastUpsertVisible'
<1> SUFFICES ASSUME TypeInv, RowsBound, OrderInv, CommandInv, StagedIsTrue, LastUpsertVisible,
                    [Next]_vars
             PROVE  \A d \in Positions(Done)' : Settled(d)'
  BY DEF LastUpsertVisible, Settled, ShownLast, Done
<1> DEFINE All == DOMAIN journal
<1>0. /\ TypeOK /\ JournalGrows /\ HalfApplied \subseteq All /\ Done \subseteq All
      /\ page \subseteq HalfApplied
      /\ \A s \in spans : s.trace \in Traces /\ s.revision \in Nat
  BY WorkMoves DEF TypeInv, TypeOK, SpanRows
<1>1. /\ \A S \in SUBSET All : Positions(S)' = Positions(S)
      /\ \A d \in Positions(All) : Upsert(d)' = Upsert(d)
  BY <1>0, PositionsKept
<1>2. \A d, e \in Positions(All) : SameSpan(d, e)' <=> SameSpan(d, e)
  BY <1>1 DEF SameSpan
<1>3. \A S \in SUBSET All : Positions(S) \subseteq Positions(All)
  BY PositionsOf
<1>4. \A d \in Positions(Done) : Settled(d)
  BY UpsertsSettled
<1>5. ASSUME NEW rows \in Pages, CommitAnalytics(rows), rows \in SUBSET All,
             HalfApplied' = HalfApplied \cup rows, Done' = Done, journal' = journal,
             NEW d \in Positions(Done)'
      PROVE  Settled(d)'
  <2>1. Positions(Done)' = Positions(Done)
    BY <1>0, <1>1, <1>5
  <2>2. Positions(HalfApplied)' = Positions(HalfApplied) \cup Positions(rows)
    <3>1. Positions(HalfApplied)' = Positions(HalfApplied \cup rows)
      BY <1>5 DEF Positions
    <3> QED BY <3>1, PositionsOf
  <2>3. \A x, y : SameSpan(x, y)' <=> SameSpan(x, y)
    BY <1>5 DEF SameSpan, Upsert
  <2>4. Settled(d)
    BY <1>4, <1>5, <2>1
  <2>5. CASE ShownLast(d) /\ \A e \in Positions(rows) : ~SameSpan(d, e)
    <3>1. ShownLast(d)'
      BY <1>0, <1>5, <2>1, <2>5, ShownAfterPage
    <3> QED BY <3>1 DEF Settled
  <2>6. CASE \E e \in Positions(HalfApplied) \cup Positions(rows) : SameSpan(d, e)
    BY <2>2, <2>3, <2>6 DEF Settled
  <2>7. CASE \E e \in Positions(Done) : SameSpan(d, e) /\ Earlier(d, e)
    BY <2>1, <2>3, <2>7 DEF Settled, Earlier
  <2> QED BY <2>4, <2>5, <2>6, <2>7 DEF Settled
<1>6. ASSUME CommitControl, HalfApplied' = HalfApplied \ page, Done' = Done \cup page,
             NEW d \in Positions(Done)'
      PROVE  Settled(d)'
  <2>1. spans' = spans /\ page # {}
    BY <1>6 DEF CommitControl, analyticsVars
  <2>2. /\ Positions(Done)' = Positions(Done \cup page)
        /\ Positions(HalfApplied)' = Positions(HalfApplied \ page)
        /\ Positions(Done \cup page) = Positions(Done) \cup Positions(page)
        /\ Positions(HalfApplied) = Positions(HalfApplied \ page) \cup Positions(page)
    <3>1. Done \cup page \in SUBSET All /\ HalfApplied \ page \in SUBSET All
      BY <1>0
    <3>2. HalfApplied = (HalfApplied \ page) \cup page
      BY <1>0
    <3>3. Positions(HalfApplied) = Positions(HalfApplied \ page) \cup Positions(page)
      BY <3>2, PositionsOf
    <3> QED BY <1>1, <1>6, <3>1, <3>3, PositionsOf
  <2>3. /\ \A e \in Positions(Done) \cup Positions(HalfApplied) : e \in Positions(All)
        /\ d \in Positions(All)
    BY <1>0, <1>3, <2>2
  <2>4. Upsert(d)' = Upsert(d) /\ Upsert(d).trace \in Traces
    BY <1>0, <1>1, <2>3, PositionIs
  <2>5. ASSUME NEW e \in Positions(Done) \cup Positions(page), SameSpan(d, e), Earlier(d, e)
        PROVE  Settled(d)'
    <3>1. SameSpan(d, e)' /\ Earlier(d, e)'
      BY <1>2, <2>2, <2>3, <2>5 DEF Earlier
    <3> QED BY <2>2, <3>1 DEF Settled
  <2>6. \A t \in Traces : /\ logical[t].revision \in Nat /\ logical'[t].revision \in Nat
                          /\ logical[t].revision =< logical'[t].revision
    <3> SUFFICES ASSUME NEW t \in Traces
                 PROVE  /\ logical[t].revision \in Nat /\ logical'[t].revision \in Nat
                        /\ logical[t].revision =< logical'[t].revision
      OBVIOUS
    <3>1. logical[t].revision \in Nat /\ Target(t) \in Nat /\ logical[t].revision =< Target(t)
      BY <1>0 DEF TypeOK, TraceRows, Target
    <3> QED BY <1>6, <3>1, CommitControlRows
  <2>7. CASE d \in Positions(page) /\ ~\E e \in Positions(page) : SameSpan(d, e) /\ Earlier(d, e)
    <3>1. PICK s \in spans : /\ s.trace = Upsert(d).trace /\ s.id = Upsert(d).id
                             /\ s.revision = Target(Upsert(d).trace)
                             /\ s.current /\ s.content = Upsert(d).content
      BY <2>1, <2>7 DEF StagedIsTrue, ShowsUpsert
    <3>2. Upsert(d).trace \in Mentions(page)
      BY <2>7 DEF Mentions
    <3>3. s.revision <= logical'[s.trace].revision
      BY <1>6, <2>4, <2>6, <3>1, <3>2, CommitControlRows
    <3>4. \A x \in spans : x.trace = s.trace => x.revision <= s.revision
      BY <3>1 DEF RowsBound
    <3> QED BY <2>1, <2>4, <3>1, <3>3, <3>4 DEF Settled, ShownLast
  <2>8. CASE d \in Positions(Done)
    <3>1. CASE ShownLast(d)
      <4>1. ShownLast(d)'
        BY <1>0, <2>1, <2>4, <2>6, <3>1 DEF ShownLast
      <4> QED BY <4>1 DEF Settled
    <3>2. CASE \E e \in Positions(HalfApplied \ page) : SameSpan(d, e)
      <4>1. PICK e \in Positions(HalfApplied \ page) : SameSpan(d, e)
        BY <3>2
      <4>2. SameSpan(d, e)' /\ e \in Positions(HalfApplied)'
        BY <1>2, <2>2, <2>3, <4>1
      <4> QED BY <4>2 DEF Settled
    <3>3. ASSUME NEW e \in Positions(page), SameSpan(d, e) PROVE Settled(d)'
      <4>1. d[1] \in Done /\ e[1] \in HalfApplied /\ d[1] \in Nat /\ e[1] \in Nat
        BY <1>0, <2>8, PositionIs, PositionsOf
      <4>2. ~(e[1] =< d[1])
        <5>1. \A j \in 1..d[1] : journal[j].projected
          BY <4>1 DEF OrderInv, ProjectedInOrder, Done
        <5>2. e[1] # 0 /\ ~journal[e[1]].projected
          <6>1. e[1] \in 1..Len(journal)
            BY <1>0, PositionIs
          <6> QED BY <4>1, <6>1 DEF HalfApplied
        <5> QED BY <4>1, <5>1, <5>2
      <4>3. Earlier(d, e)
        BY <4>1, <4>2 DEF Earlier
      <4> QED BY <2>5, <3>3, <4>3
    <3> QED BY <1>4, <2>2, <2>5, <2>8, <3>1, <3>2, <3>3 DEF Settled
  <2> QED BY <1>6, <2>2, <2>5, <2>7, <2>8
<1>7. ASSUME HalfApplied' = HalfApplied, Done' = Done, spans' = spans,
             \A t \in Traces : logical'[t].revision = logical[t].revision,
             NEW d \in Positions(Done)'
      PROVE  Settled(d)'
  <2>1. Positions(Done)' = Positions(Done) /\ Positions(HalfApplied)' = Positions(HalfApplied)
    BY <1>0, <1>1, <1>7
  <2>2. /\ \A e \in Positions(Done) \cup Positions(HalfApplied) : e \in Positions(All)
        /\ d \in Positions(All)
    BY <1>0, <1>3, <1>7, <2>1
  <2>3. Upsert(d)' = Upsert(d)
    BY <1>1, <2>2
  <2>4. Settled(d)
    BY <1>4, <1>7, <2>1
  <2>5. ShownLast(d) => ShownLast(d)'
    BY <1>0, <1>7, <2>3 DEF ShownLast
  <2>6. \A e \in Positions(Done) \cup Positions(HalfApplied) : SameSpan(d, e)' <=> SameSpan(d, e)
    BY <1>2, <2>2
  <2> QED BY <2>1, <2>4, <2>5, <2>6 DEF Settled, Earlier
<1> QED
  BY <1>5, <1>6, <1>7, WorkMoves

(* The changes of a span, from the one that meets what was stored to the   *)
(* one that stays.                                                         *)
LEMMA FirstChange ==
  ASSUME TypeInv, VersionsWellFormed, NEW rows \in SUBSET (DOMAIN journal), NEW t, NEW i,
         Changed(rows, t, i) # {}
  PROVE  \E d \in Changed(rows, t, i) :
           /\ Prior(rows, d) = {} /\ Seen(rows, d) = {s.content : s \in Stored(d)}
<1>0. TypeOK
  BY DEF TypeInv
<1>1. Changed(rows, t, i) \in SUBSET Positions(rows)
  BY DEF Changed, Changes
<1>2. PICK d \in Changed(rows, t, i) : \A e \in Changed(rows, t, i) : d = e \/ Earlier(d, e)
  BY <1>0, <1>1, FirstPosition
<1>3. Prior(rows, d) = {}
  <2> SUFFICES ASSUME NEW e \in Changes(rows), SameSpan(e, d), Earlier(e, d) PROVE FALSE
    BY DEF Prior, BeforeIt
  <2>1. e \in Changed(rows, t, i)
    BY DEF Changed, OfSpan, SameSpan, Changes
  <2> QED BY <1>0, <1>1, <1>2, <2>1, EarlierIsTotal
<1> QED
  BY <1>1, <1>3, SeenIsPrior DEF SeesPrior

LEMMA NextChange ==
  ASSUME TypeInv, VersionsWellFormed, NEW rows \in SUBSET (DOMAIN journal),
         NEW c \in Changes(rows), ~IsLast(rows, c)
  PROVE  \E d \in Changes(rows) :
           /\ SameSpan(c, d) /\ c \in Prior(rows, d)
           /\ \A x \in Prior(rows, d) : x = c \/ Earlier(x, c)
           /\ Seen(rows, d) = {Upsert(c).content}
<1> DEFINE N == {e \in Changes(rows) : SameSpan(c, e) /\ Earlier(c, e)}
<1>0. TypeOK /\ c \in Positions(rows)
  BY DEF TypeInv, Changes
<1>1. N \in SUBSET Positions(rows) /\ N # {}
  BY DEF IsLast, Changes
<1>2. PICK d \in N : \A e \in N : d = e \/ Earlier(d, e)
  <2> HIDE DEF N
  <2> QED BY <1>0, <1>1, FirstPosition
<1>3. d \in Changes(rows) /\ d \in Positions(rows) /\ SameSpan(c, d) /\ Earlier(c, d)
  BY <1>1
<1>4. c \in Prior(rows, d)
  BY <1>0, <1>3 DEF Prior, BeforeIt
<1>5. ASSUME NEW x \in Prior(rows, d) PROVE x = c \/ Earlier(x, c)
  <2>1. x \in Changes(rows) /\ x \in Positions(rows) /\ SameSpan(c, x) /\ Earlier(x, d)
    BY <1>3 DEF Prior, BeforeIt, SameSpan
  <2>2. ~Earlier(c, x)
    <3>1. x \in N => d = x \/ Earlier(d, x)
      BY <1>2
    <3>2. ~(d = x \/ Earlier(d, x))
      BY <1>0, <1>3, <2>1, EarlierIsTotal
    <3> QED BY <2>1, <3>1, <3>2
  <2> QED BY <1>0, <2>1, <2>2, EarlierIsTotal
<1>6. PICK z \in Prior(rows, d) : /\ \A x \in Prior(rows, d) : x = z \/ Earlier(x, z)
                                  /\ Seen(rows, d) = {Upsert(z).content}
  BY <1>3, <1>4, SeenIsPrior DEF SeesPrior
<1>7. z = c
  <2>1. z \in Positions(rows)
    BY DEF Prior, Changes
  <2>2. (c = z \/ Earlier(c, z)) /\ (z = c \/ Earlier(z, c))
    BY <1>4, <1>5, <1>6
  <2> QED BY <1>0, <2>1, <2>2, EarlierIsTotal
<1> QED
  BY <1>3, <1>4, <1>5, <1>6, <1>7

LEMMA LastChange ==
  ASSUME TypeOK, NEW rows \in SUBSET (DOMAIN journal), NEW t, NEW i,
         Changed(rows, t, i) # {}
  PROVE  \E d \in Changed(rows, t, i) : IsLast(rows, d)
<1>1. Changed(rows, t, i) \in SUBSET Positions(rows)
  BY DEF Changed, Changes
<1>2. PICK d \in Changed(rows, t, i) : \A e \in Changed(rows, t, i) : d = e \/ Earlier(e, d)
  BY <1>1, LastPosition
<1> SUFFICES ASSUME NEW e \in Changes(rows), SameSpan(d, e), Earlier(d, e) PROVE FALSE
  BY DEF IsLast
<1>3. e \in Changed(rows, t, i)
  BY DEF Changed, OfSpan, SameSpan, Changes
<1> QED
  BY <1>1, <1>2, <1>3, EarlierIsTotal

(* A class of contents that a change never leaves is not lost by a page:   *)
(* what the span shows in the end is of the class.                         *)
LEMMA ClassSurvives ==
  ASSUME TypeInv, VersionsWellFormed, NEW rows \in SUBSET (DOMAIN journal), NEW t \in Traces,
         NEW G,
         \/ \E d \in ChangesOf(rows, t) : Upsert(d).content \in G
         \/ \E s \in Currents(spans, t, Target(t)) : s.content \in G,
         \A d \in ChangesOf(rows, t) : \A c \in Seen(rows, d) : c \in G => Upsert(d).content \in G
  PROVE  \E s \in Currents(SpansAfter(rows), t, Target(t)) : s.content \in G
<1> DEFINE E == {d \in ChangesOf(rows, t) : Upsert(d).content \in G}
<1>0. TypeOK
  BY DEF TypeInv
<1>1. CASE E # {}
  <2>1. E \in SUBSET Positions(rows)
    BY DEF ChangesOf, Changes
  <2>2. PICK c \in E : \A e \in E : c = e \/ Earlier(e, c)
    <3> HIDE DEF E
    <3> QED BY <1>0, <1>1, <2>1, LastPosition
  <2>3. c \in Changes(rows) /\ Upsert(c).trace = t /\ Upsert(c).content \in G
    BY DEF ChangesOf
  <2>4. CASE IsLast(rows, c)
    <3>1. NewRow(rows, c) \in Currents(SpansAfter(rows), t, Target(t))
      BY <1>0, <2>3, <2>4, CurrentsAfter DEF LastChanges, ChangesOf
    <3> QED BY <2>3, <3>1, NewRowIs
  <2>5. CASE ~IsLast(rows, c)
    <3>1. PICK d \in Changes(rows) : /\ SameSpan(c, d) /\ c \in Prior(rows, d)
                                     /\ Seen(rows, d) = {Upsert(c).content}
      BY <2>3, <2>5, NextChange
    <3>2. d \in E
      BY <2>3, <3>1 DEF ChangesOf, SameSpan
    <3>3. Earlier(c, d) /\ c \in Positions(rows) /\ d \in Positions(rows)
      BY <3>1 DEF Prior, BeforeIt, Changes
    <3>4. c = d \/ Earlier(d, c)
      BY <2>2, <3>2
    <3> QED BY <1>0, <3>3, <3>4, EarlierIsTotal
  <2> QED BY <2>4, <2>5
<1>2. CASE E = {}
  <2>1. PICK s \in Currents(spans, t, Target(t)) : s.content \in G
    BY <1>2
  <2>2. CASE Changed(rows, t, s.id) = {}
    BY <1>0, <2>1, <2>2, CurrentsAfter DEF Unchanged
  <2>3. CASE Changed(rows, t, s.id) # {}
    <3>1. PICK d \in Changed(rows, t, s.id) : Seen(rows, d) = {x.content : x \in Stored(d)}
      BY <2>3, FirstChange
    <3>2. s \in Stored(d) /\ d \in ChangesOf(rows, t)
      BY <2>1 DEF Stored, Currents, Changed, OfSpan, ChangesOf
    <3>3. s.content \in Seen(rows, d)
      BY <3>1, <3>2
    <3> QED BY <1>2, <2>1, <3>2, <3>3
  <2> QED BY <2>2, <2>3
<1> QED
  BY <1>1, <1>2

(* Counting by identity.                                                   *)
LEMMA ImageSize ==
  ASSUME NEW S, IsFiniteSet(S), NEW f, \A x, y \in S : f[x] = f[y] => x = y
  PROVE  /\ IsFiniteSet({f[x] : x \in S})
         /\ Cardinality({f[x] : x \in S}) = Cardinality(S)
<1> DEFINE T == {f[x] : x \in S}
           g == [x \in S |-> f[x]]
<1>1. g \in Bijection(S, T)
  BY DEF Bijection, Injection, IsInjective, Surjection
<1> HIDE DEF T, g
<1>2. IsFiniteSet(T)
  BY <1>1, FS_Surjection DEF Bijection
<1>3. Cardinality(T) = Cardinality(S)
  BY <1>1, <1>2, FS_Bijection DEF ExistsBijection
<1> QED
  BY <1>2, <1>3 DEF T

LEMMA DisjointSize ==
  ASSUME NEW S, NEW T, IsFiniteSet(S), IsFiniteSet(T), S \cap T = {}
  PROVE  /\ IsFiniteSet(S \cup T) /\ Cardinality(S) \in Nat /\ Cardinality(T) \in Nat
         /\ Cardinality(S \cup T) = Cardinality(S) + Cardinality(T)
<1>1. Cardinality(S \cap T) = 0
  BY FS_EmptySet
<1>2. Cardinality(S) \in Nat /\ Cardinality(T) \in Nat
  BY FS_CardinalityType
<1>3. /\ IsFiniteSet(S \cup T)
      /\ Cardinality(S \cup T) = Cardinality(S) + Cardinality(T) - Cardinality(S \cap T)
  BY FS_Union
<1> QED
  BY <1>1, <1>2, <1>3

(* A span shows one row of a revision, before a page and after it.         *)
LEMMA CurrentsAreOne ==
  ASSUME NEW table, IsFiniteSet(table), NEW t, NEW r,
         \A s \in table : VersionsTrue(Versions(table, s.trace, s.revision, s.id))
  PROVE  /\ IsFiniteSet(Currents(table, t, r))
         /\ \A x, y \in Currents(table, t, r) : x.id = y.id => x = y
<1>1. Currents(table, t, r) \in SUBSET table
  BY DEF Currents
<1>2. ASSUME NEW x \in Currents(table, t, r), NEW y \in Currents(table, t, r), x.id = y.id
      PROVE  x = y
  <2>1. /\ x \in Versions(table, t, r, x.id) /\ y \in Versions(table, t, r, x.id)
        /\ VersionsTrue(Versions(table, t, r, x.id)) /\ x.current /\ y.current
    BY <1>2 DEF Currents, Versions
  <2>2. IsFiniteSet(Versions(table, t, r, x.id))
    BY VersionsFinite
  <2> QED BY <2>1, <2>2, OneIsCurrent
<1> QED
  BY <1>1, <1>2, FS_Subset

(* The changes that find nothing are those of spans a revision did not     *)
(* have, one for each.                                                     *)
Fresh(rows, t) == {d \in ChangesOf(rows, t) : Seen(rows, d) = {}}

LEMMA FreshIs ==
  ASSUME TypeInv, VersionsWellFormed, NEW rows \in SUBSET (DOMAIN journal), NEW t \in Traces
  PROVE  /\ IsFiniteSet(ChangesOf(rows, t))
         /\ \A d \in Fresh(rows, t) : \A s \in Currents(spans, t, Target(t)) : s.id # Upsert(d).id
         /\ \A d, e \in Fresh(rows, t) : Upsert(d).id = Upsert(e).id => d = e
<1>0. TypeOK
  BY DEF TypeInv
<1>1. ASSUME NEW d \in Fresh(rows, t)
      PROVE  /\ d \in Changes(rows) /\ d \in Positions(rows) /\ Upsert(d).trace = t
             /\ Prior(rows, d) = {} /\ Stored(d) = {}
  <2>1. d \in Changes(rows) /\ d \in Positions(rows) /\ Upsert(d).trace = t /\ Seen(rows, d) = {}
    BY DEF Fresh, ChangesOf, Changes
  <2>2. SeesPrior(rows, d)
    BY <2>1, SeenIsPrior
  <2>3. Prior(rows, d) = {} /\ {s.content : s \in Stored(d)} = {}
    BY <2>1, <2>2 DEF SeesPrior
  <2> QED BY <2>1, <2>3
<1>2. ASSUME NEW d \in Fresh(rows, t), NEW s \in Currents(spans, t, Target(t))
      PROVE  s.id # Upsert(d).id
  BY <1>1 DEF Currents, Stored
<1>3. ASSUME NEW d \in Fresh(rows, t), NEW e \in Fresh(rows, t), Upsert(d).id = Upsert(e).id
      PROVE  d = e
  <2>1. SameSpan(d, e) /\ SameSpan(e, d)
    BY <1>1, <1>3 DEF SameSpan
  <2>2. ~Earlier(d, e) /\ ~Earlier(e, d)
    BY <1>1, <2>1 DEF Prior, BeforeIt
  <2> QED BY <1>0, <1>1, <2>2, EarlierIsTotal
<1>4. IsFiniteSet(ChangesOf(rows, t))
  <2>1. ChangesOf(rows, t) \in SUBSET Changes(rows)
    BY DEF ChangesOf
  <2> QED BY <1>0, <2>1, ChangesFinite, FS_Subset
<1> QED
  BY <1>2, <1>3, <1>4

LEMMA CountAfter ==
  ASSUME TypeInv, VersionsWellFormed, NEW rows \in SUBSET (DOMAIN journal), NEW t \in Traces
  PROVE  /\ Cardinality(Currents(spans, t, Target(t))) \in Nat
         /\ Cardinality(Fresh(rows, t)) \in Nat
         /\ IsFiniteSet(Currents(SpansAfter(rows), t, Target(t)))
         /\ Cardinality(Currents(SpansAfter(rows), t, Target(t)))
              = Cardinality(Currents(spans, t, Target(t))) + Cardinality(Fresh(rows, t))
<1> DEFINE A == Currents(spans, t, Target(t))
           B == Currents(SpansAfter(rows), t, Target(t))
           F == Fresh(rows, t)
           idA == [s \in A |-> s.id]
           idB == [s \in B |-> s.id]
           idF == [d \in F |-> Upsert(d).id]
           IdsA == {idA[s] : s \in A}
           IdsB == {idB[s] : s \in B}
           IdsF == {idF[d] : d \in F}
<1>0. TypeOK /\ IsFiniteSet(spans)
  BY DEF TypeInv
<1>1. IsFiniteSet(A) /\ \A x, y \in A : x.id = y.id => x = y
  BY <1>0, VersionsOfSpans, CurrentsAreOne
<1>2. IsFiniteSet(B) /\ \A x, y \in B : x.id = y.id => x = y
  <2>1. IsFiniteSet(SpansAfter(rows))
    BY <1>0, SpansAfterTyped
  <2>2. \A s \in SpansAfter(rows) :
          VersionsTrue(Versions(SpansAfter(rows), s.trace, s.revision, s.id))
    BY PageVersions
  <2> QED BY <2>1, <2>2, CurrentsAreOne
<1>3. IsFiniteSet(F)
  <2>1. F \in SUBSET ChangesOf(rows, t)
    BY DEF Fresh
  <2> HIDE DEF F
  <2> QED BY <2>1, FreshIs, FS_Subset
<1>4. IsFiniteSet(IdsA) /\ Cardinality(IdsA) = Cardinality(A)
  <2>1. \A x, y \in A : idA[x] = idA[y] => x = y
    BY <1>1
  <2> HIDE DEF A, idA
  <2> QED BY <1>1, <2>1, ImageSize
<1>5. IsFiniteSet(IdsB) /\ Cardinality(IdsB) = Cardinality(B)
  <2>1. \A x, y \in B : idB[x] = idB[y] => x = y
    BY <1>2
  <2> HIDE DEF B, idB
  <2> QED BY <1>2, <2>1, ImageSize
<1>6. IsFiniteSet(IdsF) /\ Cardinality(IdsF) = Cardinality(F)
  <2>1. \A x, y \in F : idF[x] = idF[y] => x = y
    BY FreshIs
  <2> HIDE DEF F, idF
  <2> QED BY <1>3, <2>1, ImageSize
<1>7. IdsA \cap IdsF = {}
  <2> SUFFICES ASSUME NEW s \in A, NEW d \in F, s.id = Upsert(d).id PROVE FALSE
    OBVIOUS
  <2> QED BY FreshIs
<1>8. ASSUME NEW i, Changed(rows, t, i) # {} PROVE i \in IdsB
  <2>1. PICK d \in Changed(rows, t, i) : IsLast(rows, d)
    BY <1>0, <1>8, LastChange
  <2>2. d \in LastChanges(rows, t) /\ Upsert(d).id = i
    BY <2>1 DEF Changed, OfSpan, LastChanges, ChangesOf
  <2>3. NewRow(rows, d) \in B /\ NewRow(rows, d).id = i
    BY <1>0, <2>2, CurrentsAfter, NewRowIs
  <2> QED BY <2>3
<1>9. ASSUME NEW i, Changed(rows, t, i) # {} PROVE i \in IdsA \cup IdsF
  <2>1. PICK d \in Changed(rows, t, i) : /\ Prior(rows, d) = {}
                                         /\ Seen(rows, d) = {s.content : s \in Stored(d)}
    BY <1>9, FirstChange
  <2>2. d \in ChangesOf(rows, t) /\ Upsert(d).id = i /\ Upsert(d).trace = t
    BY DEF Changed, OfSpan, ChangesOf
  <2>3. CASE Stored(d) = {}
    BY <2>1, <2>2, <2>3 DEF Fresh
  <2>4. CASE Stored(d) # {}
    <3>1. PICK s \in Stored(d) : TRUE
      BY <2>4
    <3>2. s \in A /\ s.id = i
      BY <2>2 DEF Stored, Currents
    <3> QED BY <3>2
  <2> QED BY <2>3, <2>4
<1>10. IdsB = IdsA \cup IdsF
  <2>1. ASSUME NEW s \in A PROVE s.id \in IdsB
    <3>1. CASE Changed(rows, t, s.id) = {}
      <4>1. s \in B
        BY <1>0, <3>1, CurrentsAfter DEF Unchanged
      <4> QED BY <4>1
    <3> QED BY <1>8, <3>1
  <2>2. ASSUME NEW d \in F PROVE Upsert(d).id \in IdsB
    <3>1. d \in Changed(rows, t, Upsert(d).id)
      BY DEF Fresh, ChangesOf, Changed, OfSpan, Changes
    <3> QED BY <1>8, <3>1
  <2>3. ASSUME NEW x \in B PROVE x.id \in IdsA \cup IdsF
    <3>1. CASE x \in A
      BY <3>1
    <3>2. CASE x \in {NewRow(rows, d) : d \in LastChanges(rows, t)}
      <4>1. PICK d \in LastChanges(rows, t) : x = NewRow(rows, d)
        BY <3>2
      <4>2. d \in Changed(rows, t, x.id)
        BY <4>1, NewRowIs DEF LastChanges, ChangesOf, Changed, OfSpan, Changes
      <4> QED BY <1>9, <4>2
    <3> QED BY <1>0, <3>1, <3>2, CurrentsAfter DEF Unchanged
  <2> QED BY <2>1, <2>2, <2>3
<1>11. Cardinality(IdsB) = Cardinality(IdsA) + Cardinality(IdsF)
       /\ Cardinality(IdsA) \in Nat /\ Cardinality(IdsF) \in Nat
  <2> HIDE DEF IdsA, IdsB, IdsF
  <2> QED BY <1>4, <1>6, <1>7, <1>10, DisjointSize
<1> QED
  BY <1>2, <1>4, <1>5, <1>6, <1>11

(* An erroneous content is either shown in the end, or one change has      *)
(* replaced it: what the incremental count adds and takes off.             *)
Erroneous(S) == {s \in S : s.content.error}
NowErrors(rows, t) == {d \in ChangesOf(rows, t) : Upsert(d).content.error}
WereErrors(rows, t) == {d \in ChangesOf(rows, t) : \E c \in Seen(rows, d) : c.error}

(* Replacing a change of the page: the predecessor of a change.            *)
LEMMA ReplacedChanges ==
  ASSUME TypeInv, VersionsWellFormed, NEW rows \in SUBSET (DOMAIN journal), NEW t \in Traces
  PROVE  Cardinality({d \in WereErrors(rows, t) : Prior(rows, d) # {}})
           = Cardinality({d \in NowErrors(rows, t) : ~IsLast(rows, d)})
<1> DEFINE W == {d \in WereErrors(rows, t) : Prior(rows, d) # {}}
           N == {d \in NowErrors(rows, t) : ~IsLast(rows, d)}
           Greatest(d, c) == c \in Prior(rows, d) /\ \A x \in Prior(rows, d) : x = c \/ Earlier(x, c)
           pred == [d \in W |-> CHOOSE c : Greatest(d, c)]
<1>0. TypeOK
  BY DEF TypeInv
<1>1. ASSUME NEW d, NEW c, NEW z, Greatest(d, c), Greatest(d, z) PROVE c = z
  <2>1. c \in Positions(rows) /\ z \in Positions(rows)
    BY <1>1 DEF Prior, Changes
  <2> QED BY <1>0, <1>1, <2>1, EarlierIsTotal
<1>2. ASSUME NEW d, NEW c, Greatest(d, c), d \in W PROVE pred[d] = c
  BY <1>1, <1>2
<1>3. ASSUME NEW d \in W
      PROVE  /\ Greatest(d, pred[d]) /\ Seen(rows, d) = {Upsert(pred[d]).content}
             /\ d \in Changes(rows) /\ d \in Positions(rows) /\ Upsert(d).trace = t
  <2>1. d \in Changes(rows) /\ d \in Positions(rows) /\ Prior(rows, d) # {} /\ Upsert(d).trace = t
    BY DEF WereErrors, ChangesOf, Changes
  <2>2. PICK c \in Prior(rows, d) : /\ \A x \in Prior(rows, d) : x = c \/ Earlier(x, c)
                                    /\ Seen(rows, d) = {Upsert(c).content}
    BY <2>1, SeenIsPrior DEF SeesPrior
  <2>3. Greatest(d, c)
    BY <2>2
  <2>4. pred[d] = c
    BY <1>2, <2>3
  <2> QED BY <2>1, <2>2, <2>3, <2>4
<1>4. ASSUME NEW d \in W PROVE pred[d] \in N
  <2> DEFINE c == pred[d]
  <2>1. /\ c \in Changes(rows) /\ SameSpan(c, d) /\ Earlier(c, d)
        /\ Seen(rows, d) = {Upsert(c).content} /\ d \in Changes(rows) /\ Upsert(d).trace = t
    BY <1>3 DEF Prior, BeforeIt
  <2>2. \E x \in Seen(rows, d) : x.error
    BY DEF WereErrors
  <2>3. Upsert(c).content.error
    BY <2>1, <2>2
  <2>4. ~IsLast(rows, c) /\ Upsert(c).trace = t
    BY <2>1 DEF IsLast, SameSpan
  <2> QED BY <2>1, <2>3, <2>4 DEF NowErrors, ChangesOf
<1>5. ASSUME NEW c \in N PROVE \E d \in W : pred[d] = c
  <2>1. c \in Changes(rows) /\ ~IsLast(rows, c) /\ Upsert(c).content.error /\ Upsert(c).trace = t
    BY DEF NowErrors, ChangesOf
  <2>2. PICK d \in Changes(rows) : /\ SameSpan(c, d) /\ c \in Prior(rows, d)
                                   /\ \A x \in Prior(rows, d) : x = c \/ Earlier(x, c)
                                   /\ Seen(rows, d) = {Upsert(c).content}
    BY <2>1, NextChange
  <2>3. d \in W
    BY <2>1, <2>2 DEF WereErrors, ChangesOf, SameSpan
  <2>4. Greatest(d, c)
    BY <2>2
  <2> QED BY <1>2, <2>3, <2>4
<1>6. ASSUME NEW d \in W, NEW e \in W, pred[d] = pred[e] PROVE d = e
  <2> DEFINE c == pred[d]
  <2>1. Greatest(d, c) /\ Greatest(e, c)
    BY <1>3, <1>6
  <2>2. /\ c \in Positions(rows) /\ d \in Positions(rows) /\ e \in Positions(rows)
        /\ d \in Changes(rows) /\ e \in Changes(rows)
        /\ SameSpan(c, d) /\ SameSpan(c, e) /\ Earlier(c, d) /\ Earlier(c, e)
    BY <1>3, <2>1 DEF Prior, BeforeIt, Changes
  <2>3. SameSpan(d, e) /\ SameSpan(e, d)
    BY <2>2 DEF SameSpan
  <2>4. Earlier(d, e) => d = c \/ Earlier(d, c)
    BY <2>1, <2>2, <2>3 DEF Prior, BeforeIt
  <2>5. Earlier(e, d) => e = c \/ Earlier(e, c)
    BY <2>1, <2>2, <2>3 DEF Prior, BeforeIt
  <2> HIDE DEF c
  <2> QED BY <1>0, <2>2, <2>4, <2>5, EarlierIsTotal
<1>7. IsFiniteSet(W)
  <2>1. W \in SUBSET ChangesOf(rows, t)
    BY DEF WereErrors
  <2> HIDE DEF W
  <2> QED BY <2>1, FreshIs, FS_Subset
<1>8. {pred[d] : d \in W} = N
  <2> HIDE DEF W, N, pred
  <2> QED BY <1>4, <1>5
<1>9. \A d, e \in W : pred[d] = pred[e] => d = e
  <2> HIDE DEF W, pred
  <2> QED BY <1>6
<1> HIDE DEF W, N, pred
<1>10. Cardinality(W) = Cardinality(N)
  BY <1>7, <1>8, <1>9, ImageSize
<1> QED
  BY <1>10 DEF W, N

(* Replacing a row of DuckDB: the first change of its span.                *)
LEMMA ReplacedRows ==
  ASSUME TypeInv, VersionsWellFormed, NEW rows \in SUBSET (DOMAIN journal), NEW t \in Traces
  PROVE  LET A == Erroneous(Currents(spans, t, Target(t)))
         IN  Cardinality({d \in WereErrors(rows, t) : Prior(rows, d) = {}})
               = Cardinality({s \in A : Changed(rows, t, s.id) # {}})
<1> DEFINE A == Currents(spans, t, Target(t))
           W == {d \in WereErrors(rows, t) : Prior(rows, d) = {}}
           R == {s \in Erroneous(A) : Changed(rows, t, s.id) # {}}
           idW == [d \in W |-> Upsert(d).id]
           idR == [s \in R |-> s.id]
           IdsW == {idW[d] : d \in W}
           IdsR == {idR[s] : s \in R}
<1>0. TypeOK /\ IsFiniteSet(spans)
  BY DEF TypeInv
<1>1. IsFiniteSet(A) /\ \A x, y \in A : x.id = y.id => x = y
  BY <1>0, VersionsOfSpans, CurrentsAreOne
<1>2. IsFiniteSet(W) /\ IsFiniteSet(R)
  <2>1. W \in SUBSET ChangesOf(rows, t) /\ R \in SUBSET A
    BY DEF WereErrors, Erroneous
  <2> HIDE DEF W, R, A
  <2> QED BY <1>1, <2>1, FreshIs, FS_Subset
<1>3. ASSUME NEW d \in W
      PROVE  /\ d \in Changes(rows) /\ d \in Positions(rows) /\ Upsert(d).trace = t
             /\ d \in Changed(rows, t, Upsert(d).id)
             /\ Prior(rows, d) = {} /\ Seen(rows, d) = {s.content : s \in Stored(d)}
             /\ \E c \in Seen(rows, d) : c.error
  <2>1. d \in Changes(rows) /\ d \in Positions(rows) /\ Prior(rows, d) = {} /\ Upsert(d).trace = t
        /\ \E c \in Seen(rows, d) : c.error
    BY DEF WereErrors, ChangesOf, Changes
  <2> QED BY <2>1, SeenIsPrior DEF SeesPrior, Changed, OfSpan
<1>4. ASSUME NEW d \in W PROVE Upsert(d).id \in IdsR
  <2>1. PICK s \in Stored(d) : s.content.error
    BY <1>3
  <2>2. s \in A /\ s.id = Upsert(d).id
    BY <1>3 DEF Stored, Currents
  <2>3. s \in R
    BY <1>3, <2>1, <2>2 DEF Erroneous
  <2> QED BY <2>2, <2>3
<1>5. ASSUME NEW s \in R PROVE s.id \in IdsW
  <2>1. s \in A /\ s.content.error /\ Changed(rows, t, s.id) # {}
    BY DEF Erroneous
  <2>2. PICK d \in Changed(rows, t, s.id) :
          Prior(rows, d) = {} /\ Seen(rows, d) = {x.content : x \in Stored(d)}
    BY <2>1, FirstChange
  <2>3. s \in Stored(d) /\ d \in ChangesOf(rows, t) /\ Upsert(d).id = s.id
    BY <2>1 DEF Stored, Currents, Changed, OfSpan, ChangesOf
  <2>4. d \in W
    BY <2>1, <2>2, <2>3 DEF WereErrors
  <2> QED BY <2>3, <2>4
<1>6. ASSUME NEW d \in W, NEW e \in W, Upsert(d).id = Upsert(e).id PROVE d = e
  <2>1. SameSpan(d, e) /\ SameSpan(e, d)
    BY <1>3, <1>6 DEF SameSpan
  <2>2. ~Earlier(d, e) /\ ~Earlier(e, d)
    BY <1>3, <2>1 DEF Prior, BeforeIt
  <2>3. d \in Positions(rows) /\ e \in Positions(rows)
    BY <1>3
  <2> HIDE DEF W
  <2> QED BY <1>0, <2>2, <2>3, EarlierIsTotal
<1>7. IdsW = IdsR
  BY <1>4, <1>5
<1>8. Cardinality(IdsW) = Cardinality(W)
  <2>1. \A d, e \in W : idW[d] = idW[e] => d = e
    BY <1>6
  <2> HIDE DEF W, idW
  <2> QED BY <1>2, <2>1, ImageSize
<1>9. Cardinality(IdsR) = Cardinality(R)
  <2>1. \A x, y \in R : idR[x] = idR[y] => x = y
    BY <1>1 DEF Erroneous
  <2> HIDE DEF R, idR
  <2> QED BY <1>2, <2>1, ImageSize
<1> HIDE DEF W, R, IdsW, IdsR
<1>10. Cardinality(W) = Cardinality(R)
  BY <1>7, <1>8, <1>9
<1> QED
  BY <1>10 DEF W, R

LEMMA ErrorsAfter ==
  ASSUME TypeInv, VersionsWellFormed, NEW rows \in SUBSET (DOMAIN journal), NEW t \in Traces
  PROVE  LET before == Cardinality(Erroneous(Currents(spans, t, Target(t))))
             after == Cardinality(Erroneous(Currents(SpansAfter(rows), t, Target(t))))
         IN  /\ before \in Nat /\ after \in Nat
             /\ Cardinality(NowErrors(rows, t)) \in Nat /\ Cardinality(WereErrors(rows, t)) \in Nat
             /\ after = before + Cardinality(NowErrors(rows, t)) - Cardinality(WereErrors(rows, t))
<1> DEFINE A == Currents(spans, t, Target(t))
           EA == Erroneous(A)
           EA0 == {s \in EA : Changed(rows, t, s.id) = {}}
           EA1 == {s \in EA : Changed(rows, t, s.id) # {}}
           EM == NowErrors(rows, t)
           EM0 == {d \in EM : IsLast(rows, d)}
           EM1 == {d \in EM : ~IsLast(rows, d)}
           WM == WereErrors(rows, t)
           WM0 == {d \in WM : Prior(rows, d) = {}}
           WM1 == {d \in WM : Prior(rows, d) # {}}
           EB == Erroneous(Currents(SpansAfter(rows), t, Target(t)))
           row == [d \in EM0 |-> NewRow(rows, d)]
           Rows == {row[d] : d \in EM0}
<1>0. TypeOK /\ IsFiniteSet(spans)
  BY DEF TypeInv
<1>1. /\ IsFiniteSet(EA0) /\ IsFiniteSet(EA1) /\ IsFiniteSet(EM0) /\ IsFiniteSet(EM1)
      /\ IsFiniteSet(WM0) /\ IsFiniteSet(WM1)
  <2>1. IsFiniteSet(A) /\ IsFiniteSet(ChangesOf(rows, t))
    BY <1>0, VersionsOfSpans, CurrentsAreOne, FreshIs
  <2>2. EA0 \in SUBSET A /\ EA1 \in SUBSET A
    BY DEF Erroneous
  <2>3. /\ EM0 \in SUBSET ChangesOf(rows, t) /\ EM1 \in SUBSET ChangesOf(rows, t)
        /\ WM0 \in SUBSET ChangesOf(rows, t) /\ WM1 \in SUBSET ChangesOf(rows, t)
    BY DEF NowErrors, WereErrors
  <2> HIDE DEF A, EA0, EA1, EM0, EM1, WM0, WM1
  <2> QED BY <2>1, <2>2, <2>3, FS_Subset
<1>2. /\ EA = EA0 \cup EA1 /\ EA0 \cap EA1 = {}
      /\ EM = EM0 \cup EM1 /\ EM0 \cap EM1 = {}
      /\ WM = WM0 \cup WM1 /\ WM0 \cap WM1 = {}
  OBVIOUS
<1>3. ASSUME NEW d \in EM0
      PROVE  /\ d \in LastChanges(rows, t) /\ Upsert(d).content.error /\ d \in Positions(rows)
             /\ d \in Changes(rows) /\ Upsert(d).trace = t /\ IsLast(rows, d)
             /\ Changed(rows, t, Upsert(d).id) # {}
  BY DEF NowErrors, LastChanges, ChangesOf, Changed, OfSpan, Changes
<1>4. EB = EA0 \cup Rows
  <2>1. Currents(SpansAfter(rows), t, Target(t)) =
          Unchanged(rows, t, A) \cup {NewRow(rows, d) : d \in LastChanges(rows, t)}
    BY <1>0, CurrentsAfter
  <2>2. Erroneous(Unchanged(rows, t, A)) = EA0
    BY DEF Erroneous, Unchanged
  <2>3. Erroneous({NewRow(rows, d) : d \in LastChanges(rows, t)}) = Rows
    <3>1. \A d \in LastChanges(rows, t) :
            NewRow(rows, d).content.error = Upsert(d).content.error
      BY NewRowIs
    <3>2. ASSUME NEW d \in LastChanges(rows, t), Upsert(d).content.error PROVE d \in EM0
      BY <3>2 DEF LastChanges, NowErrors
    <3> QED BY <1>3, <3>1, <3>2 DEF Erroneous
  <2> HIDE DEF A, EA0, Rows
  <2> QED BY <2>1, <2>2, <2>3 DEF Erroneous
<1>5. EA0 \cap Rows = {}
  <2> SUFFICES ASSUME NEW s \in EA0, NEW d \in EM0, s = NewRow(rows, d) PROVE FALSE
    OBVIOUS
  <2> QED BY <1>3, NewRowIs
<1>6. IsFiniteSet(Rows) /\ Cardinality(Rows) = Cardinality(EM0)
  <2>1. ASSUME NEW d \in EM0, NEW e \in EM0, row[d] = row[e] PROVE d = e
    <3>1. Upsert(d).id = Upsert(e).id
      <4>1. NewRow(rows, d).id = Upsert(d).id /\ NewRow(rows, e).id = Upsert(e).id
        BY NewRowIs
      <4> QED BY <2>1, <4>1
    <3>2. SameSpan(d, e) /\ SameSpan(e, d)
      BY <1>3, <3>1 DEF SameSpan
    <3>3. ~Earlier(d, e) /\ ~Earlier(e, d)
      BY <1>3, <3>2 DEF IsLast
    <3>4. d \in Positions(rows) /\ e \in Positions(rows)
      BY <1>3
    <3> HIDE DEF row, EM0
    <3> QED BY <1>0, <3>3, <3>4, EarlierIsTotal
  <2> HIDE DEF EM0, row
  <2> QED BY <1>1, <2>1, ImageSize
<1>7. Cardinality(WM0) = Cardinality(EA1) /\ Cardinality(WM1) = Cardinality(EM1)
  BY ReplacedRows, ReplacedChanges
<1> HIDE DEF EA0, EA1, EM0, EM1, WM0, WM1, Rows, EA, EM, WM, EB
<1>8. /\ Cardinality(EA0) \in Nat /\ Cardinality(EA1) \in Nat
      /\ Cardinality(EA) = Cardinality(EA0) + Cardinality(EA1)
  BY <1>1, <1>2, DisjointSize
<1>9. /\ Cardinality(EM0) \in Nat /\ Cardinality(EM1) \in Nat
      /\ Cardinality(EM) = Cardinality(EM0) + Cardinality(EM1)
  BY <1>1, <1>2, DisjointSize
<1>10. Cardinality(WM) = Cardinality(WM0) + Cardinality(WM1)
  BY <1>1, <1>2, DisjointSize
<1>11. Cardinality(EB) = Cardinality(EA0) + Cardinality(Rows)
  BY <1>1, <1>4, <1>5, <1>6, DisjointSize
<1>12. /\ Cardinality(EA) \in Nat /\ Cardinality(EB) \in Nat
       /\ Cardinality(EM) \in Nat /\ Cardinality(WM) \in Nat
       /\ Cardinality(EB) = Cardinality(EA) + Cardinality(EM) - Cardinality(WM)
  BY <1>6, <1>7, <1>8, <1>9, <1>10, <1>11
<1> QED
  BY <1>12 DEF EA, EB, EM, WM

(* The boundaries.  One that no change has moved inwards is still attained *)
(* by a row.                                                               *)
LEMMA MinIs ==
  ASSUME NEW n \in Nat, NEW S \in SUBSET (0..n), S # {}
  PROVE  Min(S) \in S /\ \A y \in S : Min(S) =< y
<1>1. \E x \in S : \A y \in S : x =< y
  BY LeastExists
<1> QED
  BY <1>1 DEF Min

LEMMA MaxIs ==
  ASSUME NEW n \in Nat, NEW S \in SUBSET (0..n), S # {}
  PROVE  Max(S) \in S /\ \A y \in S : y =< Max(S)
<1>1. \E x \in S : \A y \in S : y =< x
  BY GreatestExists
<1>2. \E x \in S : \A y \in S : x >= y
  BY <1>1
<1> QED
  BY <1>2 DEF Max

LEMMA MinUnique ==
  ASSUME NEW n \in Nat, NEW S \in SUBSET (0..n), NEW x \in S, \A y \in S : x =< y
  PROVE  Min(S) = x
<1>1. PICK z \in S : z = Min(S) /\ \A y \in S : z =< y
  BY MinIs
<1>2. z \in Int /\ x \in Int /\ z =< x /\ x =< z
  BY <1>1
<1>3. z = x
  BY <1>2
<1> QED
  BY <1>1, <1>3

LEMMA MaxUnique ==
  ASSUME NEW n \in Nat, NEW S \in SUBSET (0..n), NEW x \in S, \A y \in S : y =< x
  PROVE  Max(S) = x
<1>1. PICK z \in S : z = Max(S) /\ \A y \in S : y =< z
  BY MaxIs
<1>2. z \in Int /\ x \in Int /\ z =< x /\ x =< z
  BY <1>1
<1>3. z = x
  BY <1>2
<1> QED
  BY <1>1, <1>3

KeptBoundary(t, x) == IF BaseSummary(t).count > 0 THEN {x} ELSE {}
Starts(t, S) == KeptBoundary(t, BaseSummary(t).start) \cup {Upsert(e).content.start : e \in S}
Ends(t, S) == KeptBoundary(t, BaseSummary(t).end) \cup {Upsert(e).content.end : e \in S}
UpTo(rows, t, d) == {e \in ChangesOf(rows, t) : Earlier(e, d)}

(* What a true summary says of the boundaries of the rows.                 *)
LEMMA SummaryIs ==
  ASSUME NEW table \in SUBSET SpanRows, IsFiniteSet(table), NEW t, NEW r
  PROVE  LET A == Currents(table, t, r)
             full == FullSummary(table, t, r)
         IN  /\ full.count = Cardinality(A) /\ full.errors = Cardinality(Erroneous(A))
             /\ full.count > 0 <=> A # {}
             /\ A # {} => /\ full.start = Min({s.content.start : s \in A})
                          /\ full.end = Max({s.content.end : s \in A})
<1> DEFINE A == Currents(table, t, r)
<1>1. A \in SUBSET table
  BY DEF Currents
<1>2. IsFiniteSet(A) /\ Cardinality(A) \in Nat /\ (Cardinality(A) = 0 <=> A = {})
  <2> HIDE DEF A
  <2> QED BY <1>1, FS_Subset, FS_CardinalityType, FS_EmptySet
<1>3. FullSummary(table, t, r) = IF A = {} THEN NoSummary
        ELSE [count |-> Cardinality(A), errors |-> Cardinality(Erroneous(A)),
              start |-> Min({s.content.start : s \in A}), end |-> Max({s.content.end : s \in A})]
  BY DEF FullSummary, Currents, Erroneous
<1>4. A = {} => Erroneous(A) = {}
  BY DEF Erroneous
<1> HIDE DEF A
<1>5. CASE A = {}
  <2>1. FullSummary(table, t, r) = NoSummary /\ Cardinality(A) = 0
        /\ Cardinality(Erroneous(A)) = 0
    BY <1>2, <1>3, <1>4, <1>5
  <2>2. NoSummary.count = 0 /\ NoSummary.errors = 0
    BY DEF NoSummary
  <2> QED BY <1>5, <2>1, <2>2 DEF A
<1>6. CASE A # {}
  <2>1. FullSummary(table, t, r) =
          [count |-> Cardinality(A), errors |-> Cardinality(Erroneous(A)),
           start |-> Min({s.content.start : s \in A}), end |-> Max({s.content.end : s \in A})]
    BY <1>3, <1>6
  <2>2. Cardinality(A) > 0
    BY <1>2, <1>6
  <2> QED BY <1>6, <2>1, <2>2 DEF A
<1> QED
  BY <1>5, <1>6

LEMMA BoundariesTyped ==
  ASSUME TypeInv, NEW rows \in SUBSET (DOMAIN journal), NEW t \in Traces,
         NEW S \in SUBSET Positions(rows)
  PROVE  /\ MaxTime \in Nat
         /\ Starts(t, S) \in SUBSET (0..MaxTime) /\ Ends(t, S) \in SUBSET (0..MaxTime)
         /\ \A s \in SpansAfter(rows) \cup spans :
              /\ s.content \in Contents
              /\ s.content.start \in 0..MaxTime /\ s.content.end \in 0..MaxTime
         /\ \A d \in Positions(rows) : Upsert(d).content \in Contents
<1>0. TypeOK /\ IsFiniteSet(spans)
  BY DEF TypeInv
<1>1. \A c \in Contents : c.start \in 0..MaxTime /\ c.end \in 0..MaxTime
  BY ProjectionAssumption
<1>2. \A d \in Positions(rows) : Upsert(d).content \in Contents
  BY <1>0, PositionIs
<1>3. BaseSummary(t).start \in 0..MaxTime /\ BaseSummary(t).end \in 0..MaxTime
  BY <1>0, BaseSummaryTyped DEF Summaries
<1>4. \A s \in SpansAfter(rows) \cup spans : s.content \in Contents
  <2>1. SpansAfter(rows) \subseteq SpanRows /\ spans \subseteq SpanRows
    BY <1>0, SpansAfterTyped DEF TypeOK
  <2> QED BY <2>1 DEF SpanRows
<1>5. MaxTime \in Nat
  BY ProjectionAssumption
<1>6. Starts(t, S) \in SUBSET (0..MaxTime)
  BY <1>1, <1>2, <1>3 DEF Starts, KeptBoundary
<1>7. Ends(t, S) \in SUBSET (0..MaxTime)
  BY <1>1, <1>2, <1>3 DEF Ends, KeptBoundary
<1> QED
  BY <1>1, <1>2, <1>4, <1>5, <1>6, <1>7

LEMMA StartAfter ==
  ASSUME TypeInv, VersionsWellFormed, NEW rows \in SUBSET (DOMAIN journal), NEW t \in Traces,
         BaseSummary(t) = FullSummary(spans, t, Target(t)), ChangesOf(rows, t) # {},
         \A d \in ChangesOf(rows, t) : \A c \in Seen(rows, d) :
           ~(c.start = Min(Starts(t, UpTo(rows, t, d))) /\ Upsert(d).content.start > c.start)
  PROVE  Min(Starts(t, ChangesOf(rows, t)))
           = Min({s.content.start : s \in Currents(SpansAfter(rows), t, Target(t))})
<1> DEFINE A == Currents(spans, t, Target(t))
           B == Currents(SpansAfter(rows), t, Target(t))
           M == ChangesOf(rows, t)
           m == Min(Starts(t, M))
           base == BaseSummary(t).start
           G == {c \in Contents : c.start = m}
<1>0. TypeOK /\ IsFiniteSet(spans) /\ spans \subseteq SpanRows
  BY DEF TypeInv, TypeOK
<1>1. /\ M \in SUBSET Positions(rows)
      /\ A \subseteq spans /\ B \subseteq SpansAfter(rows)
      /\ \A d \in M : UpTo(rows, t, d) \in SUBSET M
  BY DEF ChangesOf, Changes, Currents, UpTo
<1>2. /\ MaxTime \in Nat /\ Starts(t, M) \in SUBSET (0..MaxTime)
      /\ \A s \in A \cup B : s.content \in Contents /\ s.content.start \in 0..MaxTime
      /\ \A d \in M : Upsert(d).content \in Contents
  <2> HIDE DEF A, B, M
  <2> QED BY <1>1, BoundariesTyped
<1>3. m \in Starts(t, M) /\ \A y \in Starts(t, M) : m =< y
  <2>1. Starts(t, M) # {}
    BY DEF Starts
  <2> HIDE DEF M
  <2> QED BY <1>2, <2>1, MinIs
<1>4. \A d \in M : Upsert(d).content.start \in Starts(t, M)
  BY DEF Starts
<1>5. A # {} => /\ base \in Starts(t, M)
                /\ \E s \in A : s.content.start = base
                /\ \A s \in A : base =< s.content.start
  <2> SUFFICES ASSUME A # {} PROVE /\ base \in Starts(t, M)
                                   /\ \E s \in A : s.content.start = base
                                   /\ \A s \in A : base =< s.content.start
    OBVIOUS
  <2>1. base = Min({s.content.start : s \in A}) /\ BaseSummary(t).count > 0
    BY <1>0, SummaryIs
  <2>2. base \in Starts(t, M)
    BY <2>1 DEF Starts, KeptBoundary
  <2> DEFINE T == {s.content.start : s \in A}
  <2>3. T \in SUBSET (0..MaxTime) /\ T # {}
    BY <1>2
  <2>4. Min(T) \in T /\ \A y \in T : Min(T) =< y
    <3> HIDE DEF T
    <3> QED BY <1>2, <2>3, MinIs
  <2> HIDE DEF A, base
  <2> QED BY <2>1, <2>2, <2>4
<1>6. A = {} => \A y \in Starts(t, M) : \E d \in M : y = Upsert(d).content.start
  <2>1. A = {} => ~(BaseSummary(t).count > 0)
    BY <1>0, SummaryIs
  <2> QED BY <2>1 DEF Starts, KeptBoundary
<1>7. \A y \in Starts(t, M) : y = base \/ \E d \in M : y = Upsert(d).content.start
  BY DEF Starts, KeptBoundary
<1>8. (\E d \in M : Upsert(d).content \in G) \/ (\E s \in A : s.content \in G)
  <2>1. CASE \E d \in M : m = Upsert(d).content.start
    BY <1>2, <2>1
  <2>2. CASE A # {} /\ m = base
    <3>1. PICK s \in A : s.content.start = m
      BY <1>5, <2>2
    <3> QED BY <1>2, <3>1
  <2> QED BY <1>3, <1>6, <1>7, <2>1, <2>2
<1>9. ASSUME NEW d \in M, NEW c \in Seen(rows, d), c \in G PROVE Upsert(d).content \in G
  <2> DEFINE U == Starts(t, UpTo(rows, t, d))
  <2>1. U \subseteq Starts(t, M) /\ U \in SUBSET (0..MaxTime)
    <3>1. U \subseteq Starts(t, M)
      BY <1>1 DEF Starts
    <3> QED BY <1>2, <3>1
  <2>2. d \in Positions(rows) /\ d \in Changes(rows) /\ Upsert(d).trace = t
    BY DEF ChangesOf, Changes
  <2>3. m \in U
    <3>1. CASE Seen(rows, d) = {s.content : s \in Stored(d)}
      <4>1. PICK s \in Stored(d) : s.content.start = m
        BY <1>9, <3>1
      <4>2. s \in A
        BY <2>2 DEF Stored, Currents
      <4>3. base = m
        <5>1. base \in Starts(t, M) /\ base =< s.content.start
          BY <1>5, <4>2
        <5>2. m =< base /\ base =< m /\ base \in Int /\ m \in Int
          BY <1>2, <1>3, <4>1, <5>1
        <5> HIDE DEF m, base
        <5> QED BY <5>2
      <4>4. BaseSummary(t).count > 0
        BY <1>0, <4>2, SummaryIs
      <4> QED BY <4>3, <4>4 DEF Starts, KeptBoundary
    <3>2. CASE \E e \in Prior(rows, d) : Seen(rows, d) = {Upsert(e).content}
      <4>1. PICK e \in Prior(rows, d) : Upsert(e).content.start = m
        BY <1>9, <3>2
      <4>2. e \in UpTo(rows, t, d)
        BY <2>2 DEF Prior, BeforeIt, UpTo, ChangesOf, SameSpan
      <4> QED BY <4>1, <4>2 DEF Starts
    <3> QED BY <2>2, <3>1, <3>2, SeenIsPrior DEF SeesPrior
  <2>4. Min(U) = m
    <3>1. \A y \in U : m =< y
      BY <1>3, <2>1
    <3> HIDE DEF U, m
    <3> QED BY <1>2, <2>1, <2>3, <3>1, MinUnique
  <2>5. c.start = m /\ ~(Upsert(d).content.start > m)
    BY <1>9, <2>4
  <2>6. Upsert(d).content.start = m
    <3>1. LET u == Upsert(d).content.start IN u \in Int /\ m \in Int /\ m =< u
      BY <1>2, <1>3, <1>4
    <3> HIDE DEF m
    <3> QED BY <2>5, <3>1
  <2> QED BY <1>2, <2>6
<1>10. PICK b \in B : b.content \in G
  <2> HIDE DEF G
  <2> QED BY <1>8, <1>9, ClassSurvives
<1>11. ASSUME NEW s \in B PROVE m =< s.content.start
  <2>1. CASE s \in A
    <3>1. base \in Starts(t, M) /\ base =< s.content.start
      BY <1>5, <2>1
    <3>2. m =< base /\ base =< s.content.start /\ base \in Int /\ m \in Int /\ s.content.start \in Int
      BY <1>2, <1>3, <3>1
    <3> HIDE DEF m, base
    <3> QED BY <3>2
  <2>2. CASE s \in {NewRow(rows, d) : d \in LastChanges(rows, t)}
    <3>1. PICK d \in M : s.content = Upsert(d).content
      BY <2>2, NewRowIs DEF LastChanges
    <3> QED BY <1>3, <1>4, <3>1
  <2> QED BY <1>0, <2>1, <2>2, CurrentsAfter DEF Unchanged
<1>12. Min({s.content.start : s \in B}) = m
  <2> DEFINE T == {s.content.start : s \in B}
  <2>1. T \in SUBSET (0..MaxTime) /\ m \in T
    BY <1>2, <1>10
  <2>2. \A y \in T : m =< y
    BY <1>11
  <2>3. Min(T) = m
    <3> HIDE DEF T, m
    <3> QED BY <1>2, <2>1, <2>2, MinUnique
  <2> QED BY <2>3
<1> QED
  BY <1>12

LEMMA EndAfter ==
  ASSUME TypeInv, VersionsWellFormed, NEW rows \in SUBSET (DOMAIN journal), NEW t \in Traces,
         BaseSummary(t) = FullSummary(spans, t, Target(t)), ChangesOf(rows, t) # {},
         \A d \in ChangesOf(rows, t) : \A c \in Seen(rows, d) :
           ~(c.end = Max(Ends(t, UpTo(rows, t, d))) /\ Upsert(d).content.end < c.end)
  PROVE  Max(Ends(t, ChangesOf(rows, t)))
           = Max({s.content.end : s \in Currents(SpansAfter(rows), t, Target(t))})
<1> DEFINE A == Currents(spans, t, Target(t))
           B == Currents(SpansAfter(rows), t, Target(t))
           M == ChangesOf(rows, t)
           m == Max(Ends(t, M))
           base == BaseSummary(t).end
           G == {c \in Contents : c.end = m}
<1>0. TypeOK /\ IsFiniteSet(spans) /\ spans \subseteq SpanRows
  BY DEF TypeInv, TypeOK
<1>1. /\ M \in SUBSET Positions(rows)
      /\ A \subseteq spans /\ B \subseteq SpansAfter(rows)
      /\ \A d \in M : UpTo(rows, t, d) \in SUBSET M
  BY DEF ChangesOf, Changes, Currents, UpTo
<1>2. /\ MaxTime \in Nat /\ Ends(t, M) \in SUBSET (0..MaxTime)
      /\ \A s \in A \cup B : s.content \in Contents /\ s.content.end \in 0..MaxTime
      /\ \A d \in M : Upsert(d).content \in Contents
  <2> HIDE DEF A, B, M
  <2> QED BY <1>1, BoundariesTyped
<1>3. m \in Ends(t, M) /\ \A y \in Ends(t, M) : y =< m
  <2>1. Ends(t, M) # {}
    BY DEF Ends
  <2> HIDE DEF M
  <2> QED BY <1>2, <2>1, MaxIs
<1>4. \A d \in M : Upsert(d).content.end \in Ends(t, M)
  BY DEF Ends
<1>5. A # {} => /\ base \in Ends(t, M)
                /\ \E s \in A : s.content.end = base
                /\ \A s \in A : s.content.end =< base
  <2> SUFFICES ASSUME A # {} PROVE /\ base \in Ends(t, M)
                                   /\ \E s \in A : s.content.end = base
                                   /\ \A s \in A : s.content.end =< base
    OBVIOUS
  <2>1. base = Max({s.content.end : s \in A}) /\ BaseSummary(t).count > 0
    BY <1>0, SummaryIs
  <2>2. base \in Ends(t, M)
    BY <2>1 DEF Ends, KeptBoundary
  <2> DEFINE T == {s.content.end : s \in A}
  <2>3. T \in SUBSET (0..MaxTime) /\ T # {}
    BY <1>2
  <2>4. Max(T) \in T /\ \A y \in T : y =< Max(T)
    <3> HIDE DEF T
    <3> QED BY <1>2, <2>3, MaxIs
  <2> HIDE DEF A, base
  <2> QED BY <2>1, <2>2, <2>4
<1>6. A = {} => \A y \in Ends(t, M) : \E d \in M : y = Upsert(d).content.end
  <2>1. A = {} => ~(BaseSummary(t).count > 0)
    BY <1>0, SummaryIs
  <2> QED BY <2>1 DEF Ends, KeptBoundary
<1>7. \A y \in Ends(t, M) : y = base \/ \E d \in M : y = Upsert(d).content.end
  BY DEF Ends, KeptBoundary
<1>8. (\E d \in M : Upsert(d).content \in G) \/ (\E s \in A : s.content \in G)
  <2>1. CASE \E d \in M : m = Upsert(d).content.end
    BY <1>2, <2>1
  <2>2. CASE A # {} /\ m = base
    <3>1. PICK s \in A : s.content.end = m
      BY <1>5, <2>2
    <3> QED BY <1>2, <3>1
  <2> QED BY <1>3, <1>6, <1>7, <2>1, <2>2
<1>9. ASSUME NEW d \in M, NEW c \in Seen(rows, d), c \in G PROVE Upsert(d).content \in G
  <2> DEFINE U == Ends(t, UpTo(rows, t, d))
  <2>1. U \subseteq Ends(t, M) /\ U \in SUBSET (0..MaxTime)
    <3>1. U \subseteq Ends(t, M)
      BY <1>1 DEF Ends
    <3> QED BY <1>2, <3>1
  <2>2. d \in Positions(rows) /\ d \in Changes(rows) /\ Upsert(d).trace = t
    BY DEF ChangesOf, Changes
  <2>3. m \in U
    <3>1. CASE Seen(rows, d) = {s.content : s \in Stored(d)}
      <4>1. PICK s \in Stored(d) : s.content.end = m
        BY <1>9, <3>1
      <4>2. s \in A
        BY <2>2 DEF Stored, Currents
      <4>3. base = m
        <5>1. base \in Ends(t, M) /\ s.content.end =< base
          BY <1>5, <4>2
        <5>2. base =< m /\ m =< base /\ base \in Int /\ m \in Int
          BY <1>2, <1>3, <4>1, <5>1
        <5> HIDE DEF m, base
        <5> QED BY <5>2
      <4>4. BaseSummary(t).count > 0
        BY <1>0, <4>2, SummaryIs
      <4> QED BY <4>3, <4>4 DEF Ends, KeptBoundary
    <3>2. CASE \E e \in Prior(rows, d) : Seen(rows, d) = {Upsert(e).content}
      <4>1. PICK e \in Prior(rows, d) : Upsert(e).content.end = m
        BY <1>9, <3>2
      <4>2. e \in UpTo(rows, t, d)
        BY <2>2 DEF Prior, BeforeIt, UpTo, ChangesOf, SameSpan
      <4> QED BY <4>1, <4>2 DEF Ends
    <3> QED BY <2>2, <3>1, <3>2, SeenIsPrior DEF SeesPrior
  <2>4. Max(U) = m
    <3>1. \A y \in U : y =< m
      BY <1>3, <2>1
    <3> HIDE DEF U, m
    <3> QED BY <1>2, <2>1, <2>3, <3>1, MaxUnique
  <2>5. c.end = m /\ ~(Upsert(d).content.end < m)
    BY <1>9, <2>4
  <2>6. Upsert(d).content.end = m
    <3>1. LET u == Upsert(d).content.end IN u \in Int /\ m \in Int /\ u =< m
      BY <1>2, <1>3, <1>4
    <3> HIDE DEF m
    <3> QED BY <2>5, <3>1
  <2> QED BY <1>2, <2>6
<1>10. PICK b \in B : b.content \in G
  <2> HIDE DEF G
  <2> QED BY <1>8, <1>9, ClassSurvives
<1>11. ASSUME NEW s \in B PROVE s.content.end =< m
  <2>1. CASE s \in A
    <3>1. base \in Ends(t, M) /\ s.content.end =< base
      BY <1>5, <2>1
    <3>2. base =< m /\ s.content.end =< base /\ base \in Int /\ m \in Int /\ s.content.end \in Int
      BY <1>2, <1>3, <3>1
    <3> HIDE DEF m, base
    <3> QED BY <3>2
  <2>2. CASE s \in {NewRow(rows, d) : d \in LastChanges(rows, t)}
    <3>1. PICK d \in M : s.content = Upsert(d).content
      BY <2>2, NewRowIs DEF LastChanges
    <3> QED BY <1>3, <1>4, <3>1
  <2> QED BY <1>0, <2>1, <2>2, CurrentsAfter DEF Unchanged
<1>12. Max({s.content.end : s \in B}) = m
  <2> DEFINE T == {s.content.end : s \in B}
  <2>1. T \in SUBSET (0..MaxTime) /\ m \in T
    BY <1>2, <1>10
  <2>2. \A y \in T : y =< m
    BY <1>11
  <2>3. Max(T) = m
    <3> HIDE DEF T, m
    <3> QED BY <1>2, <2>1, <2>2, MaxUnique
  <2> QED BY <2>3
<1> QED
  BY <1>12

(* A page shows rows of every trace it changes.                            *)
LEMMA ShowsSomething ==
  ASSUME TypeOK, NEW rows \in SUBSET (DOMAIN journal), NEW t \in Traces, ChangesOf(rows, t) # {}
  PROVE  Currents(SpansAfter(rows), t, Target(t)) # {}
<1>1. PICK d \in ChangesOf(rows, t) : TRUE
  OBVIOUS
<1>2. d \in Changed(rows, t, Upsert(d).id)
  BY DEF ChangesOf, Changed, OfSpan, Changes
<1>3. PICK e \in Changed(rows, t, Upsert(d).id) : IsLast(rows, e)
  BY <1>2, LastChange
<1>4. e \in LastChanges(rows, t)
  BY <1>3 DEF LastChanges, ChangesOf, Changed, OfSpan
<1> QED
  BY <1>4, CurrentsAfter

(* The incremental summary is the full one: counting changes as they are   *)
(* applied, and reloading the boundaries only when one moved inwards, is   *)
(* counting the rows the page leaves.                                      *)
LEMMA IncrementalIsFull ==
  ASSUME TypeInv, VersionsWellFormed, NEW rows \in SUBSET (DOMAIN journal), NEW t \in Traces,
         BaseSummary(t) = FullSummary(spans, t, Target(t)), ChangesOf(rows, t) # {}
  PROVE  IncrementalSummary(rows, t) = FullSummary(SpansAfter(rows), t, Target(t))
<1> DEFINE base == BaseSummary(t)
           mine == ChangesOf(rows, t)
           dirty == \E d \in mine : \E c \in Seen(rows, d) :
                      \/ c.start = Min(Starts(t, UpTo(rows, t, d)))
                         /\ Upsert(d).content.start > c.start
                      \/ c.end = Max(Ends(t, UpTo(rows, t, d)))
                         /\ Upsert(d).content.end < c.end
           full == FullSummary(SpansAfter(rows), t, Target(t))
           A == Currents(spans, t, Target(t))
           B == Currents(SpansAfter(rows), t, Target(t))
           fresh == Cardinality(Fresh(rows, t))
           now == Cardinality(NowErrors(rows, t))
           were == Cardinality(WereErrors(rows, t))
           count == base.count + fresh
           errors == Max({0, base.errors + now - were})
           start == IF dirty THEN full.start ELSE Min(Starts(t, mine))
           end == IF dirty THEN full.end ELSE Max(Ends(t, mine))
<1>0. /\ TypeOK /\ IsFiniteSet(spans) /\ spans \in SUBSET SpanRows
      /\ SpansAfter(rows) \in SUBSET SpanRows /\ IsFiniteSet(SpansAfter(rows))
  BY SpansAfterTyped DEF TypeInv, TypeOK
<1>1. IncrementalSummary(rows, t)
        = [count |-> count, errors |-> errors, start |-> start, end |-> end]
  BY DEF IncrementalSummary, ChangesOf, Fresh, NowErrors, WereErrors, Starts, Ends, UpTo, KeptBoundary
<1>2. B # {}
  BY <1>0, ShowsSomething
<1>3. base.count = Cardinality(A) /\ base.errors = Cardinality(Erroneous(A))
  <2> DEFINE was == FullSummary(spans, t, Target(t))
  <2>1. was.count = Cardinality(A) /\ was.errors = Cardinality(Erroneous(A))
    BY <1>0, SummaryIs
  <2>2. base = was
    OBVIOUS
  <2> HIDE DEF base, was, A
  <2> QED BY <2>1, <2>2
<1>4. full.count = Cardinality(B) /\ full.errors = Cardinality(Erroneous(B))
      /\ full.start = Min({s.content.start : s \in B})
      /\ full.end = Max({s.content.end : s \in B})
  BY ONLY <1>0, <1>2, SummaryIs
<1>5. count = full.count
  BY <1>3, <1>4, CountAfter
<1>6. errors = full.errors
  <2>1. full.errors \in Nat /\ full.errors = base.errors + now - were
    BY <1>3, <1>4, ErrorsAfter
  <2> DEFINE e == full.errors
  <2>2. errors = Max({0, e})
    BY <2>1
  <2>3. e \in Nat
    BY <2>1
  <2>4. Max({0, e}) = e
    <3> HIDE DEF e
    <3>1. {0, e} \in SUBSET (0..e) /\ {0, e} # {} /\ e \in {0, e} /\ \A y \in {0, e} : y =< e
      BY <2>3
    <3> QED BY <2>3, <3>1, MaxUnique
  <2> QED BY <2>2, <2>4
<1>7. start = full.start /\ end = full.end
  <2>1. CASE dirty
    BY <2>1
  <2>2. CASE ~dirty
    <3>1. \A d \in ChangesOf(rows, t) : \A c \in Seen(rows, d) :
             ~(c.start = Min(Starts(t, UpTo(rows, t, d))) /\ Upsert(d).content.start > c.start)
      BY <2>2
    <3>2. \A d \in ChangesOf(rows, t) : \A c \in Seen(rows, d) :
             ~(c.end = Max(Ends(t, UpTo(rows, t, d))) /\ Upsert(d).content.end < c.end)
      BY <2>2
    <3>3. Min(Starts(t, mine)) = Min({s.content.start : s \in B})
      BY <3>1, StartAfter
    <3>4. Max(Ends(t, mine)) = Max({s.content.end : s \in B})
      BY <3>2, EndAfter
    <3> QED BY <1>4, <2>2, <3>3, <3>4
  <2> QED BY <2>1, <2>2
<1>8. full \in Summaries
  BY <1>0, FullSummaryTyped
<1>9. full = [count |-> full.count, errors |-> full.errors, start |-> full.start, end |-> full.end]
  <2> HIDE DEF full
  <2> QED BY <1>8 DEF Summaries
<1> HIDE DEF count, errors, start, end, full
<1> QED
  BY <1>1, <1>5, <1>6, <1>7, <1>9 DEF full

(* A page that meets no half committed row starts when there are none.     *)
LEMMA HalfOrWhole ==
  ASSUME TypeOK, CommandInv, NEW rows \in Pages
  PROVE  rows \in SUBSET (DOMAIN journal) /\ (Reconcile(rows) \/ HalfApplied = {})
<1>1. PICK m \in Unprojected : rows = {i \in Unprojected : i <= m}
  BY PageIsPrefix
<1>2. DOMAIN journal \subseteq Nat
  BY LenProperties DEF TypeOK
<1>3. m \in rows
  BY <1>1, <1>2 DEF Unprojected
<1>4. ASSUME NEW h \in HalfApplied PROVE Reconcile(rows)
  <2>1. h \in Unprojected /\ h \in applied /\ h \in Nat
    BY <1>2 DEF HalfApplied, Unprojected, TypeOK
  <2>2. CASE m =< h
    <3>1. m \in HalfApplied
      BY <2>2 DEF CommandInv, HalfIsPrefix
    <3> QED BY <1>3, <3>1 DEF HalfApplied, Reconcile
  <2>3. CASE h =< m
    BY <1>1, <2>1, <2>3 DEF Reconcile
  <2> QED BY <1>2, <2>1, <2>2, <2>3 DEF Unprojected
<1> QED
  BY <1>1, <1>4 DEF Unprojected

(* When nothing is half committed, a page starts from true summaries.      *)
LEMMA BaseIsTrue ==
  ASSUME TypeInv, RowsKnown, SummaryAgrees, HalfApplied = {}, NEW t \in Traces
  PROVE  BaseSummary(t) = FullSummary(spans, t, Target(t))
<1>1. Mentions(HalfApplied) = {}
  BY DEF Mentions, Positions
<1>2. CASE logical[t].lifecycle \in {"absent", "finalized"}
  <2>1. \A s \in spans : s.trace = t => s.revision =< logical[t].revision
    BY <1>1 DEF RowsKnown
  <2>2. logical[t].revision \in Nat
    BY DEF TypeInv, TypeOK, TraceRows
  <2>3. \A s \in spans : s.revision \in Nat
    BY DEF TypeInv, TypeOK, SpanRows
  <2>4. Target(t) = logical[t].revision + 1
    BY <1>2 DEF Target
  <2>5. {s \in spans : s.trace = t /\ s.revision = Target(t) /\ s.current} = {}
    BY <2>1, <2>2, <2>3, <2>4
  <2> QED BY <1>2, <2>5 DEF FullSummary, BaseSummary
<1>3. CASE logical[t].lifecycle \notin {"absent", "finalized"}
  BY <1>1, <1>3 DEF SummaryAgrees, BaseSummary, Target
<1> QED
  BY <1>2, <1>3

(* A mentioned trace that is not changed has an open revision: the first   *)
(* upsert of a new one is a change.                                        *)
LEMMA UnchangedIsOpen ==
  ASSUME TypeInv, RowsKnown, HalfApplied = {}, NEW rows \in SUBSET (DOMAIN journal),
         NEW t \in Mentions(rows), ChangesOf(rows, t) = {}
  PROVE  logical[t].lifecycle \in Open
<1>0. TypeOK
  BY DEF TypeInv
<1>1. PICK p \in Positions(rows) : Upsert(p).trace = t
  BY DEF Mentions
<1> DEFINE S == {e \in Positions(rows) : SameSpan(e, p)}
<1>2. S \in SUBSET Positions(rows) /\ p \in S
  BY <1>1 DEF SameSpan
<1>3. PICK d \in S : \A e \in S : d = e \/ Earlier(d, e)
  <2> HIDE DEF S
  <2> QED BY <1>0, <1>2, FirstPosition
<1>4. d \in Positions(rows) /\ Upsert(d).trace = t /\ SameSpan(d, p) /\ t \in Traces
  BY <1>0, <1>1, <1>3, PositionIs DEF SameSpan
<1>5. BeforeIt(rows, d) = {}
  <2> SUFFICES ASSUME NEW e \in Positions(rows), SameSpan(e, d), Earlier(e, d) PROVE FALSE
    BY DEF BeforeIt
  <2>1. e \in S
    BY <1>4 DEF SameSpan
  <2>2. d = e \/ Earlier(d, e)
    BY <1>3, <2>1
  <2> HIDE DEF S
  <2> QED BY <1>0, <1>4, <2>2, EarlierIsTotal
<1>6. Seen(rows, d) = {s.content : s \in Stored(d)}
  BY <1>0, <1>4, <1>5, SeenIs
<1>7. SUFFICES ASSUME logical[t].lifecycle \in {"absent", "finalized"} PROVE FALSE
  BY <1>0, <1>4 DEF TypeOK, TraceRows, Lifecycles
<1>8. Stored(d) = {}
  <2>1. \A s \in spans : s.trace = t => s.revision =< logical[t].revision
    BY DEF RowsKnown, Mentions, Positions
  <2>2. logical[t].revision \in Nat /\ \A s \in spans : s.revision \in Nat
    BY <1>0, <1>4 DEF TypeOK, TraceRows, SpanRows
  <2>3. Target(t) = logical[t].revision + 1
    BY <1>7 DEF Target
  <2> QED BY <1>4, <2>1, <2>2, <2>3 DEF Stored
<1>9. d \in ChangesOf(rows, t)
  BY <1>4, <1>6, <1>8 DEF ChangesOf, Changes
<1> QED
  BY <1>9

(* What a page is about to write to a trace row is true of the rows it has *)
(* left in DuckDB, and a trace it does not announce has nothing to tell.   *)
LEMMA RowIsTrue ==
  ASSUME TypeInv, VersionsWellFormed, CommandInv, RowsKnown, SummaryAgrees,
         NEW rows \in Pages, NEW t \in Mentions(rows)
  PROVE  /\ RowAfter(rows, t).revision = Target(t)
         /\ RowAfter(rows, t).lifecycle = EnsuredLifecycle(t)
         /\ RowAfter(rows, t).summary = FullSummary(SpansAfter(rows), t, Target(t))
         /\ t \notin Touched(rows) =>
              /\ RowAfter(rows, t).revision = logical[t].revision
              /\ RowAfter(rows, t).summary = logical[t].summary
              /\ \/ EnsuredLifecycle(t) = logical[t].lifecycle
                 \/ logical[t].lifecycle = "quiescent" /\ EnsuredLifecycle(t) = "live"
<1> DEFINE full == FullSummary(SpansAfter(rows), t, Target(t))
           row == RowAfter(rows, t)
<1>0. TypeOK /\ rows \in SUBSET (DOMAIN journal) /\ (Reconcile(rows) \/ HalfApplied = {})
  BY HalfOrWhole DEF TypeInv
<1>1. t \in Traces
  BY <1>0, PositionIs DEF Mentions
<1>2. /\ row.revision = Target(t) /\ row.lifecycle = EnsuredLifecycle(t)
      /\ row.summary = IF t \notin Touched(rows) THEN BaseSummary(t)
                       ELSE IF Reconcile(rows) THEN full ELSE IncrementalSummary(rows, t)
  BY DEF RowAfter
<1>3. CASE Reconcile(rows)
  <2>1. t \in Touched(rows)
    BY <1>3 DEF Touched, Mentions
  <2> QED BY <1>2, <1>3, <2>1
<1>4. CASE ~Reconcile(rows)
  <2>1. HalfApplied = {} /\ BaseSummary(t) = FullSummary(spans, t, Target(t))
    BY <1>0, <1>1, <1>4, BaseIsTrue
  <2>2. t \in Touched(rows) <=> ChangesOf(rows, t) # {}
    BY <1>4 DEF Touched, ChangesOf
  <2>3. CASE t \in Touched(rows)
    <3>1. IncrementalSummary(rows, t) = full
      BY <1>0, <1>1, <2>1, <2>2, <2>3, IncrementalIsFull
    <3> QED BY <1>2, <1>4, <2>3, <3>1
  <2>4. CASE t \notin Touched(rows)
    <3>1. full = FullSummary(spans, t, Target(t))
      BY <1>0, <1>1, <2>2, <2>4, SummaryUntouched
    <3>2. logical[t].lifecycle \in Open
      BY <1>0, <2>1, <2>2, <2>4, UnchangedIsOpen
    <3>3. /\ Target(t) = logical[t].revision /\ BaseSummary(t) = logical[t].summary
          /\ \/ EnsuredLifecycle(t) = logical[t].lifecycle
             \/ logical[t].lifecycle = "quiescent" /\ EnsuredLifecycle(t) = "live"
      BY <3>2 DEF Open, Target, BaseSummary, EnsuredLifecycle
    <3> QED BY <1>2, <2>1, <2>4, <3>1, <3>3
  <2> QED BY <2>3, <2>4
<1> QED
  BY <1>3, <1>4

LEMMA PageStagesTruth ==
  ASSUME TypeInv, VersionsWellFormed, CommandInv, RowsKnown, SummaryAgrees,
         NEW rows \in Pages, CommitAnalytics(rows)
  PROVE  StagedIsTrue'
<1>0. TypeOK /\ rows \in SUBSET (DOMAIN journal)
  BY HalfOrWhole DEF TypeInv
<1>1. /\ spans' = SpansAfter(rows) /\ page' = rows /\ journal' = journal /\ logical' = logical
      /\ announced' = announced /\ revisions' = revisions
      /\ staged' = [logical |-> LogicalAfter(rows), revisions |-> RevisionsAfter(rows),
                    announced |-> AnnouncedAfter(rows)]
  BY DEF CommitAnalytics, controlVars
<1>2. /\ Mentions(page)' = Mentions(rows) /\ Positions(page)' = Positions(rows)
      /\ \A t : Target(t)' = Target(t) /\ EnsuredLifecycle(t)' = EnsuredLifecycle(t)
      /\ \A d : Upsert(d)' = Upsert(d)
  BY <1>1 DEF Mentions, Positions, Upsert, Target, EnsuredLifecycle
<1>3. staged'.logical = LogicalAfter(rows) /\ staged'.revisions = RevisionsAfter(rows)
      /\ staged'.announced = AnnouncedAfter(rows)
  BY <1>1
<1>4. ASSUME NEW t \in Traces PROVE StagedRow(t)'
  <2>1. staged'.logical[t] = IF t \in Mentions(rows) THEN RowAfter(rows, t) ELSE logical[t]
    BY <1>3 DEF LogicalAfter
  <2>2. CASE t \in Mentions(rows)
    <3>1. /\ staged'.logical[t].revision = Target(t)
          /\ staged'.logical[t].lifecycle = EnsuredLifecycle(t)
          /\ staged'.logical[t].summary = FullSummary(SpansAfter(rows), t, Target(t))
      BY <2>1, <2>2, RowIsTrue
    <3> QED BY <1>1, <1>2, <2>2, <3>1 DEF StagedRow
  <2>3. CASE t \notin Mentions(rows)
    BY <1>1, <1>2, <2>1, <2>3 DEF StagedRow
  <2> QED BY <2>2, <2>3
<1>5. ASSUME NEW t \in Traces PROVE StagedDelta(t)'
  <2>1. /\ staged'.logical[t] = IF t \in Mentions(rows) THEN RowAfter(rows, t) ELSE logical[t]
        /\ staged'.announced[t] = IF t \in Touched(rows) THEN RowAfter(rows, t) ELSE announced[t]
    BY <1>3 DEF LogicalAfter, AnnouncedAfter
  <2>2. t \in Touched(rows) => t \in Mentions(rows)
    BY DEF Touched, Mentions, Changes
  <2>3. CASE t \in Touched(rows)
    BY <2>1, <2>2, <2>3 DEF StagedDelta
  <2>4. CASE t \notin Touched(rows) /\ t \in Mentions(rows)
    BY <1>1, <2>1, <2>4, RowIsTrue DEF StagedDelta
  <2>5. CASE t \notin Touched(rows) /\ t \notin Mentions(rows)
    BY <1>1, <2>1, <2>5 DEF StagedDelta
  <2> QED BY <2>3, <2>4, <2>5
<1>6. staged'.revisions = RevisionsAfter(page)'
  BY <1>1, <1>2, <1>3 DEF RevisionsAfter
<1>7. ASSUME NEW d \in Positions(rows), \A e \in Positions(rows) : ~(SameSpan(d, e) /\ Earlier(d, e))
      PROVE  ShowsUpsert(spans, d)'
  <2>1. \E s \in SpansAfter(rows) :
           /\ s.trace = Upsert(d).trace /\ s.id = Upsert(d).id
           /\ s.revision = Target(Upsert(d).trace)
           /\ s.current /\ s.content = Upsert(d).content
    BY <1>0, <1>7, LastIsCurrent
  <2>2. Target(Upsert(d).trace)' = Target(Upsert(d).trace)
    BY <1>1 DEF Target, Upsert
  <2> QED BY <1>1, <1>2, <2>1, <2>2 DEF ShowsUpsert
<1>8. \A d \in Positions(page)' :
         \/ \E e \in Positions(page)' : SameSpan(d, e)' /\ Earlier(d, e)'
         \/ ShowsUpsert(spans, d)'
  <2>1. \A d, e : SameSpan(d, e)' = SameSpan(d, e) /\ Earlier(d, e)' = Earlier(d, e)
    BY <1>1 DEF SameSpan, Upsert, Earlier
  <2> QED BY <1>2, <1>7, <2>1
<1> QED
  BY <1>4, <1>5, <1>6, <1>8 DEF StagedIsTrue

LEMMA StagedIsTrueNext ==
  TypeInv /\ VersionsWellFormed /\ CommandInv /\ RowsKnown /\ SummaryAgrees /\ StagedIsTrue
    /\ [Next]_vars => StagedIsTrue'
<1> SUFFICES ASSUME TypeInv, VersionsWellFormed, CommandInv, RowsKnown, SummaryAgrees,
                    StagedIsTrue, [Next]_vars
             PROVE  StagedIsTrue'
  OBVIOUS
<1>0. JournalGrows /\ page \subseteq HalfApplied /\ HalfApplied \subseteq DOMAIN journal
  BY WorkMoves
<1>1. ASSUME NEW rows \in Pages, CommitAnalytics(rows) PROVE StagedIsTrue'
  BY <1>1, PageStagesTruth
<1>2. CASE CommitControl
  BY <1>2 DEF CommitControl, StagedIsTrue
<1>3. ASSUME HalfApplied' = HalfApplied, spans' = spans, page' # {}, page' = page,
             staged' = staged, logical' = logical, announced' = announced, revisions' = revisions
      PROVE  StagedIsTrue'
  <2>1. /\ \A S \in SUBSET (DOMAIN journal) : Positions(S)' = Positions(S)
                                             /\ Mentions(S)' = Mentions(S)
        /\ \A d \in Positions(page) : Upsert(d)' = Upsert(d)
    BY <1>0, PositionsKept, MentionsKept
  <2>2. /\ Positions(page)' = Positions(page) /\ Mentions(page)' = Mentions(page)
        /\ Mentions(HalfApplied \ page)' = Mentions(HalfApplied \ page)
    <3>1. page \in SUBSET (DOMAIN journal) /\ HalfApplied \ page \in SUBSET (DOMAIN journal)
      BY <1>0
    <3> QED BY <1>3, <2>1, <3>1
  <2>3. \A t : Target(t)' = Target(t) /\ EnsuredLifecycle(t)' = EnsuredLifecycle(t)
    BY <1>3 DEF Target, EnsuredLifecycle
  <2>4. ASSUME NEW t \in Traces PROVE StagedRow(t)' /\ StagedDelta(t)'
    <3>1. StagedRow(t) /\ StagedDelta(t)
      BY <1>3 DEF StagedIsTrue
    <3> QED BY <1>3, <2>2, <2>3, <3>1 DEF StagedRow, StagedDelta
  <2>5. staged'.revisions = RevisionsAfter(page)'
    BY <1>3, <2>2, <2>3 DEF RevisionsAfter, StagedIsTrue
  <2>6. ASSUME NEW d \in Positions(page), ShowsUpsert(spans, d) PROVE ShowsUpsert(spans, d)'
    <3>1. Upsert(d)' = Upsert(d) /\ Target(Upsert(d).trace)' = Target(Upsert(d).trace)
      BY <1>3, <2>1 DEF Target
    <3> QED BY <1>3, <2>6, <3>1 DEF ShowsUpsert
  <2>7. \A d, e \in Positions(page) : SameSpan(d, e)' = SameSpan(d, e) /\ Earlier(d, e)' = Earlier(d, e)
    BY <2>1 DEF SameSpan, Earlier
  <2> QED BY <1>3, <2>2, <2>4, <2>5, <2>6, <2>7 DEF StagedIsTrue
<1>4. CASE page' = {}
  BY <1>4 DEF StagedIsTrue
<1> QED
  BY <1>1, <1>2, <1>3, <1>4, WorkMoves

(* The strengthened invariant of StoreIsTrue.                              *)
StoreInv ==
  /\ TypeInv /\ StagedInv /\ RowsBound /\ OrderInv
  /\ CommandInv /\ StagedIsTrue /\ RowsKnown
  /\ VersionsWellFormed /\ SummaryAgrees /\ LastUpsertVisible
  /\ AbsentIsNew /\ RevisionRowsKept /\ DeltasKept

LEMMA StoreInvInit == Init => StoreInv
<1> SUFFICES ASSUME Init PROVE StoreInv
  OBVIOUS
<1>1. TypeInv /\ StagedInv /\ RowsBound /\ OrderInv
  BY TypeInvInit, InitRefines, OrderInvInit
<1>2. HalfApplied = {} /\ DOMAIN journal = {} /\ spans = {} /\ page = {}
  BY EmptySeq, LenProperties DEF Init, HalfApplied
<1>3. CommandInv /\ StagedIsTrue /\ RowsKnown /\ VersionsWellFormed
  BY <1>2 DEF Init, CommandInv, OneCommand, HalfIsPrefix, StagedIsTrue, RowsKnown, VersionsWellFormed
<1>4. \A t \in Traces : logical[t] = NoRow /\ revisions[t] = <<>> /\ announced[t] = NoRow
  BY DEF Init
<1>5. SummaryAgrees
  BY <1>2, <1>4 DEF SummaryAgrees, FullSummary, NoRow
<1>6. LastUpsertVisible
  BY <1>2 DEF LastUpsertVisible, Positions
<1>7. AbsentIsNew /\ RevisionRowsKept /\ DeltasKept
  <2>1. Len(<<>>) = 0
    OBVIOUS
  <2> QED BY <1>4, <2>1 DEF AbsentIsNew, RevisionRowsKept, DeltasKept, NoRow
<1> QED
  BY <1>1, <1>3, <1>5, <1>6, <1>7 DEF StoreInv

LEMMA StoreInvNext == StoreInv /\ [Next]_vars => StoreInv'
<1> SUFFICES ASSUME StoreInv, [Next]_vars PROVE StoreInv'
  OBVIOUS
<1>1. TypeInv' /\ StagedInv' /\ RowsBound' /\ OrderInv'
  BY TypeInvNext, StagedInvNext, RowsBoundNext, OrderInvNext DEF StoreInv
<1>2. CommandInv' /\ StagedIsTrue' /\ RowsKnown'
  BY CommandInvNext, StagedIsTrueNext, RowsKnownNext DEF StoreInv
<1>3. VersionsWellFormed' /\ SummaryAgrees' /\ LastUpsertVisible'
  BY VersionsNext, SummaryNext, LastUpsertNext DEF StoreInv
<1>4. AbsentIsNew' /\ RevisionRowsKept' /\ DeltasKept'
  BY RevisionsNext, DeltasNext DEF StoreInv
<1> QED
  BY <1>1, <1>2, <1>3, <1>4 DEF StoreInv

(* Whatever is interrupted and retried, between DuckDB and SQLite and      *)
(* between the statements of a sweep, the current rows, the summary        *)
(* columns, the newest delivery of every span, the revision history and    *)
(* the delta log tell the same story, but for what StoreIsTrue exempts.    *)
THEOREM StoreStaysTrue == Spec => []StoreIsTrue
<1>1. StoreInv => StoreIsTrue
  <2> SUFFICES ASSUME StoreInv PROVE StoreIsTrue
    OBVIOUS
  <2>1. StoreShowsTruth
    BY DEF StoreInv, StoreShowsTruth
  <2>2. RevisionRowsFollow
    BY DEF StoreInv, RevisionRowsKept, RevisionRowsFollow
  <2>3. AnnouncedTracksControl
    BY DEF StoreInv, DeltasKept, AnnouncedTracksControl
  <2> QED BY <2>1, <2>2, <2>3 DEF StoreIsTrue, ControlIsAnnounced
<1> QED
  BY <1>1, StoreInvInit, StoreInvNext, PTL DEF Spec

-----------------------------------------------------------------------------
(* The endpoint of the MCP server.                                         *)

(* What the exclusive lock of DuckDB makes of the endpoint.  An            *)
(* application that is up has the workspace, so the others are down; one   *)
(* that may still remove the socket is the one that bound it, and one that *)
(* is about to bind it has found or made the path free.  Whoever answers   *)
(* an agent is a serving application or the agent's own process; and       *)
(* without a failed call a socket never outlives its listener.             *)
OwnersAreUp ==
  \A a \in Apps : /\ app[a] # "down" => owner = a
                  /\ app[a] \in {"serving", "closing"} => socket = a
                  /\ app[a] = "free" => socket = Absent
                  /\ app[a] # "rivalled"

AnswersAreOwners ==
  \A g \in Agents :
    /\ agent[g].by # Absent => agent[g].by = owner
    /\ agent[g].by \in Apps => app[agent[g].by] = "serving"
    /\ agent[g].by \in Agents => agent[g].by = g

SocketIsServed ==
  mishaps = 0 /\ socket # Absent => app[socket] \in {"serving", "closing"}

EndpointInv ==
  /\ EndpointTypeOK /\ mishaps \in Nat
  /\ OwnersAreUp /\ AnswersAreOwners /\ SocketIsServed

LEMMA EndpointStarts == EndpointInit => EndpointInv
BY EndpointAssumption
DEF EndpointInit, EndpointInv, EndpointTypeOK, OwnersAreUp, AnswersAreOwners, SocketIsServed, Steps

LEMMA EndpointSteps == EndpointInv /\ [EndpointNext]_endpointVars => EndpointInv'
<1> SUFFICES ASSUME EndpointInv, [EndpointNext]_endpointVars PROVE EndpointInv'
  OBVIOUS
<1> USE EndpointAssumption
    DEF EndpointInv, EndpointTypeOK, OwnersAreUp, AnswersAreOwners, SocketIsServed, Steps
<1>1. ASSUME NEW a \in Apps, OpenWorkspace(a) PROVE EndpointInv'
  BY <1>1 DEF OpenWorkspace
<1>2. ASSUME NEW a \in Apps, FindSocket(a) PROVE EndpointInv'
  BY <1>2 DEF FindSocket, Listening
<1>3. ASSUME NEW a \in Apps, RemoveStale(a) PROVE EndpointInv'
  BY <1>3 DEF RemoveStale
<1>4. ASSUME NEW a \in Apps, Bind(a) PROVE EndpointInv'
  BY <1>4 DEF Bind
<1>5. ASSUME NEW a \in Apps, StartFails(a) PROVE EndpointInv'
  BY <1>5 DEF StartFails, Mishap
<1>6. ASSUME NEW a \in Apps, Quit(a) PROVE EndpointInv'
  BY <1>6 DEF Quit, CutOff
<1>7. ASSUME NEW a \in Apps, Unlink(a) PROVE EndpointInv'
  BY <1>7 DEF Unlink
<1>8. ASSUME NEW a \in Apps, Exit(a) PROVE EndpointInv'
  BY <1>8 DEF Exit
<1>9. ASSUME NEW a \in Apps, CrashApp(a) PROVE EndpointInv'
  BY <1>9 DEF CrashApp, CutOff, Mishap
<1>10. ASSUME NEW g \in Agents, Connect(g) PROVE EndpointInv'
  BY <1>10 DEF Connect, Listening
<1>11. ASSUME NEW g \in Agents, OpenAlone(g) PROVE EndpointInv'
  BY <1>11 DEF OpenAlone
<1>12. ASSUME NEW g \in Agents, Leave(g) PROVE EndpointInv'
  BY <1>12 DEF Leave
<1>13. CASE UNCHANGED endpointVars
  BY <1>13 DEF endpointVars
<1> QED
  BY <1>1, <1>2, <1>3, <1>4, <1>5, <1>6, <1>7, <1>8, <1>9, <1>10, <1>11, <1>12, <1>13
  DEF EndpointNext

THEOREM EndpointStaysSound == EndpointSpec => []EndpointIsSound
<1>1. EndpointInv => EndpointIsSound
  BY DEF EndpointInv, EndpointIsSound, OwnersAreUp, AnswersAreOwners, SocketIsServed
<1> QED
  BY <1>1, EndpointStarts, EndpointSteps, PTL DEF EndpointSpec

-----------------------------------------------------------------------------
(* The session of an agent: orders and pages.                              *)

(* The members of a finite set have an order under every strict total      *)
(* relation: a member's place follows from how many come before it, and    *)
(* Ordered is that sequence.                                               *)
LEMMA OrderedIsSorted ==
  ASSUME NEW S, IsFiniteSet(S), NEW R,
         \A x, y \in S : x # y => <<x, y>> \in R \/ <<y, x>> \in R,
         \A x \in S : <<x, x>> \notin R,
         \A x, y, z \in S : <<x, y>> \in R /\ <<y, z>> \in R => <<x, z>> \in R
  PROVE  /\ Ordered(S, R) \in Seq(S)
         /\ Len(Ordered(S, R)) = Cardinality(S)
         /\ ToSet(Ordered(S, R)) = S
         /\ \A i, j \in DOMAIN Ordered(S, R) :
              i < j => <<Ordered(S, R)[i], Ordered(S, R)[j]>> \in R
<1> DEFINE n == Cardinality(S)
           below(x) == {y \in S : <<y, x>> \in R}
           place == [x \in S |-> Cardinality(below(x)) + 1]
           sorted(s) == \A i, j \in DOMAIN s : i < j => <<s[i], s[j]>> \in R
<1>1. n \in Nat /\ IsFiniteSet(1..n) /\ Cardinality(1..n) = n
  <2>1. n \in Nat
    BY FS_CardinalityType
  <2>2. 1 \in Int /\ n \in Int
    BY <2>1
  <2> HIDE DEF n
  <2> QED  BY <2>1, <2>2, FS_Interval
<1>2. ASSUME NEW x \in S
      PROVE  /\ IsFiniteSet(below(x)) /\ Cardinality(below(x)) \in Nat
             /\ place[x] = Cardinality(below(x)) + 1 /\ place[x] \in 1..n
  <2>1. below(x) \in SUBSET (S \ {x})
    OBVIOUS
  <2>2. IsFiniteSet(S \ {x}) /\ Cardinality(S \ {x}) = n - 1
    BY FS_RemoveElement
  <2>3. IsFiniteSet(below(x)) /\ Cardinality(below(x)) <= n - 1
    <3> HIDE DEF below
    <3> QED  BY <2>1, <2>2, FS_Subset
  <2>4. Cardinality(below(x)) \in Nat
    BY <2>3, FS_CardinalityType
  <2> HIDE DEF below, n
  <2> QED  BY <1>1, <2>3, <2>4
<1>3. ASSUME NEW x \in S, NEW y \in S, <<x, y>> \in R PROVE place[x] < place[y]
  <2>1. below(x) \cup {x} \in SUBSET below(y)
    BY <1>3
  <2>2. x \notin below(x)
    OBVIOUS
  <2>3. IsFiniteSet(below(x) \cup {x}) /\ Cardinality(below(x) \cup {x}) = Cardinality(below(x)) + 1
    <3> HIDE DEF below
    <3> QED  BY <1>2, <2>2, FS_AddElement
  <2>4. Cardinality(below(x) \cup {x}) <= Cardinality(below(y))
    <3> HIDE DEF below
    <3> QED  BY <1>2, <2>1, FS_Subset
  <2> HIDE DEF below, place, n
  <2> QED  BY <1>2, <2>3, <2>4
<1>4. \A x, y \in S : place[x] = place[y] => x = y
  <2> SUFFICES ASSUME NEW x \in S, NEW y \in S, place[x] = place[y], x # y PROVE FALSE
    OBVIOUS
  <2>1. place[x] < place[y] \/ place[y] < place[x]
    <3> HIDE DEF place
    <3> QED  BY <1>3
  <2>2. place[x] \in Nat /\ place[y] \in Nat
    <3> HIDE DEF place, n
    <3>1. place[x] \in 1..n /\ place[y] \in 1..n
      BY <1>2
    <3> QED  BY <1>1, <3>1
  <2> HIDE DEF place
  <2> QED  BY <2>1, <2>2
<1>5. place \in Surjection(S, 1..n)
  <2>1. place \in Injection(S, 1..n)
    <3>1. place \in [S -> 1..n]
      <4> HIDE DEF n, below
      <4> QED  BY <1>2
    <3> HIDE DEF place, n
    <3> QED  BY <1>4, <3>1 DEF Injection, IsInjective
  <2> HIDE DEF place, n
  <2>2. Cardinality(S) = Cardinality(1..n)
    BY <1>1 DEF n
  <2> QED  BY <1>1, <2>1, <2>2, FS_Injection
<1> DEFINE at == [i \in 1..n |-> CHOOSE x \in S : place[x] = i]
<1>6. \A i \in 1..n : at[i] \in S /\ place[at[i]] = i
  <2> HIDE DEF place, n
  <2> QED  BY <1>5 DEF Surjection
<1>7. at \in SetToSeqs(S) /\ sorted(at)
  <2> HIDE DEF place
  <2>1. at \in [1..n -> S]
    BY <1>6
  <2>2. \A i, j \in 1..n : i # j => at[i] # at[j]
    BY <1>6
  <2>3. ASSUME NEW i \in 1..n, NEW j \in 1..n, i < j PROVE <<at[i], at[j]>> \in R
    <3>1. CASE <<at[j], at[i]>> \in R
      <4>1. j < i
        BY <1>3, <1>6, <3>1
      <4>2. i \in Int /\ j \in Int
        OBVIOUS
      <4> QED  BY <2>3, <4>1, <4>2
    <3>2. at[i] # at[j] /\ at[i] \in S /\ at[j] \in S
      <4>1. i # j
        <5>1. i \in Int
          OBVIOUS
        <5> QED  BY <2>3, <5>1
      <4> QED  BY <1>6, <2>2, <4>1
    <3> QED  BY <3>1, <3>2
  <2>4. DOMAIN at = 1..n
    OBVIOUS
  <2> HIDE DEF at
  <2>5. sorted(at)
    BY <2>3, <2>4
  <2> QED  BY <2>1, <2>2, <2>5 DEF SetToSeqs
<1>8. Ordered(S, R) \in SetToSeqs(S) /\ sorted(Ordered(S, R))
  <2> HIDE DEF at
  <2> QED  BY <1>7 DEF Ordered
<1>9. /\ Ordered(S, R) \in [1..n -> S]
      /\ \A i, j \in 1..n : i # j => Ordered(S, R)[i] # Ordered(S, R)[j]
  <2> HIDE DEF sorted
  <2> QED  BY <1>8 DEF SetToSeqs
<1>10. Ordered(S, R) \in Surjection(1..n, S)
  <2> HIDE DEF n
  <2>1. Ordered(S, R) \in Injection(1..n, S)
    BY <1>9 DEF Injection, IsInjective
  <2>2. Cardinality(1..n) = Cardinality(S)
    BY <1>1 DEF n
  <2> QED  BY <2>1, <2>2, FS_Injection
<1>11. ToSet(Ordered(S, R)) = S
  <2> HIDE DEF n
  <2> QED  BY <1>9, <1>10 DEF Surjection, ToSet
<1>12. Ordered(S, R) \in Seq(S) /\ Len(Ordered(S, R)) = n
  <2> HIDE DEF n
  <2> QED  BY <1>1, <1>9
<1> QED  BY <1>8, <1>11, <1>12

(* A listing is a sequence of distinct rows.                               *)
LEMMA ListingType ==
  ASSUME NEW q \in Queries, NEW l \in Listings(q)
  PROVE  /\ l \in Seq(ListRows) /\ Len(l) \in Nat /\ l \in [1..Len(l) -> ListRows]
         /\ \A i, j \in 1..Len(l) : l[i] = l[j] => i = j
         /\ q \in SessionQueries => \A i, j \in 1..Len(l) : i < j => l[i] > l[j]
<1>1. PICK n \in 0..Cardinality(ListRows) : l \in [1..n -> ListRows]
  BY DEF Listings
<1>2. n \in Nat
  <2>1. Cardinality(ListRows) \in Nat
    BY SessionAssumption, FS_CardinalityType
  <2> QED  BY <2>1
<1>3. l \in Seq(ListRows) /\ Len(l) = n
  BY <1>1, <1>2
<1>4. DOMAIN l = 1..Len(l)
  BY <1>1, <1>3
<1>5. IsInjective(l) /\ (q \in SessionQueries => Descending(l))
  BY DEF Listings
<1> QED  BY <1>1, <1>2, <1>3, <1>4, <1>5 DEF IsInjective, Descending

(* The first n rows of a listing.                                          *)
First(l, n) == SubSeq(l, 1, n)

LEMMA MinOfTwo ==
  ASSUME NEW a \in Int, NEW b \in Int
  PROVE  Min({a, b}) = IF a <= b THEN a ELSE b
<1> DEFINE m == IF a <= b THEN a ELSE b
<1>1. m \in {a, b} /\ \A y \in {a, b} : m =< y
  OBVIOUS
<1>2. Min({a, b}) \in {a, b} /\ \A y \in {a, b} : Min({a, b}) =< y
  BY <1>1 DEF Min
<1> QED  BY <1>1, <1>2

(* A slice holds the rows that follow the first `offset` ones.             *)
LEMMA SliceRows ==
  ASSUME NEW q \in Queries, NEW l \in Listings(q), NEW offset \in 0..Len(l), NEW limit \in Nat
  PROVE  LET s == Slice(l, offset, limit)
             e == IF offset + limit <= Len(l) THEN offset + limit ELSE Len(l)
         IN  /\ e \in offset..Len(l)
             /\ s \in Seq(ListRows) /\ Len(s) = e - offset
             /\ \A i \in 1..(e - offset) : s[i] = l[offset + i]
             /\ First(l, offset) \o s = First(l, e)
             /\ ToSet(s) = {l[i] : i \in (offset + 1)..e}
<1> DEFINE s == Slice(l, offset, limit)
           e == IF offset + limit <= Len(l) THEN offset + limit ELSE Len(l)
<1>1. l \in Seq(ListRows) /\ Len(l) \in Nat /\ l \in [1..Len(l) -> ListRows]
  BY ListingType
<1>2. e \in offset..Len(l) /\ e \in Nat /\ offset \in Nat
  BY <1>1
<1>3. s = SubSeq(l, offset + 1, e)
  <2>1. Min({offset + limit, Len(l)}) = e
    BY <1>1, MinOfTwo
  <2> QED  BY <2>1 DEF Slice
<1> HIDE DEF e, s
<1>4. \A i \in offset + 1 .. e : l[i] \in ListRows
  BY <1>1, <1>2
<1>5. /\ SubSeq(l, offset + 1, e) \in Seq(ListRows)
      /\ Len(SubSeq(l, offset + 1, e)) = IF offset + 1 <= e THEN e - (offset + 1) + 1 ELSE 0
      /\ \A i \in 1 .. e - (offset + 1) + 1 :
           SubSeq(l, offset + 1, e)[i] = l[(offset + 1) + i - 1]
  <2>1. offset + 1 \in Int /\ e \in Int
    BY <1>2
  <2> QED  BY <1>4, <2>1, SubSeqProperties
<1>6. s \in Seq(ListRows) /\ Len(s) = e - offset
  BY <1>2, <1>3, <1>5
<1>7. \A i \in 1..(e - offset) : s[i] = l[offset + i]
  <2> TAKE i \in 1..(e - offset)
  <2>1. i \in 1 .. e - (offset + 1) + 1 /\ (offset + 1) + i - 1 = offset + i
    BY <1>2
  <2> QED  BY <1>3, <1>5, <2>1
<1>8. First(l, offset) \o s = First(l, e)
  <2>1. 1 \in 1..Len(l) + 1 /\ offset \in 1 - 1 .. Len(l) /\ e \in offset..Len(l)
    BY <1>1, <1>2
  <2> QED  BY <1>1, <1>3, <2>1, ConcatAdjacentSubSeq DEF First
<1>9. ToSet(s) = {l[i] : i \in (offset + 1)..e}
  <2>1. DOMAIN s = 1..(e - offset)
    BY <1>6
  <2>2. ToSet(s) = {s[i] : i \in 1..(e - offset)}
    BY <2>1 DEF ToSet
  <2>3. ASSUME NEW i \in 1..(e - offset) PROVE s[i] \in {l[k] : k \in (offset + 1)..e}
    <3>1. offset + i \in (offset + 1)..e
      BY <1>2
    <3> QED  BY <1>7, <3>1
  <2>4. ASSUME NEW k \in (offset + 1)..e PROVE \E i \in 1..(e - offset) : s[i] = l[k]
    <3>1. k - offset \in 1..(e - offset) /\ offset + (k - offset) = k
      BY <1>2
    <3> QED  BY <1>7, <3>1
  <2> QED  BY <2>2, <2>3, <2>4
<1> QED  BY <1>2, <1>6, <1>7, <1>8, <1>9 DEF e, s

LEMMA FirstRows ==
  ASSUME NEW q \in Queries, NEW l \in Listings(q), NEW n \in 0..Len(l)
  PROVE  /\ First(l, n) \in Seq(ListRows) /\ Len(First(l, n)) = n
         /\ ToSet(First(l, n)) = {l[i] : i \in 1..n}
         /\ First(l, 0) = <<>> /\ First(l, Len(l)) = l
<1>1. l \in Seq(ListRows) /\ Len(l) \in Nat
  BY ListingType
<1>2. 0 \in 0..Len(l) /\ n \in Nat
  BY <1>1
<1>3. /\ First(l, n) \in Seq(ListRows)
      /\ Len(First(l, n)) = n
      /\ \A i \in 1..n : First(l, n)[i] = l[i]
  <2>1. 1 \in Int /\ n \in Int /\ \A i \in 1..n : l[i] \in ListRows
    BY <1>1, <1>2
  <2>2. /\ SubSeq(l, 1, n) \in Seq(ListRows)
        /\ Len(SubSeq(l, 1, n)) = IF 1 <= n THEN n - 1 + 1 ELSE 0
        /\ \A i \in 1 .. n - 1 + 1 : SubSeq(l, 1, n)[i] = l[1 + i - 1]
    BY <2>1, SubSeqProperties
  <2>3. (IF 1 <= n THEN n - 1 + 1 ELSE 0) = n /\ 1 .. n - 1 + 1 = 1..n
        /\ \A i \in 1..n : 1 + i - 1 = i
    BY <1>2
  <2> QED  BY <2>2, <2>3 DEF First
<1>4. ToSet(First(l, n)) = {l[i] : i \in 1..n}
  <2>1. DOMAIN First(l, n) = 1..n
    BY <1>3
  <2> QED  BY <1>3, <2>1 DEF ToSet
<1>5. First(l, 0) = <<>>
  <2>1. 1 \in Int /\ 0 \in Int /\ 0 < 1
    OBVIOUS
  <2> QED  BY <2>1, SubSeqEmpty DEF First
<1> QED  BY <1>1, <1>3, <1>4, <1>5, SubSeqFull DEF First

(* The rows of a slice are as many as its length.                          *)
LEMMA SliceSize ==
  ASSUME NEW q \in Queries, NEW l \in Listings(q), NEW offset \in 0..Len(l), NEW limit \in Nat
  PROVE  LET s == Slice(l, offset, limit)
         IN  /\ ToSet(s) \subseteq ListRows /\ IsFiniteSet(ToSet(s))
             /\ Cardinality(ToSet(s)) = Len(s) /\ Len(s) \in Nat
<1> DEFINE s == Slice(l, offset, limit)
           e == IF offset + limit <= Len(l) THEN offset + limit ELSE Len(l)
<1>1. Len(l) \in Nat /\ \A i, j \in 1..Len(l) : l[i] = l[j] => i = j
  BY ListingType
<1>2. /\ e \in offset..Len(l)
      /\ s \in Seq(ListRows) /\ Len(s) = e - offset
      /\ \A i \in 1..(e - offset) : s[i] = l[offset + i]
  BY SliceRows
<1> HIDE DEF s, e
<1>3. Len(s) \in Nat
  BY <1>1, <1>2
<1>4. IsFiniteSet(1..Len(s)) /\ Cardinality(1..Len(s)) = Len(s)
  <2> DEFINE n == Len(s)
  <2>1. 1 \in Int /\ n \in Int /\ n \in Nat
    BY <1>3
  <2> HIDE DEF n
  <2>2. IsFiniteSet(1..n) /\ Cardinality(1..n) = IF 1 > n THEN 0 ELSE n - 1 + 1
    BY <2>1, FS_Interval
  <2>3. IsFiniteSet(1..n) /\ Cardinality(1..n) = n
    BY <2>1, <2>2
  <2> QED  BY <2>3 DEF n
<1>5. s \in Bijection(1..Len(s), ToSet(s))
  <2>1. s \in [1..Len(s) -> ToSet(s)] /\ \A r \in ToSet(s) : \E i \in 1..Len(s) : s[i] = r
    BY <1>2 DEF ToSet
  <2>2. ASSUME NEW i \in 1..Len(s), NEW j \in 1..Len(s), s[i] = s[j] PROVE i = j
    <3>1. i \in 1..(e - offset) /\ j \in 1..(e - offset)
      BY <1>2
    <3>2. offset + i \in 1..Len(l) /\ offset + j \in 1..Len(l) /\ i \in Int /\ j \in Int
          /\ offset \in Int
      BY <1>1, <1>2, <3>1
    <3>3. offset + i = offset + j
      BY <1>1, <1>2, <2>2, <3>1, <3>2
    <3> QED  BY <3>2, <3>3
  <2> QED  BY <2>1, <2>2 DEF Bijection, Injection, Surjection, IsInjective
<1>6. IsFiniteSet(ToSet(s)) /\ Cardinality(ToSet(s)) = Len(s)
  BY <1>4, <1>5, FS_Bijection DEF ExistsBijection
<1>7. ToSet(s) \subseteq ListRows
  BY <1>2 DEF ToSet
<1> QED  BY <1>3, <1>6, <1>7 DEF s

(* A page of groups is its slice in another order.                         *)
LEMMA GroupPage ==
  ASSUME NEW q \in GroupQueries, NEW l \in Listings(q), NEW offset \in 0..Len(l),
         NEW limit \in Nat
  PROVE  LET rowsShown == PageShown(q, l, offset, limit)
         IN  /\ rowsShown \in Seq(ListRows) /\ Len(rowsShown) = Len(Slice(l, offset, limit))
             /\ ToSet(rowsShown) = ToSet(Slice(l, offset, limit))
<1> DEFINE rows == ToSet(Slice(l, offset, limit))
<1>1. q \in Queries /\ q \notin SessionQueries
  BY SessionAssumption
<1>2. PageShown(q, l, offset, limit) = Ordered(rows, RankOrder)
  BY <1>1 DEF PageShown
<1>3. rows \subseteq ListRows /\ IsFiniteSet(rows)
      /\ Cardinality(rows) = Len(Slice(l, offset, limit))
  BY <1>1, SliceSize
<1> HIDE DEF rows
<1>4. /\ \A x, y \in rows : x # y => <<x, y>> \in RankOrder \/ <<y, x>> \in RankOrder
      /\ \A x \in rows : <<x, x>> \notin RankOrder
      /\ \A x, y, z \in rows :
           <<x, y>> \in RankOrder /\ <<y, z>> \in RankOrder => <<x, z>> \in RankOrder
  <2>1. Rank \in [ListRows -> Nat] /\ \A x, y \in ListRows : Rank[x] = Rank[y] => x = y
    BY SessionAssumption DEF IsInjective
  <2>2. \A x, y \in rows : <<x, y>> \in RankOrder <=> Rank[x] < Rank[y]
    BY <1>3 DEF RankOrder
  <2> QED  BY <1>3, <2>1, <2>2
<1>5. /\ Ordered(rows, RankOrder) \in Seq(rows)
      /\ Len(Ordered(rows, RankOrder)) = Cardinality(rows)
      /\ ToSet(Ordered(rows, RankOrder)) = rows
  BY <1>3, <1>4, OrderedIsSorted
<1>6. Ordered(rows, RankOrder) \in Seq(ListRows)
  BY <1>3, <1>5
<1> QED  BY <1>2, <1>3, <1>5, <1>6 DEF rows

(* Every finite nonempty set of naturals has a greatest member.            *)
LEMMA MaxIsGreatest ==
  ASSUME NEW S \in SUBSET Nat, IsFiniteSet(S), S # {}
  PROVE  Max(S) \in S /\ \A y \in S : Max(S) >= y
<1> DEFINE R == {p \in Nat \X Nat : p[1] < p[2]}
           s == Ordered(S, R)
<1>1. \A x, y \in S : <<x, y>> \in R <=> x < y
  OBVIOUS
<1>2. /\ \A x, y \in S : x # y => <<x, y>> \in R \/ <<y, x>> \in R
      /\ \A x \in S : <<x, x>> \notin R
      /\ \A x, y, z \in S : <<x, y>> \in R /\ <<y, z>> \in R => <<x, z>> \in R
  BY <1>1
<1> HIDE DEF R
<1>3. /\ s \in Seq(S) /\ Len(s) = Cardinality(S) /\ ToSet(s) = S
      /\ \A i, j \in DOMAIN s : i < j => <<s[i], s[j]>> \in R
  BY <1>2, OrderedIsSorted
<1> HIDE DEF s
<1>4. Len(s) \in Nat \ {0} /\ DOMAIN s = 1..Len(s)
  <2>1. Cardinality(S) \in Nat /\ Cardinality(S) # 0
    BY FS_CardinalityType, FS_EmptySet
  <2> QED  BY <1>3, <2>1
<1>5. Len(s) \in DOMAIN s /\ s[Len(s)] \in S
  BY <1>3, <1>4
<1>6. ASSUME NEW y \in S PROVE s[Len(s)] >= y
  <2>1. PICK i \in DOMAIN s : s[i] = y
    BY <1>3 DEF ToSet
  <2>2. i = Len(s) \/ i < Len(s)
    BY <1>4
  <2>3. CASE i < Len(s)
    <3>1. <<s[i], s[Len(s)]>> \in R /\ s[i] \in S
      BY <1>3, <1>5, <2>1, <2>3
    <3>2. s[i] < s[Len(s)]
      BY <1>1, <1>5, <3>1
    <3>3. s[Len(s)] \in Nat /\ y \in Nat
      BY <1>5
    <3> QED  BY <2>1, <3>2, <3>3
  <2>4. CASE i = Len(s)
    <3>1. s[Len(s)] = y /\ y \in Nat
      BY <2>1, <2>4
    <3> QED  BY <3>1
  <2> QED  BY <2>2, <2>3, <2>4
<1> QED  BY <1>5, <1>6 DEF Max

(* What LastEnd is for a session one of the runs belongs to.               *)
LEMMA LastEndType ==
  ASSUME NEW runs \in Seq(ListRows), IsFiniteSet(ToSet(runs)), ToSet(runs) \subseteq ListRows,
         NEW r \in ToSet(runs)
  PROVE  LET s == SessionOf[r]
         IN  /\ LastEnd(runs, s) \in Nat /\ LastEnd(runs, s) >= EndsAt[r]
             /\ \E u \in ToSet(runs) : SessionOf[u] = s /\ LastEnd(runs, s) = EndsAt[u]
<1> DEFINE s == SessionOf[r]
           of == {u \in ToSet(runs) : SessionOf[u] = s}
           ends == {EndsAt[u] : u \in of}
           f == [u \in of |-> EndsAt[u]]
<1>1. EndsAt \in [ListRows -> Nat]
  BY SessionAssumption
<1>2. ends \in SUBSET Nat /\ ends # {} /\ EndsAt[r] \in ends
  BY <1>1
<1>3. IsFiniteSet(ends)
  <2>1. IsFiniteSet(of)
    BY FS_Subset
  <2>2. f \in Surjection(of, ends)
    <3> HIDE DEF of
    <3> QED  BY DEF Surjection
  <2> HIDE DEF f, ends, of
  <2> QED  BY <2>1, <2>2, FS_Surjection
<1>4. Max(ends) \in ends /\ \A y \in ends : Max(ends) >= y
  <2> HIDE DEF ends
  <2> QED  BY <1>2, <1>3, MaxIsGreatest
<1>5. LastEnd(runs, s) = Max(ends)
  BY DEF LastEnd
<1>6. LastEnd(runs, s) \in Nat /\ LastEnd(runs, s) >= EndsAt[r]
  <2> HIDE DEF ends
  <2> QED  BY <1>2, <1>4, <1>5
<1>7. \E u \in ToSet(runs) : SessionOf[u] = s /\ LastEnd(runs, s) = EndsAt[u]
  BY <1>4, <1>5
<1> QED  BY <1>6, <1>7

(* The sessions of some runs: each once, in the order of their last ends.  *)
LEMMA SessionsOfRuns ==
  ASSUME NEW runs \in Seq(ListRows), IsFiniteSet(ToSet(runs)), ToSet(runs) \subseteq ListRows
  PROVE  LET s == Sessions(runs)
             S == {SessionOf[r] : r \in ToSet(runs)}
         IN  /\ s \in Seq(ListRows) /\ Len(s) = Cardinality(S) /\ ToSet(s) = S
             /\ IsFiniteSet(S) /\ Cardinality(S) <= Cardinality(ToSet(runs))
             /\ \A i, j \in DOMAIN s : i < j =>
                  s[i] # s[j] /\ LastEnd(runs, s[i]) >= LastEnd(runs, s[j])
<1> DEFINE S == {SessionOf[r] : r \in ToSet(runs)}
           R == NewestFirst(runs)
           f == [r \in ToSet(runs) |-> SessionOf[r]]
<1>1. S \subseteq ListRows /\ S \subseteq Nat
  BY SessionAssumption
<1>2. IsFiniteSet(S) /\ Cardinality(S) <= Cardinality(ToSet(runs))
  <2>1. f \in Surjection(ToSet(runs), S)
    BY DEF Surjection
  <2> HIDE DEF f, S
  <2> QED  BY <2>1, FS_Surjection
<1>3. \A x \in S : LastEnd(runs, x) \in Nat
  <2> TAKE x \in S
  <2>1. PICK r \in ToSet(runs) : x = SessionOf[r]
    OBVIOUS
  <2> QED  BY <2>1, LastEndType
<1> HIDE DEF S
<1>4. \A x, y \in S :
        <<x, y>> \in R <=> \/ LastEnd(runs, x) > LastEnd(runs, y)
                           \/ LastEnd(runs, x) = LastEnd(runs, y) /\ x < y
  BY <1>1 DEF NewestFirst
<1> HIDE DEF R
<1>5. /\ \A x, y \in S : x # y => <<x, y>> \in R \/ <<y, x>> \in R
      /\ \A x \in S : <<x, x>> \notin R
      /\ \A x, y, z \in S : <<x, y>> \in R /\ <<y, z>> \in R => <<x, z>> \in R
  <2>1. \A x, y \in S : x # y => <<x, y>> \in R \/ <<y, x>> \in R
    BY <1>1, <1>3, <1>4
  <2>2. \A x \in S : <<x, x>> \notin R
    BY <1>1, <1>3, <1>4
  <2>3. ASSUME NEW x \in S, NEW y \in S, NEW z \in S, <<x, y>> \in R, <<y, z>> \in R
        PROVE  <<x, z>> \in R
    BY <1>1, <1>3, <1>4, <2>3
  <2> QED  BY <2>1, <2>2, <2>3
<1>6. /\ Ordered(S, R) \in Seq(S) /\ Len(Ordered(S, R)) = Cardinality(S)
      /\ ToSet(Ordered(S, R)) = S
      /\ \A i, j \in DOMAIN Ordered(S, R) :
           i < j => <<Ordered(S, R)[i], Ordered(S, R)[j]>> \in R
  BY <1>2, <1>5, OrderedIsSorted
<1>7. Sessions(runs) = Ordered(S, R)
  BY DEF Sessions, S, R
<1> DEFINE s == Sessions(runs)
<1>8. ASSUME NEW i \in DOMAIN s, NEW j \in DOMAIN s, i < j
      PROVE  s[i] # s[j] /\ LastEnd(runs, s[i]) >= LastEnd(runs, s[j])
  <2>1. <<s[i], s[j]>> \in R /\ s[i] \in S /\ s[j] \in S
    <3>1. s[i] \in ToSet(s) /\ s[j] \in ToSet(s)
      BY DEF ToSet
    <3> QED  BY <1>6, <1>7, <1>8, <3>1
  <2>2. ASSUME NEW x \in S, NEW y \in S, <<x, y>> \in R
        PROVE  x # y /\ LastEnd(runs, x) >= LastEnd(runs, y)
    BY <1>1, <1>3, <1>4, <2>2
  <2> HIDE DEF s
  <2> QED  BY <2>1, <2>2
<1>9. s \in Seq(ListRows)
  <2> HIDE DEF s
  <2>1. Ordered(S, R) \in Seq(ListRows)
    BY <1>1, <1>6, SeqMonotonic
  <2> QED  BY <1>7, <2>1 DEF s
<1> QED  BY <1>2, <1>6, <1>7, <1>8, <1>9 DEF S

SessionsOf(rows) == {SessionOf[r] : r \in rows}

(* A page is a sequence of rows.                                           *)
LEMMA PageType ==
  ASSUME NEW q \in Queries, NEW l \in Listings(q), NEW offset \in 0..Len(l), NEW limit \in Limits
  PROVE  LET runs == Runs(l, offset, limit)
             rowsShown == PageShown(q, l, offset, limit)
         IN  /\ limit \in Nat \ {0} /\ limit <= MaximumPage
             /\ runs \in Seq(ListRows) /\ IsFiniteSet(ToSet(runs)) /\ ToSet(runs) \subseteq ListRows
             /\ Cardinality(ToSet(runs)) = Len(runs) /\ Len(runs) \in Nat
             /\ rowsShown \in Seq(ListRows)
             /\ q \in SessionQueries => ToSet(rowsShown) \subseteq SessionsOf(ToSet(runs))
<1> DEFINE runs == Runs(l, offset, limit)
           rowsShown == PageShown(q, l, offset, limit)
           s == Sessions(runs)
<1>1. limit \in Nat \ {0} /\ limit <= MaximumPage /\ MaximumPage \in Nat
  BY SessionAssumption
<1>2. PICK m \in Nat : runs = Slice(l, offset, m)
  <2>1. Min({limit + 1, MaximumPage}) \in Nat
    BY <1>1, MinOfTwo
  <2> QED  BY <2>1 DEF Runs
<1> HIDE DEF runs
<1>3. /\ runs \in Seq(ListRows) /\ IsFiniteSet(ToSet(runs)) /\ ToSet(runs) \subseteq ListRows
      /\ Cardinality(ToSet(runs)) = Len(runs) /\ Len(runs) \in Nat
  BY <1>2, SliceRows, SliceSize
<1>4. ASSUME q \in SessionQueries
      PROVE  rowsShown \in Seq(ListRows) /\ ToSet(rowsShown) \subseteq SessionsOf(ToSet(runs))
  <2>1. s \in Seq(ListRows) /\ ToSet(s) = SessionsOf(ToSet(runs))
    BY <1>3, SessionsOfRuns DEF SessionsOf
  <2> DEFINE n == Min({limit, Len(s)})
  <2>2. rowsShown = SubSeq(s, 1, n)
    BY <1>4 DEF PageShown, runs
  <2>3. n \in Nat /\ n <= Len(s) /\ Len(s) \in Nat
    <3>1. Len(s) \in Nat
      BY <2>1
    <3> QED  BY <1>1, <3>1, MinOfTwo
  <2> HIDE DEF n, s
  <2>4. 1 \in Int /\ n \in Int /\ \A i \in 1..n : s[i] \in ListRows
    BY <2>1, <2>3
  <2>5. /\ rowsShown \in Seq(ListRows)
        /\ Len(rowsShown) = IF 1 <= n THEN n - 1 + 1 ELSE 0
        /\ \A i \in 1 .. n - 1 + 1 : rowsShown[i] = s[1 + i - 1]
    BY <2>2, <2>4, SubSeqProperties
  <2>6. Len(rowsShown) = n /\ DOMAIN rowsShown = 1..n /\ \A i \in 1..n : rowsShown[i] = s[i]
    <3>1. (IF 1 <= n THEN n - 1 + 1 ELSE 0) = n /\ 1 .. n - 1 + 1 = 1..n
          /\ \A i \in 1..n : 1 + i - 1 = i
      BY <2>3
    <3> QED  BY <2>5, <3>1
  <2>7. 1..n \subseteq DOMAIN s
    BY <2>1, <2>3
  <2> QED  BY <2>1, <2>5, <2>6, <2>7 DEF ToSet
<1>5. ASSUME q \in GroupQueries PROVE rowsShown \in Seq(ListRows)
  BY <1>1, <1>5, GroupPage
<1>6. ASSUME q \notin SessionQueries, q \notin GroupQueries PROVE rowsShown \in Seq(ListRows)
  <2>1. rowsShown = Slice(l, offset, limit)
    BY <1>6 DEF PageShown
  <2> QED  BY <1>1, <2>1, SliceRows
<1> QED  BY <1>1, <1>3, <1>4, <1>5, <1>6 DEF runs

(* One run more than the page has is enough: a session that is cut off is  *)
(* that of this last run alone, and the next page has it.                  *)
LEMMA SessionPage ==
  ASSUME NEW q \in SessionQueries, NEW l \in Listings(q), NEW offset \in 0..Len(l),
         NEW limit \in Limits, limit < MaximumPage, Timely
  PROVE  LET e == IF offset + limit <= Len(l) THEN offset + limit ELSE Len(l)
         IN  /\ Len(Runs(l, offset, limit)) > limit <=> offset + limit < Len(l)
             /\ \A i \in (offset + 1)..e : SessionOf[l[i]] \in ToSet(PageShown(q, l, offset, limit))
<1> DEFINE runs == Runs(l, offset, limit)
           rowsShown == PageShown(q, l, offset, limit)
           e == IF offset + limit <= Len(l) THEN offset + limit ELSE Len(l)
           last == IF offset + (limit + 1) <= Len(l) THEN offset + (limit + 1) ELSE Len(l)
           s == Sessions(runs)
           S == SessionsOf(ToSet(runs))
<1>1. /\ q \in Queries /\ limit \in Nat \ {0} /\ MaximumPage \in Nat /\ offset \in Nat
      /\ Len(l) \in Nat /\ offset <= Len(l) /\ l \in [1..Len(l) -> ListRows]
      /\ \A i, j \in 1..Len(l) : i < j => l[i] > l[j]
  <2>1. q \in Queries
    BY SessionAssumption
  <2>2. limit \in Nat \ {0} /\ MaximumPage \in Nat
    BY SessionAssumption
  <2> QED  BY <2>1, <2>2, ListingType
<1>2. runs = Slice(l, offset, limit + 1)
  <2>1. Min({limit + 1, MaximumPage}) = limit + 1
    BY <1>1, MinOfTwo
  <2> QED  BY <2>1 DEF Runs
<1>3. /\ last \in offset..Len(l) /\ Len(runs) = last - offset
      /\ ToSet(runs) = {l[i] : i \in (offset + 1)..last}
  <2> DEFINE more == limit + 1
  <2>1. more \in Nat /\ runs = Slice(l, offset, more)
    BY <1>1, <1>2
  <2>2. last = IF offset + more <= Len(l) THEN offset + more ELSE Len(l)
    OBVIOUS
  <2> DEFINE c == IF offset + more <= Len(l) THEN offset + more ELSE Len(l)
             slice == Slice(l, offset, more)
  <2> HIDE DEF more, runs, last
  <2>3. /\ c \in offset..Len(l) /\ Len(slice) = c - offset
        /\ ToSet(slice) = {l[i] : i \in (offset + 1)..c}
    <3>1. q \in Queries /\ more \in Nat
      BY <1>1, <2>1
    <3>2. /\ c \in offset..Len(l)
          /\ slice \in Seq(ListRows) /\ Len(slice) = c - offset
          /\ \A i \in 1..(c - offset) : slice[i] = l[offset + i]
          /\ First(l, offset) \o slice = First(l, c)
          /\ ToSet(slice) = {l[i] : i \in (offset + 1)..c}
      BY ONLY <3>1, l \in Listings(q), offset \in 0..Len(l), SliceRows
    <3> QED  BY <3>2
  <2> HIDE DEF c, slice
  <2>4. last = c /\ runs = slice
    BY <2>1, <2>2 DEF c, slice
  <2> QED  BY <2>3, <2>4
<1>4. /\ runs \in Seq(ListRows) /\ IsFiniteSet(ToSet(runs)) /\ ToSet(runs) \subseteq ListRows
      /\ Cardinality(ToSet(runs)) = Len(runs) /\ Len(runs) \in Nat
  BY <1>1, PageType
<1>5. rowsShown = SubSeq(s, 1, Min({limit, Len(s)}))
  BY DEF PageShown
<1> HIDE DEF rowsShown, runs
<1>6. /\ s \in Seq(ListRows) /\ Len(s) = Cardinality(S) /\ ToSet(s) = S
      /\ IsFiniteSet(S) /\ Len(s) <= Len(runs)
      /\ \A i, j \in DOMAIN s : i < j => LastEnd(runs, s[i]) >= LastEnd(runs, s[j])
  BY <1>4, SessionsOfRuns DEF SessionsOf
<1> HIDE DEF s
<1>7. Len(runs) > limit <=> offset + limit < Len(l)
  BY <1>1, <1>3
<1>8. e \in offset..last /\ last \in e..e + 1 /\ last \in Nat /\ e \in Nat
  BY <1>1, <1>3
<1>9. ASSUME NEW i \in (offset + 1)..e PROVE SessionOf[l[i]] \in ToSet(rowsShown)
  <2> DEFINE r == l[i]
             x == SessionOf[r]
  <2>1. r \in ToSet(runs) /\ r \in ListRows /\ i \in 1..Len(l) /\ i \in Nat
    <3>1. i \in (offset + 1)..last /\ i \in 1..Len(l) /\ i \in Nat
      BY <1>1, <1>3, <1>8
    <3> QED  BY <1>1, <1>3, <3>1
  <2>2. PICK k \in 1..Len(s) : s[k] = x
    <3>1. x \in ToSet(s)
      BY <1>6, <2>1 DEF SessionsOf
    <3>2. DOMAIN s = 1..Len(s)
      BY <1>6
    <3> QED  BY <3>1, <3>2 DEF ToSet
  <2>3. Len(s) \in Nat /\ k \in Nat
    BY <1>6
  <2>4. ASSUME k <= limit PROVE x \in ToSet(rowsShown)
    <3> DEFINE n == Min({limit, Len(s)})
    <3>1. n \in Nat /\ k <= n /\ n <= Len(s)
      BY <1>1, <2>3, <2>4, MinOfTwo
    <3> HIDE DEF n
    <3>2. 1 \in Int /\ n \in Int /\ \A j \in 1..n : s[j] \in ListRows
      BY <1>6, <2>3, <3>1
    <3>3. rowsShown = SubSeq(s, 1, n)
      BY <1>5 DEF n
    <3>4. /\ rowsShown \in Seq(ListRows)
          /\ Len(rowsShown) = IF 1 <= n THEN n - 1 + 1 ELSE 0
          /\ \A j \in 1 .. n - 1 + 1 : rowsShown[j] = s[1 + j - 1]
      BY <3>2, <3>3, SubSeqProperties
    <3>5. k \in 1 .. n - 1 + 1 /\ 1 + k - 1 = k /\ (IF 1 <= n THEN n - 1 + 1 ELSE 0) = n
      BY <2>3, <3>1
    <3>6. rowsShown[k] = s[k] /\ k \in DOMAIN rowsShown
      BY <3>1, <3>4, <3>5
    <3> QED  BY <2>2, <3>6 DEF ToSet
  <2>5. ASSUME k > limit PROVE FALSE
    <3> DEFINE u == l[last]
    <3>1. Len(s) = limit + 1 /\ k = Len(s) /\ Len(runs) = limit + 1 /\ last = offset + (limit + 1)
      BY <1>1, <1>3, <1>4, <1>6, <2>3, <2>5
    <3>2. i < last /\ last \in 1..Len(l) /\ last \in (offset + 1)..last
      BY <1>1, <1>3, <1>8, <3>1
    <3>3. u \in ToSet(runs) /\ u \in ListRows /\ u < r /\ u # r
      <4>1. u \in ToSet(runs) /\ u \in ListRows
        BY <1>1, <1>3, <3>2
      <4>2. r > u
        BY <1>1, <2>1, <3>2
      <4>3. r \in Nat /\ u \in Nat
        BY <2>1, <4>1, SessionAssumption
      <4> QED  BY <4>1, <4>2, <4>3
    <3> HIDE DEF u, r
    <3>4. \A v, w \in ToSet(runs) : SessionOf[v] = SessionOf[w] => v = w
      <4> DEFINE f == [v \in ToSet(runs) |-> SessionOf[v]]
      <4>1. f \in Surjection(ToSet(runs), S)
        BY DEF Surjection, SessionsOf
      <4>2. Cardinality(ToSet(runs)) = Cardinality(S)
        BY <1>4, <1>6, <3>1
      <4>3. f \in Injection(ToSet(runs), S)
        <5> HIDE DEF f, S
        <5> QED  BY <1>4, <4>1, <4>2, FS_SurjSameCardinalityImpliesInj
      <4> QED  BY <4>3 DEF Injection, IsInjective
    <3>5. PICK m \in 1..Len(s) : s[m] = SessionOf[u]
      <4>1. SessionOf[u] \in ToSet(s)
        BY <1>6, <3>3 DEF SessionsOf
      <4>2. DOMAIN s = 1..Len(s)
        BY <1>6
      <4> QED  BY <4>1, <4>2 DEF ToSet
    <3>6. m < k
      <4>1. m # k
        BY <2>1, <2>2, <3>3, <3>4, <3>5
      <4> QED  BY <2>3, <3>1, <4>1
    <3>7. LastEnd(runs, SessionOf[u]) >= LastEnd(runs, x)
      <4>1. m \in DOMAIN s /\ k \in DOMAIN s
        BY <1>6
      <4> QED  BY <1>6, <2>2, <3>5, <3>6, <4>1
    <3>8. LastEnd(runs, SessionOf[u]) = EndsAt[u]
      BY <1>4, <3>3, <3>4, LastEndType
    <3>9. LastEnd(runs, x) \in Nat /\ LastEnd(runs, x) >= EndsAt[r]
      BY <1>4, <2>1, LastEndType
    <3>10. EndsAt[u] < EndsAt[r] /\ EndsAt[u] \in Nat /\ EndsAt[r] \in Nat
      BY <2>1, <3>3, SessionAssumption DEF Timely
    <3> HIDE DEF x
    <3> QED  BY <3>7, <3>8, <3>9, <3>10
  <2> QED  BY <1>1, <2>3, <2>4, <2>5
<1> QED  BY <1>7, <1>9 DEF rowsShown, runs

(* What a walk with pages of `limit` rows has shown of the first n rows.   *)
Shows(q, limit, shown, l, n) ==
  /\ q \in SessionQueries /\ limit < MaximumPage /\ Timely =>
       /\ \A i \in 1..n : SessionOf[l[i]] \in ToSet(shown)
       /\ ToSet(shown) \subseteq SessionsOf(ToSet(l))
  /\ q \in GroupQueries => Len(shown) = n /\ ToSet(shown) = {l[i] : i \in 1..n}
  /\ q \notin SessionQueries \cup GroupQueries => shown = First(l, n)

LEMMA NothingShown ==
  ASSUME NEW q \in Queries, NEW l \in Listings(q), NEW limit
  PROVE  Shows(q, limit, <<>>, l, 0)
<1>1. First(l, 0) = <<>>
  <2>1. Len(l) \in Nat
    BY ListingType
  <2>2. 0 \in 0..Len(l)
    BY <2>1
  <2> QED  BY <2>2, FirstRows
<1>2. ToSet(<<>>) = {} /\ Len(<<>>) = 0 /\ 1..0 = {}
  BY DEF ToSet
<1> QED  BY <1>1, <1>2 DEF Shows

LEMMA ToSetConcat ==
  ASSUME NEW S, NEW a \in Seq(S), NEW b \in Seq(S)
  PROVE  a \o b \in Seq(S) /\ Len(a \o b) = Len(a) + Len(b) /\ ToSet(a \o b) = ToSet(a) \cup ToSet(b)
<1> DEFINE c == a \o b
<1>1. /\ c \in Seq(S) /\ Len(c) = Len(a) + Len(b)
      /\ \A i \in 1 .. Len(a) + Len(b) : c[i] = IF i <= Len(a) THEN a[i] ELSE b[i - Len(a)]
  BY ConcatProperties
<1>2. DOMAIN a = 1..Len(a) /\ DOMAIN b = 1..Len(b) /\ DOMAIN c = 1..Len(a) + Len(b)
      /\ Len(a) \in Nat /\ Len(b) \in Nat
  BY <1>1
<1> HIDE DEF c
<1>3. ASSUME NEW x \in ToSet(c) PROVE x \in ToSet(a) \cup ToSet(b)
  <2>1. PICK i \in 1..Len(a) + Len(b) : c[i] = x
    BY <1>2 DEF ToSet
  <2>2. CASE i <= Len(a)
    <3>1. i \in 1..Len(a) /\ a[i] = x
      BY <1>1, <1>2, <2>1, <2>2
    <3> QED  BY <1>2, <3>1 DEF ToSet
  <2>3. CASE ~(i <= Len(a))
    <3>1. i - Len(a) \in 1..Len(b) /\ b[i - Len(a)] = x
      BY <1>1, <1>2, <2>1, <2>3
    <3> QED  BY <1>2, <3>1 DEF ToSet
  <2> QED  BY <2>2, <2>3
<1>4. ASSUME NEW x \in ToSet(a) PROVE x \in ToSet(c)
  <2>1. PICK i \in 1..Len(a) : a[i] = x
    BY <1>2 DEF ToSet
  <2>2. i \in 1..Len(a) + Len(b) /\ c[i] = x
    BY <1>1, <1>2, <2>1
  <2> QED  BY <1>2, <2>2 DEF ToSet
<1>5. ASSUME NEW x \in ToSet(b) PROVE x \in ToSet(c)
  <2>1. PICK i \in 1..Len(b) : b[i] = x
    BY <1>2 DEF ToSet
  <2>2. i + Len(a) \in 1..Len(a) + Len(b) /\ ~(i + Len(a) <= Len(a)) /\ (i + Len(a)) - Len(a) = i
    BY <1>2
  <2>3. c[i + Len(a)] = x
    BY <1>1, <2>1, <2>2
  <2> QED  BY <1>2, <2>2, <2>3 DEF ToSet
<1> QED  BY <1>1, <1>3, <1>4, <1>5 DEF c

(* Another page adds its rows to what was shown.                           *)
LEMMA PageExtends ==
  ASSUME NEW q \in Queries, NEW l \in Listings(q), NEW offset \in 0..Len(l),
         NEW limit \in Limits, NEW shown \in Seq(ListRows), Shows(q, limit, shown, l, offset)
  PROVE  Shows(q, limit, shown \o PageShown(q, l, offset, limit), l,
               IF offset + limit <= Len(l) THEN offset + limit ELSE Len(l))
<1> DEFINE rowsShown == PageShown(q, l, offset, limit)
           next == shown \o rowsShown
           e == IF offset + limit <= Len(l) THEN offset + limit ELSE Len(l)
           slice == Slice(l, offset, limit)
<1>1. limit \in Nat /\ rowsShown \in Seq(ListRows) /\ Len(l) \in Nat /\ offset \in Nat
  BY PageType, ListingType
<1>2. Len(next) = Len(shown) + Len(rowsShown) /\ ToSet(next) = ToSet(shown) \cup ToSet(rowsShown)
  BY <1>1, ToSetConcat
<1>3. /\ e \in offset..Len(l)
      /\ slice \in Seq(ListRows) /\ Len(slice) = e - offset
      /\ \A i \in 1..(e - offset) : slice[i] = l[offset + i]
      /\ First(l, offset) \o slice = First(l, e)
      /\ ToSet(slice) = {l[i] : i \in (offset + 1)..e}
  BY ONLY <1>1, q \in Queries, l \in Listings(q), offset \in 0..Len(l), SliceRows
<1>4. 1..e = 1..offset \cup (offset + 1)..e
  BY <1>1, <1>3
<1>5. ASSUME q \in SessionQueries, limit < MaximumPage, Timely
      PROVE  /\ \A i \in 1..e : SessionOf[l[i]] \in ToSet(next)
             /\ ToSet(next) \subseteq SessionsOf(ToSet(l))
  <2>1. /\ \A i \in 1..offset : SessionOf[l[i]] \in ToSet(shown)
        /\ ToSet(shown) \subseteq SessionsOf(ToSet(l))
    BY <1>5 DEF Shows
  <2>2. \A i \in (offset + 1)..e : SessionOf[l[i]] \in ToSet(rowsShown)
    BY <1>5, SessionPage
  <2>3. ToSet(rowsShown) \subseteq SessionsOf(ToSet(l))
    <3> DEFINE runs == Runs(l, offset, limit)
    <3>1. ToSet(rowsShown) \subseteq SessionsOf(ToSet(runs))
      BY <1>5, PageType
    <3>2. ToSet(runs) \subseteq ToSet(l)
      <4>1. PICK m \in Nat : runs = Slice(l, offset, m)
        <5>1. Min({limit + 1, MaximumPage}) \in Nat
          <6>1. MaximumPage \in Nat
            BY SessionAssumption
          <6> QED  BY <1>1, <6>1, MinOfTwo
        <5> QED  BY <5>1 DEF Runs
      <4> DEFINE k == IF offset + m <= Len(l) THEN offset + m ELSE Len(l)
      <4> HIDE DEF runs, k
      <4>2. k \in offset..Len(l) /\ ToSet(runs) = {l[i] : i \in (offset + 1)..k}
        <5>1. LET t == Slice(l, offset, m)
              IN  /\ k \in offset..Len(l)
                  /\ t \in Seq(ListRows) /\ Len(t) = k - offset
                  /\ \A i \in 1..(k - offset) : t[i] = l[offset + i]
                  /\ First(l, offset) \o t = First(l, k)
                  /\ ToSet(t) = {l[i] : i \in (offset + 1)..k}
          BY ONLY q \in Queries, l \in Listings(q), offset \in 0..Len(l), m \in Nat, SliceRows DEF k
        <5> QED  BY <4>1, <5>1
      <4>3. (offset + 1)..k \subseteq 1..Len(l) /\ DOMAIN l = 1..Len(l)
        BY <1>1, <4>2, ListingType
      <4> QED  BY <4>2, <4>3 DEF ToSet
    <3> QED  BY <3>1, <3>2 DEF SessionsOf
  <2> HIDE DEF rowsShown, next, e
  <2> QED  BY <1>2, <1>4, <2>1, <2>2, <2>3
<1>6. ASSUME q \in GroupQueries
      PROVE  Len(next) = e /\ ToSet(next) = {l[i] : i \in 1..e}
  <2>1. Len(shown) = offset /\ ToSet(shown) = {l[i] : i \in 1..offset}
    BY <1>6 DEF Shows
  <2>2. Len(rowsShown) = e - offset /\ ToSet(rowsShown) = {l[i] : i \in (offset + 1)..e}
    <3>1. Len(rowsShown) = Len(slice) /\ ToSet(rowsShown) = ToSet(slice)
      BY ONLY <1>1, <1>6, l \in Listings(q), offset \in 0..Len(l), GroupPage
    <3> HIDE DEF e, slice, rowsShown
    <3> QED  BY ONLY <1>3, <3>1
  <2> HIDE DEF rowsShown, next, e
  <2>3. Len(next) = e
    BY <1>1, <1>2, <1>3, <2>1, <2>2
  <2>4. ToSet(next) = {l[i] : i \in 1..e}
    BY <1>2, <1>4, <2>1, <2>2
  <2> QED  BY <2>3, <2>4
<1>7. ASSUME q \notin SessionQueries \cup GroupQueries PROVE next = First(l, e)
  <2>1. shown = First(l, offset) /\ rowsShown = slice
    BY <1>7 DEF Shows, PageShown
  <2> HIDE DEF e, rowsShown, slice
  <2> QED  BY <1>3, <2>1
<1> HIDE DEF next, e
<1>8. Shows(q, limit, next, l, e)
  BY <1>5, <1>6, <1>7 DEF Shows
<1> QED  BY <1>8 DEF next, e, rowsShown

(* There is more exactly when the listing goes on, but for pages of the    *)
(* largest size, whose next run list_sessions does not look for.           *)
LEMMA MoreMeans ==
  ASSUME NEW q \in Queries, NEW l \in Listings(q), NEW offset \in 0..Len(l),
         NEW limit \in Limits, NEW total, q \in RunQueries => total = Len(l)
  PROVE  /\ More(q, l, offset, limit, total) => offset + limit < Len(l)
         /\ q \notin SessionQueries \/ (limit < MaximumPage /\ Timely) =>
              (offset + limit < Len(l) => More(q, l, offset, limit, total))
<1>1. CASE q \notin SessionQueries
  BY <1>1 DEF More
<1>2. CASE q \in SessionQueries /\ limit < MaximumPage /\ Timely
  BY <1>2, SessionPage DEF More
<1>3. ASSUME q \in SessionQueries, More(q, l, offset, limit, total)
      PROVE  offset + limit < Len(l)
  <2> DEFINE runs == Runs(l, offset, limit)
             m == Min({limit + 1, MaximumPage})
             k == IF offset + m <= Len(l) THEN offset + m ELSE Len(l)
  <2>1. limit \in Nat /\ offset \in Nat /\ Len(l) \in Nat /\ MaximumPage \in Nat
    BY PageType, ListingType, SessionAssumption
  <2>2. m \in Nat
    BY <2>1, MinOfTwo
  <2>3. runs = Slice(l, offset, m) /\ Len(runs) > limit
    BY <1>3 DEF More, Runs
  <2> HIDE DEF runs, m, k
  <2>4. LET t == Slice(l, offset, m)
        IN  /\ k \in offset..Len(l)
            /\ t \in Seq(ListRows) /\ Len(t) = k - offset
            /\ \A i \in 1..(k - offset) : t[i] = l[offset + i]
            /\ First(l, offset) \o t = First(l, k)
            /\ ToSet(t) = {l[i] : i \in (offset + 1)..k}
    BY ONLY <2>2, q \in Queries, l \in Listings(q), offset \in 0..Len(l), SliceRows DEF k
  <2>5. k \in offset..Len(l) /\ Len(runs) = k - offset
    BY <2>3, <2>4
  <2> QED  BY <2>1, <2>3, <2>5
<1> QED  BY <1>1, <1>2, <1>3

(* A page is a sequence of rows also when its offset lies behind the end   *)
(* of a listing that has shrunk.                                           *)
LEMMA PageOfRows ==
  ASSUME NEW q \in Queries, NEW l \in Listings(q), NEW offset \in Nat, NEW limit \in Limits
  PROVE  PageShown(q, l, offset, limit) \in Seq(ListRows)
<1>1. Len(l) \in Nat /\ limit \in Nat /\ MaximumPage \in Nat
  <2>1. Len(l) \in Nat
    BY ListingType
  <2>2. limit \in Nat /\ MaximumPage \in Nat
    BY SessionAssumption
  <2> QED  BY <2>1, <2>2
<1>2. CASE offset <= Len(l)
  <2>1. offset \in 0..Len(l)
    BY <1>1, <1>2
  <2> QED  BY <2>1, PageType
<1>3. CASE offset > Len(l)
  <2>1. ASSUME NEW m \in Nat PROVE Slice(l, offset, m) = Slice(l, Len(l), m)
    <3>1. Min({offset + m, Len(l)}) = Len(l) /\ Min({Len(l) + m, Len(l)}) = Len(l)
      <4>1. offset + m \in Int /\ Len(l) \in Int /\ Len(l) + m \in Int
        BY <1>1
      <4>2. ~(offset + m <= Len(l)) /\ (Len(l) + m <= Len(l) => Len(l) + m = Len(l))
        BY <1>1, <1>3
      <4> QED  BY <4>1, <4>2, MinOfTwo
    <3>2. offset + 1 \in Int /\ Len(l) + 1 \in Int /\ Len(l) \in Int
          /\ Len(l) < offset + 1 /\ Len(l) < Len(l) + 1
      BY <1>1, <1>3
    <3>3. SubSeq(l, offset + 1, Len(l)) = <<>> /\ SubSeq(l, Len(l) + 1, Len(l)) = <<>>
      BY <3>2, SubSeqEmpty
    <3> QED  BY <3>1, <3>3 DEF Slice
  <2>2. Min({limit + 1, MaximumPage}) \in Nat
    BY <1>1, MinOfTwo
  <2>3. PageShown(q, l, offset, limit) = PageShown(q, l, Len(l), limit)
    BY <1>1, <2>1, <2>2 DEF PageShown, Runs
  <2>4. Len(l) \in 0..Len(l)
    BY <1>1
  <2> QED  BY <2>3, <2>4, PageType
<1> QED  BY <1>1, <1>2, <1>3

-----------------------------------------------------------------------------
(* Sessions.                                                               *)

Cursors == [query : Queries, limit : Nat, offset : Nat, sequence : Nat,
            shown : Seq(ListRows), spoilt : BOOLEAN]
Asking == [at : {"registered", "waiting", "begun"}, query : Queries, limit : Limits,
           cursor : Cursors, listed : {TRUE}, woken : BOOLEAN]
Reading == [at : {"count", "rows"}, query : Queries, limit : Limits, cursor : Cursors,
            sequence : Nat, snapshot : Seq(ListRows), total : Nat]

(* A cursor that still fits the sequence belongs to the listing as it is.  *)
Follows(c) ==
  /\ c \in Cursors /\ c.offset > 0 /\ c.sequence <= sequence
  /\ ~c.spoilt /\ c.sequence = sequence =>
       /\ c.offset <= Len(listing[c.query])
       /\ Shows(c.query, c.limit, c.shown, listing[c.query], c.offset)

(* What a request brings, and what a call knows while it reads.            *)
Asks(c) ==
  IF c.cursor.offset > 0 THEN Follows(c.cursor)
  ELSE c.cursor.query = c.query /\ c.cursor.shown = <<>>
Reads(c) ==
  /\ c.snapshot \in Listings(c.query) /\ c.cursor.query = c.query /\ c.sequence <= sequence
  /\ ~c.cursor.spoilt =>
       /\ listing[c.query] = c.snapshot /\ c.cursor.offset <= Len(c.snapshot)
       /\ Shows(c.query, c.limit, c.cursor.shown, c.snapshot, c.cursor.offset)
       /\ c.at = "rows" /\ c.query \in RunQueries => c.total = Len(c.snapshot)

SessionTyped ==
  /\ DOMAIN listing = Queries /\ \A q \in Queries : listing[q] \in Listings(q)
  /\ handshake \in {"unseen", "stored", "notified"}
  /\ commits \in Nat /\ sequence \in 1..(commits + 1)
  /\ call \in {NoCall} \cup Asking \cup Reading

SessionInv ==
  /\ SessionTyped /\ NotificationIsHeard /\ WalksAreExact
  /\ \A c \in cursors : Follows(c)
  /\ call \in Asking => Asks(call)
  /\ call \in Reading => Reads(call)

LEMMA SessionStarts == SessionInit => SessionInv
<1> SUFFICES ASSUME SessionInit PROVE SessionInv
  OBVIOUS
<1>1. SessionTyped
  BY SessionAssumption DEF SessionInit, SessionTyped
<1>2. NotificationIsHeard /\ WalksAreExact
  BY DEF SessionInit, NotificationIsHeard, WalksAreExact, NoCall
<1>3. call \notin Asking /\ call \notin Reading
  BY DEF SessionInit, NoCall, Asking, Reading
<1> QED  BY <1>1, <1>2, <1>3 DEF SessionInit, SessionInv

LEMMA CommitKeeps ==
  ASSUME SessionInv, NEW q \in Queries, CommitChange(q)
  PROVE  SessionInv'
<1>1. PICK l \in Listings(q) : listing' = [listing EXCEPT ![q] = l]
  BY DEF CommitChange, NextListings
<1>2. PICK told \in BOOLEAN :
        /\ sequence' = IF told THEN sequence + 1 ELSE sequence
        /\ cursors' = {[c EXCEPT !.spoilt = @ \/ (~told /\ c.query = q)] : c \in cursors}
        /\ call' = IF Spoils(q, told) THEN [call EXCEPT !.cursor.spoilt = TRUE] ELSE call
  BY DEF CommitChange
<1>3. commits' = commits + 1 /\ UNCHANGED <<handshake, finished, calls>>
  BY DEF CommitChange
<1>4. /\ DOMAIN listing' = Queries /\ \A p \in Queries : listing'[p] \in Listings(p)
      /\ \A p \in Queries : p # q => listing'[p] = listing[p]
  BY <1>1 DEF SessionInv, SessionTyped
<1>5. sequence \in Nat /\ sequence' \in Nat /\ sequence' >= sequence
      /\ (told => sequence' = sequence + 1) /\ (~told => sequence' = sequence)
      /\ commits' \in Nat /\ sequence' \in 1..(commits' + 1)
  BY <1>2, <1>3 DEF SessionInv, SessionTyped
<1>6. ASSUME NEW c \in Cursors, NEW d \in Cursors, Follows(c),
             d = [c EXCEPT !.spoilt = d.spoilt], c.spoilt => d.spoilt,
             ~told /\ c.query = q => d.spoilt
      PROVE  Follows(d)'
  <2>1. d.query = c.query /\ d.limit = c.limit /\ d.offset = c.offset
        /\ d.sequence = c.sequence /\ d.shown = c.shown
        /\ c.sequence \in Nat /\ c.query \in Queries
    BY <1>6 DEF Cursors
  <2>2. c.offset > 0 /\ c.sequence <= sequence'
    BY <1>5, <1>6, <2>1 DEF Follows
  <2>3. ASSUME ~d.spoilt, c.sequence = sequence'
        PROVE  /\ c.offset <= Len(listing'[c.query])
               /\ Shows(c.query, c.limit, c.shown, listing'[c.query], c.offset)
    <3>1. ~told /\ c.sequence = sequence
      BY <1>5, <1>6, <2>1, <2>3 DEF Follows
    <3>2. listing'[c.query] = listing[c.query]
      BY <1>4, <1>6, <2>1, <2>3, <3>1
    <3> QED  BY <1>6, <2>3, <3>1, <3>2 DEF Follows
  <2> QED  BY <1>6, <2>1, <2>2, <2>3 DEF Follows
<1>7. \A d \in cursors' : Follows(d)'
  <2> TAKE d \in cursors'
  <2>1. PICK c \in cursors : d = [c EXCEPT !.spoilt = @ \/ (~told /\ c.query = q)]
    BY <1>2
  <2>2. c \in Cursors /\ Follows(c)
    BY DEF SessionInv, Follows
  <2>3. d \in Cursors /\ d.spoilt = (c.spoilt \/ (~told /\ c.query = q))
        /\ d = [c EXCEPT !.spoilt = d.spoilt]
    BY <2>1, <2>2 DEF Cursors
  <2> QED  BY <1>6, <2>2, <2>3
<1>8. CASE call \in Asking
  <2>1. call.cursor \in Cursors /\ Asks(call) /\ call.at \notin {"count", "rows"}
        /\ call # NoCall
    <3>1. Asks(call)
      BY <1>8 DEF SessionInv
    <3>2. call.cursor \in Cursors /\ call.at \in {"registered", "waiting", "begun"}
      BY <1>8 DEF Asking
    <3>3. call # NoCall
      BY <3>2 DEF NoCall
    <3> QED  BY <3>1, <3>2, <3>3
  <2>2. PICK s \in BOOLEAN : /\ call' = [call EXCEPT !.cursor.spoilt = s]
                             /\ call.cursor.spoilt => s
                             /\ ~told /\ call.cursor.query = q /\ call.cursor.offset > 0 => s
    <3>1. CASE Spoils(q, told)
      BY <1>2, <3>1
    <3>2. CASE ~Spoils(q, told)
      <4>1. call' = [call EXCEPT !.cursor.spoilt = call.cursor.spoilt]
            /\ call.cursor.spoilt \in BOOLEAN
        BY <1>2, <1>8, <2>1, <3>2 DEF Asking, Cursors
      <4> QED  BY <2>1, <3>2, <4>1 DEF Spoils
    <3> QED  BY <3>1, <3>2
  <2>3. /\ call' \in Asking /\ call'.at = call.at /\ call'.woken = call.woken
        /\ call'.query = call.query
        /\ call'.cursor = [call.cursor EXCEPT !.spoilt = s] /\ call'.cursor \in Cursors
    BY <1>8, <2>2 DEF Asking, Cursors
  <2>4. call'.cursor.spoilt = s /\ call'.cursor.offset = call.cursor.offset
        /\ call'.cursor.query = call.cursor.query /\ call'.cursor.shown = call.cursor.shown
        /\ call'.cursor = [call.cursor EXCEPT !.spoilt = call'.cursor.spoilt]
    BY <2>1, <2>3 DEF Cursors
  <2>5. Asks(call)'
    <3>1. CASE call.cursor.offset > 0
      <4>1. Follows(call.cursor)
        BY <2>1, <3>1 DEF Asks
      <4>2. PICK d \in Cursors : d = call'.cursor
        BY <2>3
      <4>3. d = [call.cursor EXCEPT !.spoilt = d.spoilt] /\ d.spoilt = s
            /\ call.cursor \in Cursors
        BY <2>1, <2>4, <4>2
      <4>4. PICK c \in Cursors : c = call.cursor
        BY <2>1
      <4>5. Follows(c) /\ d = [c EXCEPT !.spoilt = d.spoilt] /\ (c.spoilt => d.spoilt)
            /\ (~told /\ c.query = q => d.spoilt)
        BY <2>2, <3>1, <4>1, <4>3, <4>4
      <4>6. Follows(d)'
        BY <1>6, <4>5
      <4> QED  BY <2>4, <3>1, <4>2, <4>6 DEF Asks, Follows
    <3>2. CASE ~(call.cursor.offset > 0)
      BY <2>1, <2>3, <2>4, <3>2 DEF Asks
    <3> QED  BY <3>1, <3>2
  <2>6. call' \notin Reading
    BY <2>3 DEF Asking, Reading
  <2>7. SessionTyped' /\ NotificationIsHeard' /\ WalksAreExact'
    BY <1>3, <1>4, <1>5, <2>3
    DEF SessionInv, SessionTyped, NotificationIsHeard, WalksAreExact
  <2> QED  BY <1>7, <2>5, <2>6, <2>7 DEF SessionInv
<1>9. CASE call \in Reading
  <2>1. call.cursor \in Cursors /\ Reads(call) /\ call.at \in {"count", "rows"}
        /\ call # NoCall /\ call.query \in Queries
    BY <1>9 DEF SessionInv, Reading, NoCall
  <2>2. PICK s \in BOOLEAN : /\ call' = [call EXCEPT !.cursor.spoilt = s]
                             /\ call.cursor.spoilt => s
                             /\ call.cursor.query = q => s
    <3>1. CASE Spoils(q, told)
      BY <1>2, <3>1
    <3>2. CASE ~Spoils(q, told)
      <4>1. call' = [call EXCEPT !.cursor.spoilt = call.cursor.spoilt]
            /\ call.cursor.spoilt \in BOOLEAN
        BY <1>2, <1>9, <2>1, <3>2 DEF Reading, Cursors
      <4> QED  BY <2>1, <3>2, <4>1 DEF Spoils
    <3> QED  BY <3>1, <3>2
  <2>3. /\ call' \in Reading /\ call'.at = call.at /\ call'.query = call.query
        /\ call'.snapshot = call.snapshot /\ call'.sequence = call.sequence
        /\ call'.limit = call.limit /\ call'.total = call.total
        /\ call'.cursor = [call.cursor EXCEPT !.spoilt = s] /\ call'.cursor \in Cursors
        /\ call.sequence \in Nat
    BY <1>9, <2>2 DEF Reading, Cursors
  <2>4. call'.cursor.spoilt = s /\ call'.cursor.offset = call.cursor.offset
        /\ call'.cursor.query = call.cursor.query /\ call'.cursor.shown = call.cursor.shown
    BY <2>1, <2>3 DEF Cursors
  <2>5. Reads(call)'
    <3>1. /\ call.snapshot \in Listings(call.query) /\ call.cursor.query = call.query
          /\ call.sequence <= sequence'
      BY <1>5, <2>1, <2>3 DEF Reads
    <3>2. ASSUME ~s
          PROVE  /\ listing'[call.query] = call.snapshot
                 /\ call.cursor.offset <= Len(call.snapshot)
                 /\ Shows(call.query, call.limit, call.cursor.shown, call.snapshot,
                          call.cursor.offset)
                 /\ call.at = "rows" /\ call.query \in RunQueries =>
                      call.total = Len(call.snapshot)
      <4>1. ~call.cursor.spoilt /\ call.query # q
        BY <2>2, <3>1, <3>2
      <4>2. listing'[call.query] = listing[call.query]
        BY <1>4, <2>1, <4>1
      <4> QED  BY <2>1, <4>1, <4>2 DEF Reads
    <3> QED  BY <2>3, <2>4, <3>1, <3>2 DEF Reads
  <2>6. call' \notin Asking
    BY <2>3 DEF Asking, Reading
  <2>7. SessionTyped' /\ NotificationIsHeard' /\ WalksAreExact'
    BY <1>3, <1>4, <1>5, <2>1, <2>3
    DEF SessionInv, SessionTyped, NotificationIsHeard, WalksAreExact
  <2> QED  BY <1>7, <2>5, <2>6, <2>7 DEF SessionInv
<1>10. CASE call = NoCall
  <2>1. call' = NoCall /\ call' \notin Asking /\ call' \notin Reading
    BY <1>2, <1>10 DEF Spoils, NoCall, Asking, Reading
  <2>2. SessionTyped' /\ NotificationIsHeard' /\ WalksAreExact'
    BY <1>3, <1>4, <1>5, <2>1
    DEF SessionInv, SessionTyped, NotificationIsHeard, WalksAreExact, NoCall
  <2> QED  BY <1>7, <2>1, <2>2 DEF SessionInv
<1> QED  BY <1>8, <1>9, <1>10 DEF SessionInv, SessionTyped

LEMMA SameFollows ==
  ASSUME NEW c, Follows(c), UNCHANGED <<listing, sequence>>
  PROVE  Follows(c)'
BY DEF Follows

(* A step that leaves listings, cursors and finished walks alone, and the  *)
(* call without anything in it that needs to hold.                         *)
LEMMA CallChanges ==
  ASSUME SessionInv, UNCHANGED <<listing, sequence, cursors, commits>>,
         finished' \in {finished, NoWalk}, handshake' \in {"unseen", "stored", "notified"},
         call' \in {NoCall} \cup Asking \cup Reading, NotificationIsHeard',
         call' \in Asking => Asks(call)', call' \in Reading => Reads(call)'
  PROVE  SessionInv'
<1>1. SessionTyped'
  BY DEF SessionInv, SessionTyped
<1>2. \A c \in cursors' : Follows(c)'
  BY SameFollows DEF SessionInv
<1>3. WalksAreExact'
  BY DEF SessionInv, WalksAreExact
<1> QED  BY <1>1, <1>2, <1>3 DEF SessionInv

LEMMA SameAsks ==
  ASSUME SessionInv, call \in Asking, call' \in Asking, UNCHANGED <<listing, sequence>>,
         call'.cursor = call.cursor, call'.query = call.query
  PROVE  Asks(call)'
<1>1. Asks(call) /\ call.cursor \in Cursors
  BY DEF SessionInv, Asking
<1>2. CASE call.cursor.offset > 0
  <2>1. PICK c \in Cursors : c = call.cursor
    BY <1>1
  <2>2. Follows(c)
    BY <1>1, <1>2, <2>1 DEF Asks
  <2>3. Follows(c)'
    BY <2>2, SameFollows
  <2> QED  BY <1>2, <2>1, <2>3 DEF Asks, Follows
<1>3. CASE ~(call.cursor.offset > 0)
  BY <1>1, <1>3 DEF Asks
<1> QED  BY <1>2, <1>3

LEMMA SameReads ==
  ASSUME SessionInv, call \in Reading, UNCHANGED <<listing, sequence, call>>
  PROVE  Reads(call)'
BY DEF SessionInv, Reads

LEMMA CallIsOne ==
  /\ \A c \in Asking : c \notin Reading /\ c # NoCall /\ c.at \in {"registered", "waiting", "begun"}
  /\ \A c \in Reading : c \notin Asking /\ c # NoCall /\ c.at \in {"count", "rows"}
  /\ NoCall \notin Asking /\ NoCall \notin Reading /\ NoCall.at = "idle"
<1>1. \A c \in Asking : c.at \in {"registered", "waiting", "begun"}
  BY DEF Asking
<1>2. \A c \in Reading : c.at \in {"count", "rows"}
  BY DEF Reading
<1>3. NoCall.at = "idle"
  BY DEF NoCall
<1> QED  BY <1>1, <1>2, <1>3

LEMMA InitializedKeeps ==
  ASSUME SessionInv, Initialized PROVE SessionInv'
<1>1. /\ call \in {NoCall} \cup Asking \cup Reading /\ UNCHANGED <<listing, sequence, cursors, commits>>
      /\ finished' \in {finished, NoWalk} /\ call' = call /\ handshake' = "stored"
  BY DEF SessionInv, SessionTyped, Initialized
<1>2. NotificationIsHeard'
  BY <1>1 DEF NotificationIsHeard
<1>3. call' \in Asking => Asks(call)'
  BY <1>1, SameAsks
<1>4. call' \in Reading => Reads(call)'
  BY <1>1, SameReads
<1> QED  BY <1>1, <1>2, <1>3, <1>4, CallChanges

LEMMA NotifyKeeps ==
  ASSUME SessionInv, NotifyWaiters PROVE SessionInv'
<1>1. /\ call \in {NoCall} \cup Asking \cup Reading /\ UNCHANGED <<listing, sequence, cursors, commits>>
      /\ finished' \in {finished, NoWalk} /\ handshake' = "notified"
      /\ call' = IF call.at \in {"registered", "waiting"} /\ call.listed
                 THEN [call EXCEPT !.woken = TRUE] ELSE call
  BY DEF SessionInv, SessionTyped, NotifyWaiters
<1>2. CASE call \in Asking
  <2>1. call' \in Asking /\ call'.cursor = call.cursor /\ call'.query = call.query
        /\ (call'.at = "waiting" => call'.woken)
    BY <1>1, <1>2 DEF Asking
  <2>2. NotificationIsHeard'
    BY <2>1 DEF NotificationIsHeard
  <2>3. Asks(call)'
    BY <1>1, <1>2, <2>1, SameAsks
  <2>4. call' \notin Reading
    BY <2>1, CallIsOne
  <2> QED  BY <1>1, <2>1, <2>2, <2>3, <2>4, CallChanges
<1>3. CASE call \in {NoCall} \cup Reading
  <2>1. call' = call /\ call'.at # "waiting" /\ call' \notin Asking
    BY <1>1, <1>3, CallIsOne
  <2>2. NotificationIsHeard'
    BY <2>1 DEF NotificationIsHeard
  <2>3. call' \in Reading => Reads(call)'
    BY <1>1, <2>1, SameReads
  <2> QED  BY <1>1, <2>1, <2>2, <2>3, CallChanges
<1> QED  BY <1>1, <1>2, <1>3

LEMMA RequestKeeps ==
  ASSUME SessionInv, NEW q \in Queries, NEW limit \in Limits,
         NEW cursor \in cursors \cup {Start(q)}, Request(q, limit, cursor)
  PROVE  SessionInv'
<1>1. /\ UNCHANGED <<listing, sequence, handshake, cursors, commits>> /\ finished' = NoWalk
      /\ handshake \in {"unseen", "stored", "notified"}
      /\ call' = [at |-> "registered", query |-> q, limit |-> limit, cursor |-> cursor,
                  listed |-> TRUE, woken |-> FALSE]
  BY DEF SessionInv, SessionTyped, Request
<1>2. cursor \in Cursors
  <2>1. CASE cursor \in cursors
    BY <2>1 DEF SessionInv, Follows
  <2>2. CASE cursor = Start(q)
    <3>1. <<>> \in Seq(ListRows)
      BY EmptySeq
    <3> QED  BY <2>2, <3>1 DEF Start, Cursors
  <2> QED  BY <2>1, <2>2
<1>3. call' \in Asking /\ call'.at = "registered" /\ call'.cursor = cursor /\ call'.query = q
  BY <1>1, <1>2 DEF Asking
<1>4. Asks(call)'
  <2>1. CASE cursor \in cursors
    <3>1. Follows(cursor)
      BY <2>1 DEF SessionInv
    <3>2. Follows(cursor)'
      BY <1>1, <3>1, SameFollows
    <3>3. PICK c : c = cursor
      OBVIOUS
    <3> QED  BY <1>3, <3>2 DEF Asks, Follows
  <2>2. CASE cursor = Start(q)
    BY <1>3, <2>2 DEF Start, Asks
  <2> QED  BY <2>1, <2>2
<1>5. NotificationIsHeard' /\ call' \notin Reading
  BY <1>3, CallIsOne DEF NotificationIsHeard
<1> QED  BY <1>1, <1>3, <1>4, <1>5, CallChanges

LEMMA CheckKeeps ==
  ASSUME SessionInv, CheckInitialized PROVE SessionInv'
<1>1. /\ call \in Asking /\ UNCHANGED <<listing, sequence, handshake, cursors, commits, finished>>
      /\ handshake \in {"unseen", "stored", "notified"}
      /\ call' = [call EXCEPT !.at = IF handshake = "unseen" THEN "waiting" ELSE "begun"]
  BY CallIsOne DEF SessionInv, SessionTyped, CheckInitialized
<1>2. /\ call' \in Asking /\ call'.cursor = call.cursor /\ call'.query = call.query
      /\ call'.at = IF handshake = "unseen" THEN "waiting" ELSE "begun"
  BY <1>1 DEF Asking
<1>3. NotificationIsHeard'
  BY <1>1, <1>2 DEF NotificationIsHeard
<1>4. Asks(call)' /\ call' \notin Reading
  BY <1>1, <1>2, SameAsks, CallIsOne
<1> QED  BY <1>1, <1>2, <1>3, <1>4, CallChanges

LEMMA StopKeeps ==
  ASSUME SessionInv, StopWaiting PROVE SessionInv'
<1>1. /\ call \in Asking /\ UNCHANGED <<listing, sequence, handshake, cursors, commits, finished>>
      /\ handshake \in {"unseen", "stored", "notified"}
      /\ call' = IF handshake = "unseen" THEN NoCall ELSE [call EXCEPT !.at = "begun"]
  BY CallIsOne DEF SessionInv, SessionTyped, StopWaiting
<1>2. CASE handshake = "unseen"
  <2>1. NotificationIsHeard' /\ call' = NoCall /\ call' \notin Asking /\ call' \notin Reading
    BY <1>1, <1>2, CallIsOne DEF NotificationIsHeard
  <2> QED  BY <1>1, <2>1, CallChanges
<1>3. CASE handshake # "unseen"
  <2>1. /\ call' \in Asking /\ call'.cursor = call.cursor /\ call'.query = call.query
        /\ call'.at = "begun"
    BY <1>1, <1>3 DEF Asking
  <2>2. NotificationIsHeard'
    BY <2>1 DEF NotificationIsHeard
  <2>3. Asks(call)' /\ call' \notin Reading
    BY <1>1, <2>1, SameAsks, CallIsOne
  <2> QED  BY <1>1, <2>1, <2>2, <2>3, CallChanges
<1> QED  BY <1>2, <1>3

LEMMA DecodeKeeps ==
  ASSUME SessionInv, Decode PROVE SessionInv'
<1>1. /\ call \in Asking /\ UNCHANGED <<listing, sequence, handshake, cursors, commits, finished>>
      /\ handshake \in {"unseen", "stored", "notified"} /\ sequence \in Nat
      /\ \A p \in Queries : listing[p] \in Listings(p)
  BY CallIsOne DEF SessionInv, SessionTyped, Decode
<1> DEFINE q == call.query
           l == listing[q]
           cursor == call.cursor
<1>2. /\ q \in Queries /\ cursor \in Cursors /\ l \in Listings(q) /\ call.limit \in Limits
      /\ Asks(call) /\ cursor.offset \in Nat
  BY <1>1 DEF SessionInv, Asking, Cursors
<1>3. CASE call' = NoCall
  <2>1. NotificationIsHeard' /\ call' \notin Asking /\ call' \notin Reading
    BY <1>3, CallIsOne DEF NotificationIsHeard
  <2> QED  BY <1>1, <1>3, <2>1, CallChanges
<1>4. CASE call' # NoCall
  <2>1. /\ Fits(cursor)
        /\ call' = [at |-> IF q \in RunQueries THEN "count" ELSE "rows",
                    query |-> q, limit |-> call.limit, cursor |-> cursor,
                    sequence |-> sequence, snapshot |-> l, total |-> 0]
    BY <1>4 DEF Decode
  <2>2. l \in Seq(ListRows) /\ Len(l) \in Nat
    BY <1>2, ListingType
  <2> HIDE DEF q, l, cursor
  <2>3. /\ call' \in Reading /\ call'.at = (IF q \in RunQueries THEN "count" ELSE "rows")
        /\ call'.query = q /\ call'.cursor = cursor /\ call'.sequence = sequence
        /\ call'.snapshot = l /\ call'.limit = call.limit
    BY <1>1, <1>2, <2>1, <2>2 DEF Reading
  <2>4. /\ cursor.query = q
        /\ ~cursor.spoilt => /\ cursor.offset <= Len(l)
                             /\ Shows(q, call.limit, cursor.shown, l, cursor.offset)
    <3>1. CASE cursor.offset > 0
      <4>1. cursor.query = q /\ cursor.limit = call.limit /\ cursor.sequence = sequence
        BY <2>1, <3>1 DEF Fits, q
      <4>2. Follows(cursor)
        BY <1>2, <3>1 DEF Asks, cursor
      <4> QED  BY <4>1, <4>2 DEF Follows, l, q
    <3>2. CASE ~(cursor.offset > 0)
      <4>1. cursor.query = q /\ cursor.shown = <<>> /\ cursor.offset = 0
        BY <1>2, <3>2 DEF Asks, cursor, q
      <4>2. Shows(q, call.limit, <<>>, l, 0)
        BY <1>2, NothingShown
      <4> QED  BY <2>2, <4>1, <4>2
    <3> QED  BY <3>1, <3>2
  <2>5. listing'[q] = l
    BY <1>1 DEF l
  <2>6. Reads(call)'
    BY <1>1, <1>2, <2>3, <2>4, <2>5 DEF Reads
  <2>7. NotificationIsHeard' /\ call' \notin Asking
    BY <2>3, CallIsOne DEF NotificationIsHeard
  <2> QED  BY <1>1, <2>3, <2>6, <2>7, CallChanges
<1> QED  BY <1>3, <1>4

LEMMA CountKeeps ==
  ASSUME SessionInv, Count PROVE SessionInv'
<1>1. /\ call \in Reading /\ UNCHANGED <<listing, sequence, handshake, cursors, commits, finished>>
      /\ handshake \in {"unseen", "stored", "notified"} /\ call.query \in Queries
      /\ listing[call.query] \in Listings(call.query)
      /\ call' = [call EXCEPT !.at = "rows", !.total = Len(listing[call.query])]
  <2>1. call \in Reading
    BY CallIsOne DEF SessionInv, SessionTyped, Count
  <2> QED  BY <2>1 DEF SessionInv, SessionTyped, Count, Reading
<1>2. Len(listing[call.query]) \in Nat
  BY <1>1, ListingType
<1>3. /\ call' \in Reading /\ call'.at = "rows" /\ call'.query = call.query
      /\ call'.cursor = call.cursor /\ call'.sequence = call.sequence
      /\ call'.snapshot = call.snapshot /\ call'.limit = call.limit
      /\ call'.total = Len(listing[call.query])
  BY <1>1, <1>2 DEF Reading
<1>4. Reads(call)
  BY <1>1 DEF SessionInv
<1>5. Reads(call)'
  BY <1>1, <1>3, <1>4 DEF Reads
<1>6. NotificationIsHeard' /\ call' \notin Asking
  BY <1>3, CallIsOne DEF NotificationIsHeard
<1> QED  BY <1>1, <1>3, <1>5, <1>6, CallChanges

LEMMA AnswerKeeps ==
  ASSUME SessionInv, Answer PROVE SessionInv'
<1>1. /\ call \in Reading /\ UNCHANGED <<listing, sequence, handshake, commits>>
      /\ Reads(call) /\ call.at = "rows" /\ call' = NoCall
  BY CallIsOne DEF SessionInv, SessionTyped, Answer
<1> DEFINE q == call.query
           l == listing[q]
           limit == call.limit
           cursor == call.cursor
           offset == cursor.offset
           rowsShown == PageShown(q, l, offset, limit)
           shown == cursor.shown \o rowsShown
           walk == [query |-> q, limit |-> limit, offset |-> offset + limit,
                    sequence |-> call.sequence, shown |-> shown, spoilt |-> cursor.spoilt]
           done == [query |-> q, limit |-> limit, shown |-> shown,
                    snapshot |-> call.snapshot, spoilt |-> cursor.spoilt]
<1>2. /\ q \in Queries /\ l \in Listings(q) /\ limit \in Limits /\ limit \in Nat \ {0}
      /\ cursor \in Cursors /\ offset \in Nat /\ cursor.shown \in Seq(ListRows)
      /\ cursor.spoilt \in BOOLEAN /\ call.sequence \in Nat /\ call.sequence <= sequence
      /\ Len(l) \in Nat
  <2>1. q \in Queries /\ limit \in Limits /\ cursor \in Cursors /\ call.sequence \in Nat
    BY <1>1 DEF Reading
  <2>2. l \in Listings(q)
    BY <2>1 DEF SessionInv, SessionTyped
  <2>3. offset \in Nat /\ cursor.shown \in Seq(ListRows) /\ cursor.spoilt \in BOOLEAN
    BY <2>1 DEF Cursors
  <2>4. call.sequence <= sequence
    BY <1>1 DEF Reads
  <2>5. limit \in Nat \ {0}
    <3> HIDE DEF limit
    <3> QED  BY <2>1, SessionAssumption
  <2>6. Len(l) \in Nat
    BY <2>1, <2>2, ListingType
  <2> QED  BY <2>1, <2>2, <2>3, <2>4, <2>5, <2>6
<1>3. rowsShown \in Seq(ListRows) /\ shown \in Seq(ListRows)
  <2>1. rowsShown \in Seq(ListRows)
    BY <1>2, PageOfRows
  <2> QED  BY <1>2, <2>1, ToSetConcat
<1>4. \/ UNCHANGED <<cursors, finished>>
      \/ /\ More(q, l, offset, limit, call.total)
         /\ cursors' = cursors \cup {walk} /\ UNCHANGED finished
      \/ /\ ~More(q, l, offset, limit, call.total)
         /\ finished' = done /\ UNCHANGED cursors
  BY DEF Answer
<1>5. ASSUME ~cursor.spoilt
      PROVE  /\ l = call.snapshot /\ offset \in 0..Len(l)
             /\ More(q, l, offset, limit, call.total) =>
                  /\ offset + limit <= Len(l)
                  /\ Shows(q, limit, shown, l, offset + limit)
             /\ /\ ~More(q, l, offset, limit, call.total)
                /\ q \notin SessionQueries \/ (limit < MaximumPage /\ Timely)
                => Shows(q, limit, shown, l, Len(l))
  <2>1. /\ l = call.snapshot /\ offset <= Len(l)
        /\ Shows(q, limit, cursor.shown, l, offset)
        /\ q \in RunQueries => call.total = Len(l)
    BY <1>1, <1>5 DEF Reads
  <2>2. offset \in 0..Len(l)
    BY <1>2, <2>1
  <2> DEFINE e == IF offset + limit <= Len(l) THEN offset + limit ELSE Len(l)
             total == call.total
  <2>3. total = call.total
    OBVIOUS
  <2> HIDE DEF q, l, limit, cursor, offset, total
  <2>4. Shows(q, limit, shown, l, e)
    BY <1>2, <2>1, <2>2, PageExtends
  <2> HIDE DEF rowsShown, shown
  <2>5. /\ More(q, l, offset, limit, total) => offset + limit < Len(l)
        /\ q \notin SessionQueries \/ (limit < MaximumPage /\ Timely) =>
             (offset + limit < Len(l) => More(q, l, offset, limit, total))
    <3>1. q \in Queries /\ l \in Listings(q) /\ limit \in Limits /\ (q \in RunQueries => total = Len(l))
      BY <1>2, <2>1, <2>3
    <3> QED  BY ONLY <2>2, <3>1, MoreMeans
  <2>6. More(q, l, offset, limit, total) => e = offset + limit /\ offset + limit <= Len(l)
    BY <1>2, <2>2, <2>5
  <2>7. ~(offset + limit < Len(l)) => e = Len(l)
    BY <1>2, <2>2
  <2> HIDE DEF e
  <2> QED  BY <2>1, <2>2, <2>3, <2>4, <2>5, <2>6, <2>7
<1>6. cursor.query = q
  BY <1>1 DEF Reads
<1>7. SessionTyped' /\ NotificationIsHeard'
  BY <1>1, CallIsOne DEF SessionInv, SessionTyped, NotificationIsHeard
<1>8. call' \notin Asking /\ call' \notin Reading
  BY <1>1, CallIsOne
<1>9. ASSUME cursors' = cursors \cup {walk}, More(q, l, offset, limit, call.total)
      PROVE  \A c \in cursors' : Follows(c)'
  <2>1. walk \in Cursors
    <3>1. offset + limit \in Nat
      BY <1>2
    <3> HIDE DEF q, limit, offset, shown, cursor
    <3> QED  BY <1>2, <1>3, <3>1 DEF Cursors
  <2>2. /\ walk.query = q /\ walk.limit = limit /\ walk.offset = offset + limit
        /\ walk.sequence = call.sequence /\ walk.shown = shown /\ walk.spoilt = cursor.spoilt
    OBVIOUS
  <2>3. listing' = listing /\ sequence' = sequence
    BY <1>1
  <2>4. walk.offset > 0
    BY <1>2, <2>2
  <2> DEFINE o == offset + limit
  <2>5. PICK w \in Cursors : w = walk
    BY <2>1
  <2>6. /\ w.query = q /\ w.limit = limit /\ w.offset = o
        /\ w.sequence = call.sequence /\ w.shown = shown /\ w.spoilt = cursor.spoilt
        /\ w.offset > 0
    BY <2>2, <2>4, <2>5
  <2>7. ~cursor.spoilt => o <= Len(l) /\ Shows(q, limit, shown, l, o)
    BY <1>5, <1>9
  <2>8. listing'[q] = l
    BY <2>3
  <2> HIDE DEF walk, shown, o, l, limit, cursor, q
  <2>9. w.sequence <= sequence'
    BY <1>2, <2>3, <2>6
  <2>10. ~w.spoilt /\ w.sequence = sequence' =>
           /\ w.offset <= Len(listing'[w.query])
           /\ Shows(w.query, w.limit, w.shown, listing'[w.query], w.offset)
    BY <2>6, <2>7, <2>8
  <2>11. Follows(w)'
    BY <2>6, <2>9, <2>10 DEF Follows
  <2>12. \A c \in cursors : Follows(c)'
    BY <2>3, SameFollows DEF SessionInv
  <2> QED  BY <1>9, <2>5, <2>11, <2>12
<1>10. ASSUME cursors' = cursors PROVE \A c \in cursors' : Follows(c)'
  BY <1>1, <1>10, SameFollows DEF SessionInv
<1>11. ASSUME finished' = done, ~More(q, l, offset, limit, call.total)
       PROVE  WalksAreExact'
  <2>1. /\ done.query = q /\ done.limit = limit /\ done.shown = shown
        /\ done.snapshot = call.snapshot /\ done.spoilt = cursor.spoilt
    OBVIOUS
  <2>2. CASE cursor.spoilt
    BY <1>11, <2>1, <2>2 DEF WalksAreExact
  <2>3. CASE ~cursor.spoilt
    <3>1. /\ l = call.snapshot
          /\ q \notin SessionQueries \/ (limit < MaximumPage /\ Timely)
             => Shows(q, limit, shown, l, Len(l))
      BY <1>5, <1>11, <2>3
    <3>2. ToSet(l) = {l[i] : i \in 1..Len(l)}
      <4>1. DOMAIN l = 1..Len(l)
        BY <1>2, ListingType
      <4> QED  BY <4>1 DEF ToSet
    <3>3. First(l, Len(l)) = l
      <4>1. 0 \in 0..Len(l)
        BY <1>2
      <4> HIDE DEF l, q
      <4> QED  BY <1>2, <4>1, FirstRows
    <3> DEFINE t == shown
               d == done
    <3>4. finished' = d /\ d.query = q /\ d.limit = limit /\ d.shown = t /\ d.snapshot = l
      BY <1>11, <2>1, <3>1
    <3>5. q \notin SessionQueries \/ (limit < MaximumPage /\ Timely) => Shows(q, limit, t, l, Len(l))
      BY <3>1
    <3> HIDE DEF t, d, l, q, limit
    <3>6. q \in SessionQueries /\ limit < MaximumPage /\ Timely =>
            ToSet(t) = {SessionOf[r] : r \in ToSet(l)}
      <4>1. q \in SessionQueries /\ limit < MaximumPage /\ Timely =>
              /\ \A i \in 1..Len(l) : SessionOf[l[i]] \in ToSet(t)
              /\ ToSet(t) \subseteq {SessionOf[r] : r \in ToSet(l)}
        BY <3>5 DEF Shows, SessionsOf
      <4> QED  BY <3>2, <4>1
    <3>7. q \in GroupQueries => Len(t) = Len(l) /\ ToSet(t) = ToSet(l)
      <4>1. q \in GroupQueries => q \notin SessionQueries
        BY SessionAssumption
      <4> QED  BY <3>2, <3>5, <4>1 DEF Shows
    <3>8. q \notin SessionQueries \cup GroupQueries => t = l
      BY <3>3, <3>5 DEF Shows
    <3>9. PICK w : w = finished'
      OBVIOUS
    <3>10. w.query = q /\ w.limit = limit /\ w.shown = t /\ w.snapshot = l
      BY <3>4, <3>9
    <3>11. Exact(w)
      BY <3>6, <3>7, <3>8, <3>10 DEF Exact
    <3> QED  BY <3>9, <3>11 DEF WalksAreExact
  <2> QED  BY <2>2, <2>3
<1>12. ASSUME finished' = finished PROVE WalksAreExact'
  BY <1>12 DEF SessionInv, WalksAreExact
<1> HIDE DEF walk, done, q, l, offset, limit
<1> QED  BY <1>4, <1>7, <1>8, <1>9, <1>10, <1>11, <1>12 DEF SessionInv

(* Every step of a session keeps the invariant.                            *)
LEMMA SessionSteps ==
  ASSUME SessionInv, [SessionNext]_sessionVars PROVE SessionInv'
<1>1. CASE UNCHANGED sessionVars
  <2>1. /\ UNCHANGED <<listing, sequence, cursors, commits, call>>
        /\ finished' \in {finished, NoWalk} /\ handshake' \in {"unseen", "stored", "notified"}
        /\ call' \in {NoCall} \cup Asking \cup Reading
    BY <1>1 DEF sessionVars, SessionInv, SessionTyped
  <2>2. NotificationIsHeard'
    BY <1>1 DEF sessionVars, SessionInv, NotificationIsHeard
  <2>3. call' \in Asking => Asks(call)'
    BY <2>1, SameAsks
  <2>4. call' \in Reading => Reads(call)'
    BY <2>1, SameReads
  <2> QED  BY <2>1, <2>2, <2>3, <2>4, CallChanges
<1>2. ASSUME NEW q \in Queries, CommitChange(q) PROVE SessionInv'
  BY <1>2, CommitKeeps
<1>3. ASSUME NEW q \in Queries, NEW limit \in Limits, NEW c \in cursors \cup {Start(q)},
             Request(q, limit, c)
      PROVE  SessionInv'
  BY <1>3, RequestKeeps
<1>4. CASE Initialized \/ NotifyWaiters \/ CheckInitialized \/ StopWaiting
  BY <1>4, InitializedKeeps, NotifyKeeps, CheckKeeps, StopKeeps
<1>5. CASE Decode \/ Count \/ Answer
  BY <1>5, DecodeKeeps, CountKeeps, AnswerKeeps
<1> QED  BY <1>1, <1>2, <1>3, <1>4, <1>5 DEF SessionNext

LEMMA SessionInvIsSound ==
  ASSUME SessionInv PROVE SessionIsSound
<1>1. call.at \in {"idle", "registered", "waiting", "begun", "count", "rows"}
  BY CallIsOne DEF SessionInv, SessionTyped
<1> QED  BY <1>1 DEF SessionInv, SessionTyped, SessionTypeOK, SessionIsSound

(* Whatever an agent asks for and whatever changes in between: a walk that *)
(* nothing spoilt has shown the listing of one commit, and no request      *)
(* sleeps through the end of the handshake.                                *)
THEOREM SessionStaysSound == SessionSpec => []SessionIsSound
<1>1. SessionInit => SessionInv
  BY SessionStarts
<1>2. SessionInv /\ [SessionNext]_sessionVars => SessionInv'
  BY SessionSteps
<1>3. SessionInv => SessionIsSound
  BY SessionInvIsSound
<1> QED  BY <1>1, <1>2, <1>3, PTL DEF SessionSpec

-----------------------------------------------------------------------------
(* The two together: neither disturbs the other.                           *)

LEMMA ServedStarts == McpInit => EndpointInv /\ SessionInv
BY EndpointStarts, SessionStarts DEF McpInit

LEMMA ServedSteps ==
  EndpointInv /\ SessionInv /\ [McpNext]_mcpVars => EndpointInv' /\ SessionInv'
<1> SUFFICES ASSUME EndpointInv, SessionInv, [McpNext]_mcpVars
             PROVE  EndpointInv' /\ SessionInv'
  OBVIOUS
<1>1. [EndpointNext]_endpointVars /\ [SessionNext]_sessionVars
  BY DEF McpNext, mcpVars
<1> QED  BY <1>1, EndpointSteps, SessionSteps

(* Agents are served by who has the workspace, whoever starts, stops or    *)
(* crashes, and what an agent lists is the listing of one commit unless it *)
(* was told that something came between.                                   *)
THEOREM AgentsStayServed == McpSpec => []AgentsAreServed
<1>1. EndpointInv /\ SessionInv => AgentsAreServed
  <2> SUFFICES ASSUME EndpointInv, SessionInv PROVE AgentsAreServed
    OBVIOUS
  <2>1. EndpointIsSound
    BY DEF EndpointInv, EndpointIsSound, OwnersAreUp, AnswersAreOwners, SocketIsServed
  <2> QED  BY <2>1, SessionInvIsSound DEF AgentsAreServed
<1> QED
  BY <1>1, ServedStarts, ServedSteps, PTL DEF McpSpec

=============================================================================

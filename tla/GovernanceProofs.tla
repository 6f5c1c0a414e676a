--------------------------- MODULE GovernanceProofs ---------------------------
(***************************************************************************)
(* Proofs about Governance, for every repository, every set of revisions   *)
(* and checks, and any number of drafts, releases and runs.                *)
(*                                                                         *)
(* What makes the properties inductive: the bindings of a revision are     *)
(* those of ever newer releases, none newer than the release of a preview  *)
(* that is open; a release is of a closed draft; what a draft of the       *)
(* taxonomy was made from is still there when it is approved; and a run    *)
(* that is being checked has bound every revision it has seen.             *)
(***************************************************************************)
EXTENDS Governance, FiniteSetTheorems, SequenceTheorems, WellFoundedInduction, TLAPS

DraftRows == [snapshot : Nat, activated : BOOLEAN]
ProposalRows == [base : Nat, activated : BOOLEAN, nodes : SUBSET Nodes]
TaxonomyRows == [base : Nat, nodes : SUBSET Nodes]

Typed ==
  /\ finalized \in SUBSET Revisions /\ snapshots \in Seq(Contents)
  /\ drafts \in Seq(DraftRows) /\ releases \in Seq(Nat)
  /\ bindings \in [Revisions -> Seq(Nat)]
  /\ proposals \in Seq(ProposalRows) /\ taxonomies \in Seq(TaxonomyRows)

(* A release is of an activated draft and the other way round, and later   *)
(* releases are of other drafts with no older source.                      *)
ReleasesInOrder ==
  /\ \A d \in 1..Len(drafts) : drafts[d].snapshot \in 1..Len(snapshots)
  /\ \A k \in 1..Len(releases) : releases[k] \in 1..Len(drafts) /\ drafts[releases[k]].activated
  /\ \A d \in 1..Len(drafts) :
       drafts[d].activated => \E k \in 1..Len(releases) : releases[k] = d
  /\ \A j, k \in 1..Len(releases) : j < k =>
       releases[j] # releases[k] /\ drafts[releases[j]].snapshot <= drafts[releases[k]].snapshot

(* Bindings go on to newer releases, up to that of the open preview.       *)
BindingsInOrder ==
  /\ \A r \in Revisions : \A i \in 1..Len(bindings[r]) :
       /\ bindings[r][i] <= Len(releases)
       /\ backfill # None => bindings[r][i] <= backfill.release
  /\ \A r \in Revisions : \A i, j \in 1..Len(bindings[r]) :
       i < j => bindings[r][i] < bindings[r][j]
  /\ \A r \in Revisions : r \notin finalized => bindings[r] = <<>>
  /\ backfill # None =>
       backfill.release \in 1..Len(releases) /\ backfill.revisions \subseteq finalized

(* A release, or a draft of one, has all of the release it was made from.  *)
Extends(t, before) ==
  t.base \in 0..before /\ \A n \in Defined(t.base) : n \in t.nodes

TaxonomiesExtend ==
  /\ \A k \in 1..Len(taxonomies) : Extends(taxonomies[k], k - 1)
  /\ \A d \in 1..Len(proposals) : Extends(proposals[d], Len(taxonomies))

(* A check is of a release of the context, and its definitions are those   *)
(* of the taxonomy release it names.                                       *)
Sound(check, contexts, releasesOf) ==
  /\ check \in [name : Names, context : 1..contexts, taxonomy : 0..Len(releasesOf),
                nodes : SUBSET Nodes]
  /\ \A n \in check.nodes : check.taxonomy # 0 /\ n \in releasesOf[check.taxonomy].nodes

SoundCheck(check) == Sound(check, Len(releases), taxonomies)

ChecksAreSound ==
  /\ active = [n \in Names |-> active[n]]
  /\ \A n \in Names : active[n] # None => SoundCheck(active[n])
  /\ studio.at = "publishing" => SoundCheck(studio.check)

Selecting == {"previewing", "rechecking", "enqueuing"}

(* A selection that is being made is of revisions that have a binding, and *)
(* one that is being enqueued is the one on display.                       *)
SelectionsAreBound ==
  /\ studio.at \in {"idle", "publishing"} \cup Selecting
  /\ studio.at \in Selecting =>
       /\ studio = [at |-> studio.at, check |-> studio.check, todo |-> studio.todo,
                    targets |-> studio.targets]
       /\ SoundCheck(studio.check)
       /\ studio.todo \subseteq finalized
       /\ \A r \in DOMAIN studio.targets : r \in finalized /\ bindings[r] # <<>>
  /\ studio.at = "enqueuing" => preview = Selection
  /\ \A s \in jobs \cup {preview} : s # None =>
       SoundCheck(s.check) /\ DOMAIN s.targets \subseteq finalized

IInv ==
  Typed /\ ReleasesInOrder /\ BindingsInOrder /\ TaxonomiesExtend /\ ChecksAreSound
  /\ SelectionsAreBound

-----------------------------------------------------------------------------
(* Least and greatest elements of a finite set of numbers.                 *)

LEMMA LeastOfSet ==
  ASSUME NEW S \in SUBSET Nat, S # {}, IsFiniteSet(S)
  PROVE  \E n \in S : \A m \in S : n <= m
<1> DEFINE Bad == {X \in SUBSET S : X # {} /\ ~ \E n \in X : \A m \in X : n <= m}
           R == StrictSubsetOrdering(S)
<1>1. SUFFICES ASSUME Bad # {} PROVE FALSE
  OBVIOUS
<1>2. Bad \subseteq FiniteSubsetsOf(S)
  BY FS_Subset DEF FiniteSubsetsOf
<1>3. PICK X \in Bad : \A Y \in Bad : <<Y, X>> \notin R
  <2>1. IsWellFoundedOn(R, FiniteSubsetsOf(S))  BY FS_StrictSubsetOrderingWellFounded
  <2> HIDE DEF R, Bad
  <2> QED  BY <1>1, <1>2, <2>1, WFMin
<1>4. PICK x \in X : TRUE
  OBVIOUS
<1>5. X \ {x} \notin Bad
  <2>1. X \ {x} \in SUBSET S /\ X \in SUBSET S /\ X \ {x} \subseteq X /\ X \ {x} # X
    OBVIOUS
  <2>2. <<X \ {x}, X>> \in R
    BY <2>1 DEF StrictSubsetOrdering
  <2> QED  BY <1>3, <2>2
<1>6. CASE X \ {x} = {}
  BY <1>6, <1>3
<1>7. CASE X \ {x} # {}
  <2>1. PICK n \in X \ {x} : \A m \in X \ {x} : n <= m
    BY <1>5, <1>7
  <2>2. \A m \in X : (IF x <= n THEN x ELSE n) <= m
    BY <2>1
  <2> QED  BY <2>2, <1>3
<1> QED BY <1>6, <1>7

LEMMA GreatestOfSet ==
  ASSUME NEW S \in SUBSET Nat, S # {}, IsFiniteSet(S)
  PROVE  \E n \in S : \A m \in S : n >= m
<1> DEFINE Bad == {X \in SUBSET S : X # {} /\ ~ \E n \in X : \A m \in X : n >= m}
           R == StrictSubsetOrdering(S)
<1>1. SUFFICES ASSUME Bad # {} PROVE FALSE
  OBVIOUS
<1>2. Bad \subseteq FiniteSubsetsOf(S)
  BY FS_Subset DEF FiniteSubsetsOf
<1>3. PICK X \in Bad : \A Y \in Bad : <<Y, X>> \notin R
  <2>1. IsWellFoundedOn(R, FiniteSubsetsOf(S))  BY FS_StrictSubsetOrderingWellFounded
  <2> HIDE DEF R, Bad
  <2> QED  BY <1>1, <1>2, <2>1, WFMin
<1>4. PICK x \in X : TRUE
  OBVIOUS
<1>5. X \ {x} \notin Bad
  <2>1. X \ {x} \in SUBSET S /\ X \in SUBSET S /\ X \ {x} \subseteq X /\ X \ {x} # X
    OBVIOUS
  <2>2. <<X \ {x}, X>> \in R
    BY <2>1 DEF StrictSubsetOrdering
  <2> QED  BY <1>3, <2>2
<1>6. CASE X \ {x} = {}
  BY <1>6, <1>3
<1>7. CASE X \ {x} # {}
  <2>1. PICK n \in X \ {x} : \A m \in X \ {x} : n >= m
    BY <1>5, <1>7
  <2>2. \A m \in X : (IF x >= n THEN x ELSE n) >= m
    BY <2>1
  <2> QED  BY <2>2, <1>3
<1> QED BY <1>6, <1>7

LEMMA MinAndMaxAreMembers ==
  ASSUME NEW S \in SUBSET Nat, S # {}, IsFiniteSet(S)
  PROVE  Min(S) \in S /\ Max(S) \in S
BY LeastOfSet, GreatestOfSet DEF Min, Max

(* A content that is recorded has an index.                                *)
LEMMA IndexOfContent ==
  ASSUME NEW C, NEW s \in Seq(C), NEW i \in 1..Len(s)
  PROVE  IndexFirstSubSeq(<<s[i]>>, s) \in 1..Len(s)
<1> DEFINE c == s[i]
           w == <<c>>
           Has(n) == w \in SubSeqs(SubSeq(s, 1, n))
           P(n) == Has(n) /\ \A j \in 0..n - 1 : ~Has(j)
           S == {n \in 0..Len(s) : Has(n)}
           K == CHOOSE k \in 0..Len(s) : P(k)
<1>1. w \in Seq(C) /\ Len(w) = 1 /\ w[1] = c /\ c = s[i] /\ c \in C
  OBVIOUS
<1>2. IndexFirstSubSeq(w, s) = K - (Len(w) - 1)
  BY DEF IndexFirstSubSeq
<1> HIDE DEF w, c, K
<1>3. Has(i)
  <2> DEFINE u == SubSeq(s, 1, i)
  <2>1. u \in Seq(C) /\ Len(u) = i /\ u[i] = c /\ i \in 1..Len(u)
    <3>1. 1 \in Int /\ i \in Int /\ i \in Nat /\ 1 <= i /\ i <= Len(s) /\ Len(s) \in Nat
      OBVIOUS
    <3>2. \A n \in 1..i : s[n] \in C
      BY <3>1
    <3>3. /\ SubSeq(s, 1, i) \in Seq(C)
          /\ Len(SubSeq(s, 1, i)) = IF 1 <= i THEN i - 1 + 1 ELSE 0
          /\ \A n \in 1..i - 1 + 1 : SubSeq(s, 1, i)[n] = s[1 + n - 1]
      BY <3>1, <3>2, SubSeqProperties
    <3>4. u[i] = s[1 + i - 1]
      BY <3>1, <3>3
    <3> HIDE DEF u
    <3> QED  BY <1>1, <3>1, <3>3, <3>4 DEF u
  <2> HIDE DEF u
  <2>2. SubSeq(u, i, i) \in Seq(C) /\ Len(SubSeq(u, i, i)) = 1 /\ SubSeq(u, i, i)[1] = u[i]
    BY <2>1, SubSeqProperties
  <2>3. SubSeq(u, i, i) = w
    <3> DEFINE v == SubSeq(u, i, i)
    <3>1. v \in Seq(C) /\ Len(v) = 1 /\ v[1] = w[1]
      BY <1>1, <2>1, <2>2
    <3> HIDE DEF v
    <3>2. \A n \in 1..Len(v) : v[n] = w[n]
      <4>1. \A n \in 1..1 : n = 1
        OBVIOUS
      <4> QED  BY <3>1, <4>1
    <3>3. v = w
      BY <1>1, <3>1, <3>2, SeqEqual
    <3> QED  BY <3>3 DEF v
  <2>4. /\ i - 1 \in 0..Len(u) /\ i \in 0..Len(u) /\ (i - 1) + 1 = i
    BY <2>1
  <2>5. w \in SubSeqs(u)
    <3>1. \A a, b \in 0..Len(u) : SubSeq(u, a + 1, b) \in SubSeqs(u)
      BY DEF SubSeqs
    <3>2. SubSeq(u, (i - 1) + 1, i) \in SubSeqs(u)
      BY <2>4, <3>1, Zenon
    <3> QED  BY <2>3, <2>4, <3>2
  <2> QED  BY <2>5 DEF u
<1>4. ~Has(0)
  <2> DEFINE u == SubSeq(s, 1, 0)
  <2>1. u = <<>>
    <3>1. 0 < 1 /\ 0 \in Int /\ 1 \in Int
      OBVIOUS
    <3> QED  BY <3>1, SubSeqEmpty, Zenon
  <2>2. Len(u) = 0
    BY <2>1
  <2> HIDE DEF u
  <2>3. \A a, b \in 0..Len(u) : SubSeq(u, a + 1, b) # w
    <3> SUFFICES ASSUME NEW a \in 0..Len(u), NEW b \in 0..Len(u) PROVE SubSeq(u, a + 1, b) # w
      OBVIOUS
    <3>1. b < a + 1 /\ b \in Int /\ a + 1 \in Int
      BY <2>2
    <3>2. SubSeq(u, a + 1, b) = <<>>
      BY <3>1, SubSeqEmpty
    <3>3. Len(<<>>) = 0
      OBVIOUS
    <3>4. Len(w) # Len(<<>>)
      BY <1>1, <3>3
    <3> QED  BY <3>2, <3>4, Zenon
  <2>4. w \notin SubSeqs(u)
    BY <2>3 DEF SubSeqs
  <2> QED  BY <2>4 DEF u
<1> HIDE DEF Has
<1>5. PICK n \in S : \A m \in S : n <= m
  <2>1. S \in SUBSET Nat /\ S # {} /\ IsFiniteSet(S)
    <3>1. IsFiniteSet(0..Len(s))  BY FS_Interval
    <3>2. i \in S  BY <1>3
    <3>3. S \subseteq 0..Len(s)  OBVIOUS
    <3> HIDE DEF S
    <3>4. IsFiniteSet(S)  BY <3>1, <3>3, FS_Subset
    <3> QED  BY <3>2, <3>3, <3>4
  <2> HIDE DEF S
  <2> QED  BY <2>1, LeastOfSet
<1>6. n \in 0..Len(s) /\ P(n)
  BY <1>5
<1>7. K \in 0..Len(s) /\ P(K)
  <2> HIDE DEF P
  <2> QED  BY <1>6 DEF K
<1>8. K # 0
  BY <1>4, <1>7
<1>9. IndexFirstSubSeq(w, s) = K
  BY <1>1, <1>2, <1>7
<1> QED  BY <1>7, <1>8, <1>9 DEF w, c

LEMMA NewestInReview ==
  ASSUME NEW rows, NEW n \in Nat, DOMAIN rows = 1..n, InReview(rows) # {}
  PROVE  Max(InReview(rows)) \in 1..n /\ ~rows[Max(InReview(rows))].activated
<1>1. InReview(rows) \in SUBSET Nat /\ InReview(rows) \subseteq 1..n
  BY DEF InReview
<1>2. IsFiniteSet(InReview(rows))
  <2>1. IsFiniteSet(1..n)  BY FS_Interval
  <2> QED  BY <1>1, <2>1, FS_Subset
<1>3. Max(InReview(rows)) \in InReview(rows)
  BY <1>1, <1>2, MinAndMaxAreMembers
<1> QED  BY <1>1, <1>3 DEF InReview

(* Revisions are finitely many, so that a set of them has a least one.     *)
LEMMA FirstRevision ==
  ASSUME NEW S, S \subseteq Revisions, S # {}
  PROVE  Min(S) \in S
BY GovernanceAssumption, FS_Subset, MinAndMaxAreMembers

-----------------------------------------------------------------------------
(* What each step may change.                                              *)

LEMMA ContextSteps ==
  ASSUME [Next]_vars
  PROVE  \/ UNCHANGED contextVars
         \/ (\E c \in Contents : Prepare(c))
         \/ Approve
BY DEF Next, vars, contextVars, taxonomyVars, studioVars, Finalize, Restart, PreviewDefault,
       ApplyDefault, Propose, ApproveTaxonomy, Publish, Preview, ActivateCheck, Run, Bind, Show,
       Compare, Enqueue

LEMMA BindingSteps ==
  ASSUME [Next]_vars
  PROVE  \/ UNCHANGED <<finalized, bindings, backfill>>
         \/ (\E r \in Revisions : Finalize(r))
         \/ Restart \/ PreviewDefault \/ ApplyDefault \/ Bind
BY DEF Next, vars, contextVars, taxonomyVars, studioVars, Prepare, Approve,
       Propose, ApproveTaxonomy, Publish, Preview, ActivateCheck, Run, Show, Compare, Enqueue

LEMMA TaxonomySteps ==
  ASSUME [Next]_vars
  PROVE  UNCHANGED taxonomyVars \/ Propose \/ ApproveTaxonomy
BY DEF Next, vars, contextVars, taxonomyVars, studioVars, Finalize, Restart, Prepare, Approve,
       PreviewDefault, ApplyDefault, Publish, Preview, ActivateCheck, Run, Bind, Show, Compare,
       Enqueue

LEMMA StudioSteps ==
  ASSUME [Next]_vars
  PROVE  \/ UNCHANGED <<active, studio, preview, jobs>>
         \/ Restart \/ (\E n \in Names : Publish(n) \/ Preview(n))
         \/ ActivateCheck \/ Run \/ Bind \/ Show \/ Compare \/ Enqueue
BY DEF Next, vars, contextVars, taxonomyVars, studioVars, Finalize, Prepare, Approve,
       PreviewDefault, ApplyDefault, Propose, ApproveTaxonomy

-----------------------------------------------------------------------------
(* The initial states.                                                     *)

LEMMA InitIInv == Init => IInv
<1> SUFFICES ASSUME Init PROVE IInv
  OBVIOUS
<1>1. Typed
  BY DEF Init, Typed
<1>2. ReleasesInOrder /\ BindingsInOrder /\ TaxonomiesExtend
  BY DEF Init, ReleasesInOrder, BindingsInOrder, TaxonomiesExtend
<1>3. ChecksAreSound /\ SelectionsAreBound
  BY DEF Init, ChecksAreSound, SelectionsAreBound, Idle, Selecting
<1> QED  BY <1>1, <1>2, <1>3 DEF IInv

-----------------------------------------------------------------------------
(* The specifications.                                                     *)

LEMMA ContextKept ==
  ASSUME IInv, [Next]_vars
  PROVE  /\ snapshots' \in Seq(Contents) /\ drafts' \in Seq(DraftRows) /\ releases' \in Seq(Nat)
         /\ Len(releases) <= Len(releases')
         /\ ReleasesInOrder'
<1>1. /\ snapshots \in Seq(Contents) /\ drafts \in Seq(DraftRows) /\ releases \in Seq(Nat)
      /\ Len(snapshots) \in Nat /\ Len(drafts) \in Nat /\ Len(releases) \in Nat
      /\ \A d \in 1..Len(drafts) : drafts[d] \in DraftRows
      /\ \A k \in 1..Len(releases) : releases[k] \in Nat
      /\ ReleasesInOrder
  BY DEF IInv, Typed
<1>2. CASE UNCHANGED contextVars
  <2>1. snapshots' = snapshots /\ drafts' = drafts /\ releases' = releases
    BY <1>2 DEF contextVars
  <2> QED  BY <1>1, <2>1 DEF ReleasesInOrder
<1>3. ASSUME NEW c \in Contents, Prepare(c)
      PROVE  /\ snapshots' \in Seq(Contents) /\ drafts' \in Seq(DraftRows)
             /\ releases' = releases /\ ReleasesInOrder'
  <2> DEFINE source == IndexFirstSubSeq(<<c>>, Recorded(c))
             draft == [snapshot |-> source, activated |-> FALSE]
  <2>1. /\ snapshots' = Recorded(c) /\ releases' = releases
        /\ drafts' = drafts \/ drafts' = Append(drafts, draft)
    BY <1>3 DEF Prepare
  <2>2. /\ Recorded(c) \in Seq(Contents) /\ Len(snapshots) <= Len(Recorded(c))
        /\ Len(Recorded(c)) \in Nat
        /\ \E i \in 1..Len(Recorded(c)) : Recorded(c)[i] = c
    <3>1. CASE c \in Range(snapshots)
      BY <1>1, <3>1 DEF Recorded, Range
    <3>2. CASE c \notin Range(snapshots)
      <4>1. Recorded(c) = Append(snapshots, c)
        BY <3>2 DEF Recorded
      <4>2. /\ Recorded(c) \in Seq(Contents) /\ Len(Recorded(c)) = Len(snapshots) + 1
            /\ Recorded(c)[Len(snapshots) + 1] = c
        BY <1>1, <4>1
      <4>3. Len(snapshots) + 1 \in 1..Len(Recorded(c))
        BY <1>1, <4>2
      <4> QED  BY <1>1, <4>2, <4>3
    <3> QED  BY <3>1, <3>2
  <2>3. source \in 1..Len(Recorded(c))
    <3>1. PICK i \in 1..Len(Recorded(c)) : Recorded(c)[i] = c
      BY <2>2
    <3>2. IndexFirstSubSeq(<<Recorded(c)[i]>>, Recorded(c)) \in 1..Len(Recorded(c))
      BY <2>2, IndexOfContent
    <3> QED  BY <3>1, <3>2
  <2> HIDE DEF source
  <2>4. draft \in DraftRows /\ draft.snapshot = source /\ draft.activated = FALSE
    <3>1. source \in Nat
      BY <2>2, <2>3
    <3> QED  BY <3>1 DEF DraftRows
  <2> HIDE DEF draft
  <2>5. /\ drafts' \in Seq(DraftRows)
        /\ Len(drafts) <= Len(drafts') /\ Len(drafts') \in Nat
        /\ \A d \in 1..Len(drafts) : drafts'[d] = drafts[d]
        /\ \A d \in 1..Len(drafts') : d \in 1..Len(drafts) \/ drafts'[d] = draft
    <3>1. CASE drafts' = drafts
      BY <1>1, <3>1
    <3>2. CASE drafts' = Append(drafts, draft)
      BY <1>1, <2>4, <3>2
    <3> QED  BY <2>1, <3>1, <3>2
  <2>6. \A d \in 1..Len(drafts') : drafts'[d].snapshot \in 1..Len(snapshots')
    <3> SUFFICES ASSUME NEW d \in 1..Len(drafts')
                 PROVE  drafts'[d].snapshot \in 1..Len(Recorded(c))
      BY <2>1
    <3>1. CASE d \in 1..Len(drafts)
      <4>1. drafts[d].snapshot \in 1..Len(snapshots)
        BY <1>1, <3>1 DEF ReleasesInOrder
      <4>2. drafts'[d] = drafts[d]
        BY <2>5, <3>1
      <4>3. Len(snapshots) \in Nat /\ Len(snapshots) <= Len(Recorded(c)) /\ Len(Recorded(c)) \in Nat
        BY <1>1, <2>2
      <4> HIDE DEF source, draft
      <4> QED  BY <4>1, <4>2, <4>3
    <3>2. CASE d \notin 1..Len(drafts)
      BY <2>3, <2>4, <2>5, <3>2
    <3> QED  BY <3>1, <3>2
  <2>7. /\ \A k \in 1..Len(releases) :
             /\ releases[k] \in 1..Len(drafts) /\ releases[k] \in 1..Len(drafts')
             /\ drafts'[releases[k]] = drafts[releases[k]]
        /\ \A d \in 1..Len(drafts') :
             drafts'[d].activated => d \in 1..Len(drafts) /\ drafts'[d] = drafts[d]
    <3>1. \A k \in 1..Len(releases) : releases[k] \in 1..Len(drafts)
      BY <1>1 DEF ReleasesInOrder
    <3>2. \A k \in 1..Len(releases) : releases[k] \in 1..Len(drafts')
      BY <1>1, <2>5, <3>1
    <3> QED  BY <2>4, <2>5, <3>1, <3>2
  <2>8. ReleasesInOrder /\ releases' = releases
    BY <1>1, <2>1
  <2>9. \A k \in 1..Len(releases') :
          releases'[k] \in 1..Len(drafts') /\ drafts'[releases'[k]].activated
    BY ONLY <2>7, <2>8 DEF ReleasesInOrder
  <2>10. \A d \in 1..Len(drafts') :
           drafts'[d].activated => \E k \in 1..Len(releases') : releases'[k] = d
    BY ONLY <2>7, <2>8 DEF ReleasesInOrder
  <2>11. \A j, k \in 1..Len(releases') : j < k =>
           /\ releases'[j] # releases'[k]
           /\ drafts'[releases'[j]].snapshot <= drafts'[releases'[k]].snapshot
    <3>1. \A j, k \in 1..Len(releases) : j < k =>
            releases[j] # releases[k] /\ drafts[releases[j]].snapshot <= drafts[releases[k]].snapshot
      BY <2>8 DEF ReleasesInOrder
    <3>2. \A k \in 1..Len(releases) : drafts'[releases[k]] = drafts[releases[k]]
      BY <2>7
    <3> QED  BY ONLY <2>8, <3>1, <3>2
  <2>12. ReleasesInOrder'
    BY ONLY <2>6, <2>9, <2>10, <2>11 DEF ReleasesInOrder
  <2> QED  BY <2>1, <2>2, <2>5, <2>12
<1>4. ASSUME Approve
      PROVE  /\ snapshots' = snapshots /\ drafts' \in Seq(DraftRows) /\ releases' \in Seq(Nat)
             /\ Len(releases) <= Len(releases') /\ ReleasesInOrder'
  <2> DEFINE d == Max(InReview(drafts))
  <2>1. d \in 1..Len(drafts) /\ ~drafts[d].activated
    <3>1. DOMAIN drafts = 1..Len(drafts) /\ InReview(drafts) # {}
      BY <1>1, <1>4 DEF Approve
    <3> QED  BY <1>1, <3>1, NewestInReview
  <2>2. /\ drafts[d].snapshot = Len(snapshots) /\ snapshots' = snapshots
        /\ releases' = Append(releases, d) /\ drafts' = [drafts EXCEPT ![d].activated = TRUE]
    BY <1>4 DEF Approve, OfNewestSource, Snapshot
  <2> HIDE DEF d
  <2>3. /\ drafts' \in Seq(DraftRows) /\ Len(drafts') = Len(drafts)
        /\ \A e \in 1..Len(drafts) :
             /\ drafts'[e].snapshot = drafts[e].snapshot
             /\ e = d => drafts'[e].activated
             /\ e # d => drafts'[e].activated = drafts[e].activated
    <3>1. [drafts[d] EXCEPT !.activated = TRUE] \in DraftRows
      BY <1>1, <2>1 DEF DraftRows
    <3>2. drafts' = [drafts EXCEPT ![d] = [drafts[d] EXCEPT !.activated = TRUE]]
      BY <2>2
    <3>3. /\ drafts' \in Seq(DraftRows) /\ Len(drafts') = Len(drafts)
          /\ \A e \in 1..Len(drafts) :
               drafts'[e] = IF e = d THEN [drafts[d] EXCEPT !.activated = TRUE] ELSE drafts[e]
      BY <1>1, <2>1, <3>1, <3>2, ExceptSeq
    <3>4. /\ [drafts[d] EXCEPT !.activated = TRUE].snapshot = drafts[d].snapshot
          /\ [drafts[d] EXCEPT !.activated = TRUE].activated
      BY <1>1, <2>1 DEF DraftRows
    <3> QED  BY <3>3, <3>4, Zenon
  <2>4. /\ releases' \in Seq(Nat) /\ Len(releases') = Len(releases) + 1
        /\ releases'[Len(releases) + 1] = d
        /\ \A k \in 1..Len(releases) : releases'[k] = releases[k]
    BY <1>1, <2>1, <2>2
  <2>5. \A e \in 1..Len(drafts') : drafts'[e].snapshot \in 1..Len(snapshots')
    BY <1>1, <2>2, <2>3 DEF ReleasesInOrder
  <2>6. \A k \in 1..Len(releases') :
          releases'[k] \in 1..Len(drafts') /\ drafts'[releases'[k]].activated
    <3> SUFFICES ASSUME NEW k \in 1..Len(releases')
                 PROVE  releases'[k] \in 1..Len(drafts') /\ drafts'[releases'[k]].activated
      OBVIOUS
    <3>1. CASE k = Len(releases) + 1
      BY <2>1, <2>3, <2>4, <3>1
    <3>2. CASE k # Len(releases) + 1
      <4>1. k \in 1..Len(releases) /\ releases'[k] = releases[k]
        BY <1>1, <2>4, <3>2
      <4>2. releases[k] \in 1..Len(drafts) /\ drafts[releases[k]].activated
        BY <1>1, <4>1 DEF ReleasesInOrder
      <4> QED  BY <2>3, <4>1, <4>2
    <3> QED  BY <3>1, <3>2
  <2>7. \A e \in 1..Len(drafts') :
          drafts'[e].activated => \E k \in 1..Len(releases') : releases'[k] = e
    <3> SUFFICES ASSUME NEW e \in 1..Len(drafts'), drafts'[e].activated
                 PROVE  \E k \in 1..Len(releases') : releases'[k] = e
      OBVIOUS
    <3>1. CASE e = d
      <4>1. Len(releases) + 1 \in 1..Len(releases')
        BY <1>1, <2>4
      <4> QED  BY <2>4, <3>1, <4>1
    <3>2. CASE e # d
      <4>1. e \in 1..Len(drafts) /\ drafts[e].activated
        BY <2>3, <3>2
      <4>2. PICK k \in 1..Len(releases) : releases[k] = e
        BY <1>1, <4>1 DEF ReleasesInOrder
      <4>3. releases'[k] = e
        BY <2>4, <4>2
      <4>4. Len(releases) \in Nat /\ Len(releases') = Len(releases) + 1
        BY <1>1, <2>4
      <4>5. k \in 1..Len(releases')
        BY ONLY <4>4, k \in 1..Len(releases)
      <4> QED  BY <4>3, <4>5
    <3> QED  BY <3>1, <3>2
  <2>8. \A j, k \in 1..Len(releases') : j < k =>
          /\ releases'[j] # releases'[k]
          /\ drafts'[releases'[j]].snapshot <= drafts'[releases'[k]].snapshot
    <3> SUFFICES ASSUME NEW j \in 1..Len(releases'), NEW k \in 1..Len(releases'), j < k
                 PROVE  /\ releases'[j] # releases'[k]
                        /\ drafts'[releases'[j]].snapshot <= drafts'[releases'[k]].snapshot
      OBVIOUS
    <3>1. j \in 1..Len(releases) /\ releases'[j] = releases[j]
      <4>1. Len(releases) \in Nat /\ Len(releases') = Len(releases) + 1
        BY <1>1, <2>4
      <4>2. j \in 1..Len(releases)
        BY ONLY <4>1, j \in 1..Len(releases'), k \in 1..Len(releases'), j < k
      <4> QED  BY <2>4, <4>2
    <3>2. /\ releases[j] \in 1..Len(drafts) /\ drafts[releases[j]].activated
          /\ drafts[releases[j]].snapshot \in 1..Len(snapshots)
      BY <1>1, <3>1 DEF ReleasesInOrder
    <3>3. CASE k = Len(releases) + 1
      <4>1. releases'[k] = d /\ releases[j] # d
        BY <2>1, <2>4, <3>2, <3>3
      <4>2. /\ drafts'[releases[j]].snapshot = drafts[releases[j]].snapshot
            /\ drafts'[d].snapshot = Len(snapshots)
        BY <2>1, <2>2, <2>3, <3>2
      <4> QED  BY <1>1, <3>1, <3>2, <4>1, <4>2
    <3>4. CASE k # Len(releases) + 1
      <4>1. k \in 1..Len(releases) /\ releases'[k] = releases[k]
        <5>1. Len(releases) \in Nat /\ Len(releases') = Len(releases) + 1
          BY <1>1, <2>4
        <5>2. k \in 1..Len(releases)
          BY <3>4, <5>1
        <5> QED  BY <2>4, <5>2
      <4>2. /\ releases[k] \in 1..Len(drafts) /\ releases[j] # releases[k]
            /\ drafts[releases[j]].snapshot <= drafts[releases[k]].snapshot
        BY <1>1, <3>1, <4>1 DEF ReleasesInOrder
      <4>3. \A e \in 1..Len(drafts) : drafts'[e].snapshot = drafts[e].snapshot
        BY <2>3
      <4> QED  BY ONLY <3>1, <3>2, <4>1, <4>2, <4>3
    <3> QED  BY <3>3, <3>4
  <2>9. ReleasesInOrder'
    BY ONLY <2>5, <2>6, <2>7, <2>8 DEF ReleasesInOrder
  <2>10. Len(releases) \in Nat
    BY <1>1
  <2>11. Len(releases) <= Len(releases')
    BY ONLY <2>4, <2>10
  <2> QED  BY <2>2, <2>3, <2>4, <2>9, <2>11
<1>5. Len(releases) <= Len(releases)
  BY <1>1
<1> QED  BY <1>1, <1>2, <1>3, <1>4, <1>5, ContextSteps, Zenon

-----------------------------------------------------------------------------
(* The task definitions.                                                   *)

LEMMA NamedNodes ==
  ASSUME IInv, NEW k \in 1..Len(releases)
  PROVE  Specification(k) \in Contents /\ NodesOf[Specification(k)] \subseteq Nodes
<1>1. /\ snapshots \in Seq(Contents) /\ releases[k] \in 1..Len(drafts)
      /\ drafts[releases[k]].snapshot \in 1..Len(snapshots)
  BY DEF IInv, Typed, ReleasesInOrder
<1>2. Specification(k) \in Contents
  BY <1>1 DEF Specification, Snapshot
<1> QED  BY <1>2 DEF Nodes

LEMMA TaxonomyKept ==
  ASSUME IInv, [Next]_vars
  PROVE  /\ proposals' \in Seq(ProposalRows) /\ taxonomies' \in Seq(TaxonomyRows)
         /\ Len(taxonomies) <= Len(taxonomies')
         /\ \A k \in 0..Len(taxonomies) : Defined(k)' = Defined(k)
         /\ TaxonomiesExtend'
<1>1. /\ proposals \in Seq(ProposalRows) /\ taxonomies \in Seq(TaxonomyRows)
      /\ Len(proposals) \in Nat /\ Len(taxonomies) \in Nat
      /\ \A d \in 1..Len(proposals) : proposals[d] \in ProposalRows
      /\ \A k \in 1..Len(taxonomies) : taxonomies[k] \in TaxonomyRows
      /\ TaxonomiesExtend
  BY DEF IInv, Typed
<1>2. \A k \in 0..Len(taxonomies) : Defined(k) \subseteq Nodes
  <2> SUFFICES ASSUME NEW k \in 0..Len(taxonomies) PROVE Defined(k) \subseteq Nodes
    OBVIOUS
  <2>1. CASE k = 0
    BY <2>1 DEF Defined
  <2>2. CASE k # 0
    BY <1>1, <2>2 DEF Defined, TaxonomyRows
  <2> QED  BY <2>1, <2>2
<1>3. CASE UNCHANGED taxonomyVars
  <2>1. proposals' = proposals /\ taxonomies' = taxonomies
    BY <1>3 DEF taxonomyVars
  <2>2. Len(taxonomies) <= Len(taxonomies)
    BY <1>1
  <2> QED  BY <1>1, <2>1, <2>2 DEF TaxonomiesExtend, Extends, Defined
<1>4. CASE Propose
  <2> DEFINE base == Len(taxonomies)
             nodes == Defined(base) \cup NodesOf[Specification(Len(releases))]
             row == [base |-> base, activated |-> FALSE, nodes |-> nodes]
  <2>1. taxonomies' = taxonomies /\ releases # <<>> /\ proposals' = Append(proposals, row)
    BY <1>4 DEF Propose
  <2>2. NodesOf[Specification(Len(releases))] \subseteq Nodes
    <3>1. Len(releases) \in 1..Len(releases)
      BY <2>1 DEF IInv, Typed
    <3> QED  BY <3>1, NamedNodes
  <2>3. base \in 0..Len(taxonomies) /\ Defined(base) \subseteq Nodes
    BY <1>1, <1>2
  <2>4. row \in ProposalRows /\ row.base = base /\ \A n \in Defined(base) : n \in row.nodes
    BY <1>1, <2>2, <2>3 DEF ProposalRows
  <2> HIDE DEF row, nodes
  <2>5. /\ proposals' \in Seq(ProposalRows) /\ Len(proposals') = Len(proposals) + 1
        /\ \A d \in 1..Len(proposals) : proposals'[d] = proposals[d]
        /\ proposals'[Len(proposals) + 1] = row
    BY <1>1, <2>1, <2>4
  <2>6. \A d \in 1..Len(proposals') : Extends(proposals'[d], Len(taxonomies))
    <3> SUFFICES ASSUME NEW d \in 1..Len(proposals')
                 PROVE  Extends(proposals'[d], Len(taxonomies))
      OBVIOUS
    <3>1. CASE d = Len(proposals) + 1
      <4>1. Extends(row, Len(taxonomies))
        BY <2>3, <2>4 DEF Extends
      <4> QED  BY <2>5, <3>1, <4>1
    <3>2. CASE d # Len(proposals) + 1
      <4>1. d \in 1..Len(proposals)
        BY <1>1, <2>5, <3>2
      <4> QED  BY <1>1, <2>5, <4>1 DEF TaxonomiesExtend
    <3> QED  BY <3>1, <3>2
  <2>7. \A k : Defined(k)' = Defined(k)
    BY <2>1 DEF Defined
  <2>8. TaxonomiesExtend'
    BY <1>1, <2>1, <2>6, <2>7 DEF TaxonomiesExtend, Extends
  <2>9. Len(taxonomies) <= Len(taxonomies)
    BY <1>1
  <2> QED  BY <1>1, <2>1, <2>5, <2>7, <2>8, <2>9
<1>5. CASE ApproveTaxonomy
  <2> DEFINE d == Max(InReview(proposals))
             row == [base |-> proposals[d].base, nodes |-> proposals[d].nodes]
  <2>1. d \in 1..Len(proposals)
    <3>1. DOMAIN proposals = 1..Len(proposals) /\ InReview(proposals) # {}
      BY <1>1, <1>5 DEF ApproveTaxonomy
    <3> QED  BY <1>1, <3>1, NewestInReview
  <2>2. /\ taxonomies' = Append(taxonomies, row)
        /\ proposals' = [proposals EXCEPT ![d].activated = TRUE]
    BY <1>5 DEF ApproveTaxonomy
  <2> HIDE DEF d
  <2>3. Extends(proposals[d], Len(taxonomies)) /\ proposals[d] \in ProposalRows
    BY <1>1, <2>1 DEF TaxonomiesExtend
  <2>4. row \in TaxonomyRows /\ row.base = proposals[d].base /\ row.nodes = proposals[d].nodes
    BY <2>3 DEF ProposalRows, TaxonomyRows
  <2> HIDE DEF row
  <2>5. /\ taxonomies' \in Seq(TaxonomyRows) /\ Len(taxonomies') = Len(taxonomies) + 1
        /\ \A k \in 1..Len(taxonomies) : taxonomies'[k] = taxonomies[k]
        /\ taxonomies'[Len(taxonomies) + 1] = row
    BY <1>1, <2>2, <2>4
  <2>6. /\ proposals' \in Seq(ProposalRows) /\ Len(proposals') = Len(proposals)
        /\ \A e \in 1..Len(proposals) : /\ proposals'[e].base = proposals[e].base
                                        /\ proposals'[e].nodes = proposals[e].nodes
    <3> DEFINE closed == [proposals[d] EXCEPT !.activated = TRUE]
    <3>1. /\ closed \in ProposalRows
          /\ closed.base = proposals[d].base /\ closed.nodes = proposals[d].nodes
      BY <2>3 DEF ProposalRows
    <3>2. proposals' = [proposals EXCEPT ![d] = closed]
      BY <2>2
    <3> HIDE DEF closed
    <3>3. /\ proposals' \in Seq(ProposalRows) /\ Len(proposals') = Len(proposals)
          /\ \A e \in 1..Len(proposals) : proposals'[e] = IF e = d THEN closed ELSE proposals[e]
      BY <1>1, <2>1, <3>1, <3>2, ExceptSeq
    <3> QED  BY <3>1, <3>3, Zenon
  <2> DEFINE After(k) == IF k = 0 THEN {} ELSE taxonomies'[k].nodes
  <2>7. /\ \A k : Defined(k)' = After(k)
        /\ \A k \in 0..Len(taxonomies) : After(k) = Defined(k)
    BY <1>1, <2>5 DEF Defined
  <2>8. \A k \in 1..Len(taxonomies') : Extends(taxonomies[k], k - 1)'
    <3> SUFFICES ASSUME NEW k \in 1..Len(taxonomies')
                 PROVE  /\ taxonomies'[k].base \in 0..k - 1
                        /\ \A n \in After(taxonomies'[k].base) : n \in taxonomies'[k].nodes
      BY DEF Extends, Defined
    <3> HIDE DEF After
    <3>1. CASE k = Len(taxonomies) + 1
      <4>1. /\ row.base \in 0..Len(taxonomies) /\ \A n \in Defined(row.base) : n \in row.nodes
        BY <2>3, <2>4 DEF Extends
      <4>2. taxonomies'[k] = row /\ k - 1 = Len(taxonomies)
        BY <1>1, <2>5, <3>1
      <4>3. After(row.base) = Defined(row.base)
        BY <2>7, <4>1
      <4> QED  BY <4>1, <4>2, <4>3
    <3>2. CASE k # Len(taxonomies) + 1
      <4>1. k \in 1..Len(taxonomies) /\ taxonomies'[k] = taxonomies[k]
        <5>1. k \in 1..Len(taxonomies)
          BY <1>1, <2>5, <3>2
        <5> QED  BY <2>5, <5>1
      <4>2. /\ taxonomies[k].base \in 0..k - 1
            /\ \A n \in Defined(taxonomies[k].base) : n \in taxonomies[k].nodes
        BY <1>1, <4>1 DEF TaxonomiesExtend, Extends
      <4>3. taxonomies[k].base \in 0..Len(taxonomies)
        BY <1>1, <4>1, <4>2
      <4>4. After(taxonomies[k].base) = Defined(taxonomies[k].base)
        BY <2>7, <4>3
      <4> QED  BY <4>1, <4>2, <4>4
    <3> QED  BY <3>1, <3>2
  <2>9. \A e \in 1..Len(proposals') : Extends(proposals[e], Len(taxonomies))'
    <3> SUFFICES ASSUME NEW e \in 1..Len(proposals')
                 PROVE  /\ proposals'[e].base \in 0..Len(taxonomies')
                        /\ \A n \in After(proposals'[e].base) : n \in proposals'[e].nodes
      BY DEF Extends, Defined
    <3> HIDE DEF After
    <3>1. /\ proposals[e].base \in 0..Len(taxonomies)
          /\ \A n \in Defined(proposals[e].base) : n \in proposals[e].nodes
      BY <1>1, <2>6 DEF TaxonomiesExtend, Extends
    <3>2. proposals[e].base \in 0..Len(taxonomies')
      BY <1>1, <2>5, <3>1
    <3>3. After(proposals[e].base) = Defined(proposals[e].base)
      BY <2>7, <3>1
    <3> QED  BY <2>6, <3>1, <3>2, <3>3
  <2>10. TaxonomiesExtend'
    BY <2>8, <2>9 DEF TaxonomiesExtend
  <2>11. Len(taxonomies) <= Len(taxonomies')
    BY <1>1, <2>5
  <2>12. \A k \in 0..Len(taxonomies) : Defined(k)' = Defined(k)
    BY <2>7
  <2> QED  BY <2>5, <2>6, <2>10, <2>11, <2>12
<1> QED  BY <1>3, <1>4, <1>5, TaxonomySteps

-----------------------------------------------------------------------------
(* The bindings.                                                           *)

(* Every binding that is made is the first one, or one of a newer release. *)
LEMMA BindingsGrow ==
  ASSUME IInv, [Next]_vars, NEW r \in Revisions
  PROVE  \/ bindings'[r] = bindings[r]
         \/ /\ bindings[r] = <<>> /\ bindings'[r] = <<0>>
            /\ r \in finalized /\ backfill' = backfill /\ finalized' = finalized
         \/ /\ ApplyDefault /\ r \in finalized
            /\ \A i \in 1..Len(bindings[r]) : bindings[r][i] # backfill.release
            /\ bindings'[r] = Append(bindings[r], backfill.release)
<1>1. /\ bindings \in [Revisions -> Seq(Nat)] /\ finalized \in SUBSET Revisions
      /\ SelectionsAreBound
  BY DEF IInv, Typed
<1>2. CASE bindings' = bindings
  BY <1>2
<1>3. CASE ApplyDefault
  <2> DEFINE k == backfill.release
  <2>1. bindings'[r] = IF r \in finalized /\ k \notin Range(bindings[r])
                       THEN Append(bindings[r], k) ELSE bindings[r]
    BY <1>3 DEF ApplyDefault
  <2>2. DOMAIN bindings[r] = 1..Len(bindings[r])
    BY <1>1
  <2>3. k \notin Range(bindings[r]) => \A i \in 1..Len(bindings[r]) : bindings[r][i] # k
    BY <2>2 DEF Range
  <2> QED  BY <1>3, <2>1, <2>3
<1>4. CASE Bind
  <2> DEFINE q == Min(studio.todo)
  <2>1. /\ studio.todo # {} /\ studio.at \in Selecting
        /\ bindings' = [bindings EXCEPT ![q] = Ensured(q)]
        /\ backfill' = backfill /\ finalized' = finalized
    BY <1>4 DEF Bind, Selecting
  <2>2. q \in finalized
    <3>1. studio.todo \subseteq finalized
      BY <1>1, <2>1 DEF SelectionsAreBound
    <3> QED  BY <1>1, <2>1, <3>1, FirstRevision
  <2> HIDE DEF q
  <2> QED  BY <1>1, <2>1, <2>2 DEF Ensured
<1>5. UNCHANGED <<finalized, bindings, backfill>> => bindings' = bindings
  OBVIOUS
<1>6. (\E q \in Revisions : Finalize(q)) \/ Restart \/ PreviewDefault => bindings' = bindings
  BY DEF Finalize, Restart, PreviewDefault
<1> QED  BY <1>2, <1>3, <1>4, <1>5, <1>6, BindingSteps

(* A preview keeps its release and its revisions while it is open.         *)
LEMMA PreviewsStay ==
  ASSUME IInv, [Next]_vars
  PROVE  /\ finalized \subseteq finalized' /\ finalized' \subseteq Revisions
         /\ \/ backfill' = backfill
            \/ backfill' = None
            \/ /\ bindings' = bindings /\ finalized' = finalized
               /\ Len(releases) \in 1..Len(releases) /\ releases' = releases
               /\ backfill' = [release |-> Len(releases), revisions |-> finalized]
<1>1. finalized \in SUBSET Revisions /\ Len(releases) \in Nat /\ (releases # <<>> => Len(releases) > 0)
  BY DEF IInv, Typed
<1>2. CASE UNCHANGED <<finalized, bindings, backfill>>
  BY <1>1, <1>2
<1>3. CASE \E r \in Revisions : Finalize(r)
  BY <1>1, <1>3 DEF Finalize
<1>4. CASE Restart \/ ApplyDefault \/ Bind
  BY <1>1, <1>4 DEF Restart, ApplyDefault, Bind
<1>5. CASE PreviewDefault
  <2>1. /\ bindings' = bindings /\ finalized' = finalized /\ releases' = releases
        /\ backfill' = [release |-> Len(releases), revisions |-> finalized] /\ releases # <<>>
    BY <1>5 DEF PreviewDefault, contextVars
  <2>2. Len(releases) \in 1..Len(releases)
    BY <1>1, <2>1
  <2> QED  BY <1>1, <2>1, <2>2
<1> QED  BY <1>2, <1>3, <1>4, <1>5, BindingSteps

LEMMA BindingsKept ==
  ASSUME IInv, [Next]_vars
  PROVE  /\ bindings' \in [Revisions -> Seq(Nat)]
         /\ \A r \in Revisions : bindings[r] # <<>> => bindings'[r] # <<>>
         /\ BindingsInOrder'
<1>1. /\ bindings \in [Revisions -> Seq(Nat)]
      /\ \A r \in Revisions : bindings[r] \in Seq(Nat) /\ Len(bindings[r]) \in Nat
      /\ BindingsInOrder /\ Len(releases) \in Nat
  BY DEF IInv, Typed
<1>2. Len(releases') \in Nat /\ Len(releases) <= Len(releases')
  BY ContextKept
<1>3. ASSUME ApplyDefault
      PROVE  /\ backfill # None /\ backfill.revisions = finalized
             /\ backfill.release \in 1..Len(releases)
             /\ backfill' = None /\ finalized' = finalized
  BY <1>1, <1>3 DEF ApplyDefault, Selected, BindingsInOrder
<1>4. ASSUME NEW r \in Revisions
      PROVE  /\ bindings'[r] \in Seq(Nat)
             /\ bindings[r] # <<>> => bindings'[r] # <<>>
             /\ \A i \in 1..Len(bindings'[r]) : bindings'[r][i] <= Len(releases)
             /\ \A i, j \in 1..Len(bindings'[r]) : i < j => bindings'[r][i] < bindings'[r][j]
             /\ r \notin finalized' => bindings'[r] = <<>>
  <2>1. /\ \A i \in 1..Len(bindings[r]) : /\ bindings[r][i] <= Len(releases)
                                          /\ backfill # None => bindings[r][i] <= backfill.release
        /\ \A i, j \in 1..Len(bindings[r]) : i < j => bindings[r][i] < bindings[r][j]
        /\ r \notin finalized => bindings[r] = <<>>
    BY <1>1 DEF BindingsInOrder
  <2>2. CASE bindings'[r] = bindings[r]
    BY <1>1, <2>1, <2>2, PreviewsStay
  <2>3. CASE bindings[r] = <<>> /\ bindings'[r] = <<0>> /\ r \in finalized /\ finalized' = finalized
    BY <1>1, <2>3
  <2>4. CASE /\ ApplyDefault /\ r \in finalized
             /\ \A i \in 1..Len(bindings[r]) : bindings[r][i] # backfill.release
             /\ bindings'[r] = Append(bindings[r], backfill.release)
    <3> DEFINE k == backfill.release
               n == Len(bindings[r])
    <3>1. /\ k \in Nat /\ n \in Nat /\ k <= Len(releases) /\ finalized' = finalized
          /\ \A i \in 1..n : bindings[r][i] \in Nat /\ bindings[r][i] < k
      <4>1. k \in 1..Len(releases) /\ backfill # None /\ finalized' = finalized
        BY <1>3, <2>4
      <4>2. \A i \in 1..n : bindings[r][i] \in Nat /\ bindings[r][i] <= k /\ bindings[r][i] # k
        BY <1>1, <2>1, <2>4, <4>1
      <4> HIDE DEF k
      <4> QED  BY <1>1, <4>1, <4>2
    <3>2. /\ bindings'[r] \in Seq(Nat) /\ Len(bindings'[r]) = n + 1
          /\ bindings'[r][n + 1] = k
          /\ \A i \in 1..n : bindings'[r][i] = bindings[r][i]
      BY <1>1, <2>4, <3>1
    <3> HIDE DEF k
    <3>3. \A i \in 1..n + 1 : i \in 1..n \/ i = n + 1
      BY <3>1
    <3>4. \A i \in 1..Len(bindings'[r]) : bindings'[r][i] <= Len(releases)
      BY <1>1, <2>1, <3>1, <3>2, <3>3
    <3>5. \A i, j \in 1..Len(bindings'[r]) : i < j => bindings'[r][i] < bindings'[r][j]
      <4> SUFFICES ASSUME NEW i \in 1..n + 1, NEW j \in 1..n + 1, i < j
                   PROVE  bindings'[r][i] < bindings'[r][j]
        BY <3>2
      <4>1. i \in 1..n
        BY <3>1
      <4>2. CASE j \in 1..n
        BY <2>1, <3>2, <4>1, <4>2
      <4>3. CASE j = n + 1
        BY <3>1, <3>2, <4>1, <4>3
      <4> QED  BY <3>3, <4>2, <4>3
    <3>6. bindings'[r] # <<>>
      BY <3>1, <3>2
    <3> QED  BY <2>4, <3>1, <3>2, <3>4, <3>5, <3>6
  <2> QED  BY <2>2, <2>3, <2>4, BindingsGrow
<1>5. bindings' \in [Revisions -> Seq(Nat)]
  <2>1. bindings' = [r \in Revisions |-> bindings'[r]]
    BY <1>1, BindingSteps DEF Finalize, Restart, PreviewDefault, ApplyDefault, Bind
  <2> QED  BY <1>4, <2>1
<1>6. ASSUME backfill' # None
      PROVE  /\ backfill'.release \in 1..Len(releases') /\ backfill'.revisions \subseteq finalized'
             /\ \A r \in Revisions : \A i \in 1..Len(bindings'[r]) :
                  bindings'[r][i] <= backfill'.release
  <2>1. CASE backfill' = backfill
    <3>1. /\ backfill.release \in 1..Len(releases) /\ backfill.revisions \subseteq finalized
          /\ \A r \in Revisions : \A i \in 1..Len(bindings[r]) :
                  bindings[r][i] <= backfill.release
      BY <1>1, <1>6, <2>1 DEF BindingsInOrder
    <3>2. backfill.release \in 1..Len(releases') /\ backfill.revisions \subseteq finalized'
      BY <1>1, <1>2, <3>1, PreviewsStay
    <3>3. ASSUME NEW r \in Revisions, NEW i \in 1..Len(bindings'[r])
          PROVE  bindings'[r][i] <= backfill.release
      <4>1. CASE bindings'[r] = bindings[r]
        BY <3>1, <3>3, <4>1
      <4>2. CASE bindings'[r] = <<0>>
        BY <3>1, <3>3, <4>2
      <4>3. ~ApplyDefault
        BY <1>3, <1>6
      <4> QED  BY <4>1, <4>2, <4>3, BindingsGrow
    <3> QED  BY <2>1, <3>2, <3>3
  <2>2. CASE /\ bindings' = bindings /\ finalized' = finalized
             /\ Len(releases) \in 1..Len(releases) /\ releases' = releases
             /\ backfill' = [release |-> Len(releases), revisions |-> finalized]
    <3>1. backfill'.release = Len(releases) /\ backfill'.revisions = finalized
      BY <2>2
    <3>2. \A r \in Revisions : \A i \in 1..Len(bindings[r]) : bindings[r][i] <= Len(releases)
      BY <1>1 DEF BindingsInOrder
    <3> QED  BY <2>2, <3>1, <3>2, Zenon
  <2> QED  BY <1>6, <2>1, <2>2, PreviewsStay
<1>7. BindingsInOrder'
  <2>1. \A r \in Revisions : \A i \in 1..Len(bindings'[r]) : bindings'[r][i] <= Len(releases')
    <3> SUFFICES ASSUME NEW r \in Revisions, NEW i \in 1..Len(bindings'[r])
                 PROVE  bindings'[r][i] <= Len(releases')
      OBVIOUS
    <3>1. bindings'[r][i] \in Nat /\ bindings'[r][i] <= Len(releases)
      BY <1>4
    <3> QED  BY <1>1, <1>2, <3>1
  <2> QED  BY <1>4, <1>6, <2>1 DEF BindingsInOrder
<1> QED  BY <1>4, <1>5, <1>7

-----------------------------------------------------------------------------
(* The checks and the selections.                                          *)

LEMMA SoundStays ==
  ASSUME IInv, [Next]_vars, NEW c, Sound(c, Len(releases), taxonomies)
  PROVE  Sound(c, Len(releases'), taxonomies')
<1>1. /\ Len(releases) \in Nat /\ Len(releases') \in Nat /\ Len(releases) <= Len(releases')
      /\ Len(taxonomies) \in Nat /\ Len(taxonomies') \in Nat
      /\ Len(taxonomies) <= Len(taxonomies')
  BY ContextKept, TaxonomyKept DEF IInv, Typed
<1>2. \A k \in 1..Len(taxonomies) : taxonomies'[k].nodes = taxonomies[k].nodes
  <2>1. \A k \in 0..Len(taxonomies) : Defined(k)' = Defined(k)
    BY TaxonomyKept
  <2> QED  BY <1>1, <2>1 DEF Defined
<1>3. c \in [name : Names, context : 1..Len(releases), taxonomy : 0..Len(taxonomies),
             nodes : SUBSET Nodes]
  BY DEF Sound
<1>4. c \in [name : Names, context : 1..Len(releases'), taxonomy : 0..Len(taxonomies'),
             nodes : SUBSET Nodes]
  BY <1>1, <1>3
<1>5. c.taxonomy \in 0..Len(taxonomies)
  BY <1>3
<1>6. \A n \in c.nodes : c.taxonomy # 0 /\ n \in taxonomies'[c.taxonomy].nodes
  <2> SUFFICES ASSUME NEW n \in c.nodes
               PROVE  c.taxonomy # 0 /\ n \in taxonomies'[c.taxonomy].nodes
    OBVIOUS
  <2>1. c.taxonomy # 0 /\ n \in taxonomies[c.taxonomy].nodes
    BY DEF Sound
  <2>2. c.taxonomy \in 1..Len(taxonomies)
    BY <1>5, <2>1
  <2> QED  BY <1>2, <2>1, <2>2
<1> QED  BY <1>4, <1>6 DEF Sound

LEMMA PublishedIsSound ==
  ASSUME IInv, NEW n \in Names, Publish(n)
  PROVE  /\ studio'.at = "publishing"
         /\ Sound(studio'.check, Len(releases), taxonomies)
<1>1. PICK loaded \in 0..Len(taxonomies) :
        LET nodes == Defined(loaded)
            taxonomy == IF nodes = {} THEN 0 ELSE Len(taxonomies)
        IN /\ NodesExist(nodes, taxonomy)
           /\ studio' = [at |-> "publishing",
                         check |-> [name |-> n, context |-> Len(releases),
                                    taxonomy |-> taxonomy, nodes |-> nodes]]
  BY DEF Publish
<1> DEFINE nodes == Defined(loaded)
           taxonomy == IF nodes = {} THEN 0 ELSE Len(taxonomies)
           check == [name |-> n, context |-> Len(releases), taxonomy |-> taxonomy,
                     nodes |-> nodes]
<1>2. studio'.at = "publishing" /\ studio'.check = check /\ nodes \subseteq Defined(taxonomy)
  BY <1>1 DEF NodesExist
<1>3. /\ Len(releases) \in Nat /\ Len(taxonomies) \in Nat /\ releases # <<>>
      /\ releases \in Seq(Nat) /\ taxonomies \in Seq(TaxonomyRows)
  BY DEF Publish, IInv, Typed
<1>4. Len(releases) \in 1..Len(releases) /\ taxonomy \in 0..Len(taxonomies)
  BY <1>3
<1>5. nodes \subseteq Nodes
  <2>1. CASE loaded = 0
    BY <2>1 DEF Defined
  <2>2. CASE loaded # 0
    <3>1. taxonomies[loaded] \in TaxonomyRows
      BY <1>3, <2>2
    <3> QED  BY <2>2, <3>1 DEF Defined, TaxonomyRows
  <2> QED  BY <2>1, <2>2
<1>6. \A x \in nodes : taxonomy # 0 /\ x \in taxonomies[taxonomy].nodes
  BY <1>2 DEF Defined
<1> HIDE DEF nodes, taxonomy
<1>7. Sound(check, Len(releases), taxonomies)
  BY <1>4, <1>5, <1>6 DEF Sound
<1> QED  BY <1>2, <1>7

LEMMA ChecksKept ==
  ASSUME IInv, [Next]_vars
  PROVE  ChecksAreSound'
<1>1. /\ active = [n \in Names |-> active[n]]
      /\ \A n \in Names : active[n] # None => Sound(active[n], Len(releases), taxonomies)
      /\ studio.at = "publishing" => Sound(studio.check, Len(releases), taxonomies)
      /\ studio.at \in {"idle", "publishing"} \cup Selecting
  BY DEF IInv, ChecksAreSound, SoundCheck, SelectionsAreBound
<1>2. /\ \A n \in Names : active[n] # None => Sound(active[n], Len(releases'), taxonomies')
      /\ studio.at = "publishing" => Sound(studio.check, Len(releases'), taxonomies')
  BY <1>1, SoundStays
<1> DEFINE Checks2 == /\ active' = [n \in Names |-> active'[n]]
                      /\ \A n \in Names : active'[n] # None =>
                           Sound(active'[n], Len(releases'), taxonomies')
           Studio2 == studio'.at = "publishing" =>
                        Sound(studio'.check, Len(releases'), taxonomies')
<1>3. Checks2
  <2>1. CASE active' = active
    BY <1>1, <1>2, <2>1
  <2>2. CASE ActivateCheck
    <3> DEFINE c == studio.check
    <3>1. /\ active' = [active EXCEPT ![c.name] = c] /\ Sound(c, Len(releases'), taxonomies')
      BY <1>2, <2>2 DEF ActivateCheck
    <3> HIDE DEF c
    <3>2. c.name \in Names
      BY <3>1 DEF Sound
    <3> QED  BY <1>1, <1>2, <3>1, <3>2
  <2>3. active' = active \/ ActivateCheck
    BY StudioSteps DEF Restart, Publish, Preview, Run, Bind, Show, Compare, Enqueue
  <2> QED  BY <2>1, <2>2, <2>3
<1>4. Studio2
  <2>1. CASE studio' = studio
    BY <1>2, <2>1
  <2>2. ASSUME NEW n \in Names, Publish(n) PROVE Studio2
    <3>1. Sound(studio'.check, Len(releases), taxonomies)
      BY <2>2, PublishedIsSound
    <3> QED  BY <3>1, SoundStays
  <2>3. CASE studio'.at # "publishing"
    BY <2>3
  <2>4. studio' = studio \/ (\E n \in Names : Publish(n)) \/ studio'.at # "publishing"
    <3>1. CASE Bind
      <4>1. studio'.at = studio.at /\ studio.at # "publishing"
        <5>1. /\ studio.at \in Selecting
              /\ studio = [at |-> studio.at, check |-> studio.check, todo |-> studio.todo,
                           targets |-> studio.targets]
          BY <3>1 DEF Bind, Selecting, IInv, SelectionsAreBound
        <5> QED  BY <3>1, <5>1 DEF Bind, Selecting
      <4> QED  BY <4>1
    <3>2. CASE Compare
      <4>1. /\ studio.at \in Selecting
            /\ studio = [at |-> studio.at, check |-> studio.check, todo |-> studio.todo,
                         targets |-> studio.targets]
        BY <3>2 DEF Compare, Selecting, IInv, SelectionsAreBound
      <4>2. studio' = Idle \/ studio' = [studio EXCEPT !.at = "enqueuing"]
        BY <3>2 DEF Compare
      <4> QED  BY <4>1, <4>2 DEF Idle
    <3>3. CASE Restart \/ (\E n \in Names : Preview(n)) \/ ActivateCheck \/ Run \/ Show \/ Enqueue
      BY <3>3 DEF Restart, Preview, ActivateCheck, Run, Show, Enqueue, Idle
    <3> QED  BY <3>1, <3>2, <3>3, StudioSteps
  <2> QED  BY <2>1, <2>2, <2>3, <2>4
<1> QED  BY <1>3, <1>4 DEF ChecksAreSound, SoundCheck

LEMMA SelectionsKept ==
  ASSUME IInv, [Next]_vars
  PROVE  SelectionsAreBound'
<1> DEFINE Row(s) == [at |-> s.at, check |-> s.check, todo |-> s.todo, targets |-> s.targets]
           Now(c) == Sound(c, Len(releases), taxonomies)
           Later(c) == Sound(c, Len(releases'), taxonomies')
           BoundNow(f) == \A r \in DOMAIN f : r \in finalized /\ bindings[r] # <<>>
           BoundLater(f) == \A r \in DOMAIN f : r \in finalized' /\ bindings'[r] # <<>>
           Making == studio'.at \in Selecting =>
                       /\ studio' = Row(studio') /\ Later(studio'.check)
                       /\ studio'.todo \subseteq finalized' /\ BoundLater(studio'.targets)
           Shown == studio'.at = "enqueuing" =>
                      preview' = [check |-> studio'.check, targets |-> studio'.targets]
           Seen == \A s \in jobs' \cup {preview'} : s # None =>
                     Later(s.check) /\ DOMAIN s.targets \subseteq finalized'
<1>1. /\ studio.at \in {"idle", "publishing"} \cup Selecting
      /\ studio.at \in Selecting =>
           /\ studio = Row(studio) /\ Now(studio.check)
           /\ studio.todo \subseteq finalized /\ BoundNow(studio.targets)
      /\ studio.at = "enqueuing" =>
           preview = [check |-> studio.check, targets |-> studio.targets]
      /\ \A s \in jobs \cup {preview} : s # None =>
           Now(s.check) /\ DOMAIN s.targets \subseteq finalized
      /\ \A n \in Names : active[n] # None => Now(active[n])
      /\ finalized \subseteq Revisions
  BY DEF IInv, Typed, SelectionsAreBound, ChecksAreSound, SoundCheck, Selection
<1>2. /\ finalized \subseteq finalized'
      /\ \A r \in Revisions : bindings[r] # <<>> => bindings'[r] # <<>>
      /\ \A c : Now(c) => Later(c)
  BY PreviewsStay, BindingsKept, SoundStays
<1>3. \A f : BoundNow(f) => BoundLater(f)
  BY <1>1, <1>2
<1> HIDE DEF Now, Later, BoundNow, BoundLater
<1>4. \A s \in jobs \cup {preview} : s # None =>
        Later(s.check) /\ DOMAIN s.targets \subseteq finalized'
  BY <1>1, <1>2
<1>5. /\ studio.at \in Selecting =>
           /\ studio = Row(studio) /\ Later(studio.check)
           /\ studio.todo \subseteq finalized' /\ BoundLater(studio.targets)
  BY <1>1, <1>2, <1>3
<1>6. CASE UNCHANGED <<active, studio, preview, jobs>>
  <2>1. studio' = studio /\ preview' = preview /\ jobs' = jobs
    BY <1>6
  <2>2. studio'.at \in {"idle", "publishing"} \cup Selecting /\ Making /\ Shown /\ Seen
    BY <1>1, <1>4, <1>5, <2>1
  <2> QED  BY <2>2 DEF SelectionsAreBound, SoundCheck, Selection, Later, BoundLater
<1>7. ASSUME /\ studio'.at \in {"idle", "publishing"} \cup Selecting
             /\ Making /\ Shown /\ Seen
      PROVE  SelectionsAreBound'
  BY <1>7 DEF SelectionsAreBound, SoundCheck, Selection, Later, BoundLater
<1>8. ASSUME studio'.at \in {"idle", "publishing"} PROVE Making /\ Shown
  BY <1>8 DEF Selecting
<1>9. CASE Restart
  <2>1. studio'.at = "idle" /\ preview' = None /\ jobs' = jobs
    BY <1>9 DEF Restart, Idle
  <2>2. Seen
    BY <1>4, <2>1
  <2> QED  BY <1>7, <1>8, <2>1, <2>2
<1>10. CASE ActivateCheck \/ \E n \in Names : Publish(n)
  <2>1. studio'.at \in {"idle", "publishing"} /\ preview' = preview /\ jobs' = jobs
    BY <1>10 DEF ActivateCheck, Publish, Idle
  <2>2. Seen
    BY <1>4, <2>1
  <2> QED  BY <1>7, <1>8, <2>1, <2>2
<1>11. ASSUME NEW n \in Names, Preview(n) PROVE SelectionsAreBound'
  <2>1. /\ studio' = [at |-> "previewing", check |-> active[n], todo |-> finalized,
                      targets |-> <<>>]
        /\ active[n] # None /\ preview' = preview /\ jobs' = jobs
    BY <1>11 DEF Preview
  <2>2. Later(active[n])
    BY <1>1, <1>2, <2>1
  <2>3. BoundLater(<<>>)
    BY DEF BoundLater
  <2>4. /\ studio'.at = "previewing" /\ studio' = Row(studio') /\ studio'.check = active[n]
        /\ studio'.todo = finalized /\ studio'.targets = <<>>
    BY <2>1
  <2>5. Making /\ Shown /\ Seen /\ studio'.at \in Selecting
    BY <1>2, <1>4, <2>1, <2>2, <2>3, <2>4 DEF Selecting
  <2> QED  BY <1>7, <2>5
<1>12. CASE Run
  <2>1. /\ studio' = [at |-> "rechecking", check |-> preview.check,
                      todo |-> DOMAIN preview.targets, targets |-> <<>>]
        /\ preview # None /\ preview' = preview /\ jobs' = jobs
    BY <1>12 DEF Run
  <2>2. Later(preview.check) /\ DOMAIN preview.targets \subseteq finalized'
    BY <1>4, <2>1
  <2>3. BoundLater(<<>>)
    BY DEF BoundLater
  <2>4. /\ studio'.at = "rechecking" /\ studio' = Row(studio')
        /\ studio'.check = preview.check
        /\ studio'.todo = DOMAIN preview.targets /\ studio'.targets = <<>>
    BY <2>1
  <2>5. Making /\ Shown /\ Seen /\ studio'.at \in Selecting
    BY <1>4, <2>1, <2>2, <2>3, <2>4 DEF Selecting
  <2> QED  BY <1>7, <2>5
<1>13. CASE Bind
  <2> DEFINE r == Min(studio.todo)
             bound == [t \in DOMAIN studio.targets \cup {r} |->
                         IF t = r THEN Newest(r) ELSE studio.targets[t]]
  <2>1. /\ studio.at \in {"previewing", "rechecking"} /\ studio.todo # {}
        /\ bindings' = [bindings EXCEPT ![r] = Ensured(r)]
        /\ studio' = [studio EXCEPT !.todo = @ \ {r}, !.targets = bound]
        /\ preview' = preview /\ jobs' = jobs
    BY <1>13 DEF Bind
  <2>2. r \in studio.todo
    BY <1>1, <2>1, FirstRevision DEF Selecting
  <2>3. r \in finalized /\ r \in Revisions
    BY <1>1, <2>1, <2>2 DEF Selecting
  <2>4. bindings'[r] # <<>>
    <3>1. bindings \in [Revisions -> Seq(Nat)]
      BY DEF IInv, Typed
    <3>2. bindings'[r] = Ensured(r)
      BY <2>1, <2>3, <3>1
    <3> QED  BY <3>2 DEF Ensured
  <2>5. DOMAIN bound = DOMAIN studio.targets \cup {r}
    OBVIOUS
  <2> HIDE DEF r, bound
  <2>6. BoundLater(bound)
    <3>1. BoundLater(studio.targets)
      BY <1>5, <2>1 DEF Selecting
    <3> QED  BY <1>2, <2>3, <2>4, <2>5, <3>1 DEF BoundLater
  <2>7. /\ studio'.at = studio.at /\ studio' = Row(studio') /\ studio'.check = studio.check
        /\ studio'.todo = studio.todo \ {r} /\ studio'.targets = bound
    <3>1. studio = Row(studio)
      BY <1>1, <2>1 DEF Selecting
    <3> QED  BY <2>1, <3>1
  <2>8. Making /\ Shown /\ Seen /\ studio'.at \in Selecting
    BY <1>4, <1>5, <2>1, <2>6, <2>7 DEF Selecting
  <2> QED  BY <1>7, <2>8
<1>14. CASE Show
  <2>1. /\ studio.at = "previewing" /\ studio'.at = "idle" /\ jobs' = jobs
        /\ preview' = [check |-> studio.check, targets |-> studio.targets]
    BY <1>14 DEF Show, Selection, Idle
  <2>2. Later(preview'.check) /\ DOMAIN preview'.targets \subseteq finalized'
    BY <1>5, <2>1 DEF Selecting, BoundLater
  <2>3. Seen
    BY <1>4, <2>1, <2>2
  <2> QED  BY <1>7, <1>8, <2>1, <2>3
<1>15. CASE Compare
  <2>1. /\ studio.at = "rechecking" /\ preview' = preview /\ jobs' = jobs
        /\ \/ studio'.at = "idle"
           \/ Selection = preview /\ studio' = [studio EXCEPT !.at = "enqueuing"]
    BY <1>15 DEF Compare, Idle
  <2>2. Seen
    BY <1>4, <2>1
  <2>3. CASE studio'.at = "idle"
    BY <1>7, <1>8, <2>2, <2>3
  <2>4. CASE Selection = preview /\ studio' = [studio EXCEPT !.at = "enqueuing"]
    <3>1. /\ studio'.at = "enqueuing" /\ studio' = Row(studio') /\ studio'.check = studio.check
          /\ studio'.todo = studio.todo /\ studio'.targets = studio.targets
      <4>1. studio = Row(studio)
        BY <1>1, <2>1 DEF Selecting
      <4> QED  BY <2>4, <4>1
    <3>2. Making /\ Shown /\ studio'.at \in Selecting
      BY <1>5, <2>1, <2>4, <3>1 DEF Selecting, Selection
    <3> QED  BY <1>7, <2>2, <3>2
  <2> QED  BY <2>1, <2>3, <2>4
<1>16. CASE Enqueue
  <2>1. /\ studio.at = "enqueuing" /\ studio'.at = "idle" /\ preview' = preview
        /\ jobs' \subseteq jobs \cup {[check |-> studio.check, targets |-> studio.targets]}
    BY <1>16 DEF Enqueue, Selection, Idle
  <2>2. preview = [check |-> studio.check, targets |-> studio.targets]
    BY <1>1, <2>1
  <2>3. Seen
    BY <1>4, <2>1, <2>2
  <2> QED  BY <1>7, <1>8, <2>1, <2>3
<1> QED  BY <1>6, <1>9, <1>10, <1>11, <1>12, <1>13, <1>14, <1>15, <1>16, StudioSteps

LEMMA NextIInv == IInv /\ [Next]_vars => IInv'
<1> SUFFICES ASSUME IInv, [Next]_vars PROVE IInv'
  OBVIOUS
<1>1. finalized' \in SUBSET Revisions
  BY PreviewsStay
<1>2. Typed'
  BY <1>1, ContextKept, TaxonomyKept, BindingsKept DEF Typed
<1> QED  BY <1>2, ContextKept, TaxonomyKept, BindingsKept, ChecksKept, SelectionsKept DEF IInv

-----------------------------------------------------------------------------
(* The theorems.                                                           *)

LEMMA IInvIsSound == IInv => GovernanceIsSound
<1> SUFFICES ASSUME IInv PROVE GovernanceIsSound
  OBVIOUS
<1>1. /\ Typed /\ ReleasesInOrder /\ BindingsInOrder /\ TaxonomiesExtend /\ ChecksAreSound
      /\ SelectionsAreBound
  BY DEF IInv
<1>2. /\ DOMAIN drafts = 1..Len(drafts) /\ DOMAIN snapshots = 1..Len(snapshots)
      /\ DOMAIN releases = 1..Len(releases) /\ DOMAIN taxonomies = 1..Len(taxonomies)
      /\ DOMAIN proposals = 1..Len(proposals)
      /\ Len(releases) \in Nat /\ Len(taxonomies) \in Nat /\ Len(proposals) \in Nat
      /\ \A d \in 1..Len(drafts) : drafts[d] \in DraftRows
      /\ \A k \in 1..Len(taxonomies) : taxonomies[k] \in TaxonomyRows
      /\ \A d \in 1..Len(proposals) : proposals[d] \in ProposalRows
      /\ \A r \in Revisions : /\ bindings[r] \in Seq(Nat)
                              /\ DOMAIN bindings[r] = 1..Len(bindings[r])
                              /\ Len(bindings[r]) \in Nat
                              /\ \A i \in 1..Len(bindings[r]) : bindings[r][i] \in Nat
  BY <1>1 DEF Typed
<1>3. \A c : Sound(c, Len(releases), taxonomies) => c \in Checks
  BY <1>2 DEF Sound, Checks
<1>4. SourcesNeverGoBack
  <2> DEFINE gone == {d \in DOMAIN drafts : drafts[d].activated}
  <2>1. gone = Range(releases)
    <3>1. \A d \in gone : d \in Range(releases)
      <4> SUFFICES ASSUME NEW d \in 1..Len(drafts), drafts[d].activated
                   PROVE  d \in Range(releases)
        BY <1>2
      <4>1. PICK k \in 1..Len(releases) : releases[k] = d
        BY <1>1 DEF ReleasesInOrder
      <4> QED  BY <1>2, <4>1 DEF Range
    <3>2. \A d \in Range(releases) : d \in gone
      <4> SUFFICES ASSUME NEW k \in 1..Len(releases) PROVE releases[k] \in gone
        BY <1>2 DEF Range
      <4>1. releases[k] \in 1..Len(drafts) /\ drafts[releases[k]].activated
        BY <1>1 DEF ReleasesInOrder
      <4>2. releases[k] \in DOMAIN drafts
        BY <1>2, <4>1
      <4> QED  BY <4>1, <4>2, Zenon
    <3> QED  BY <3>1, <3>2
  <2> QED  BY <1>1, <1>2, <2>1 DEF ReleasesInOrder, SourcesNeverGoBack, Snapshot
<1>5. OneBindingPerRule
  <2> SUFFICES ASSUME NEW r \in Revisions
               PROVE  /\ \A i, j \in DOMAIN bindings[r] : i # j => bindings[r][i] # bindings[r][j]
                      /\ \A i \in DOMAIN bindings[r] : bindings[r][i] = 0 => i = 1
                      /\ r \notin finalized => bindings[r] = <<>>
    BY DEF OneBindingPerRule
  <2>1. /\ \A i, j \in 1..Len(bindings[r]) : i < j => bindings[r][i] < bindings[r][j]
        /\ r \notin finalized => bindings[r] = <<>>
    BY <1>1 DEF BindingsInOrder
  <2>2. /\ DOMAIN bindings[r] = 1..Len(bindings[r]) /\ Len(bindings[r]) \in Nat
        /\ \A i \in 1..Len(bindings[r]) : bindings[r][i] \in Nat
    BY <1>2
  <2>3. \A i, j \in 1..Len(bindings[r]) : i # j => bindings[r][i] # bindings[r][j]
    <3> SUFFICES ASSUME NEW i \in 1..Len(bindings[r]), NEW j \in 1..Len(bindings[r]), i # j
                 PROVE  bindings[r][i] # bindings[r][j]
      OBVIOUS
    <3>1. i < j \/ j < i
      BY <2>2
    <3> QED  BY <2>1, <2>2, <3>1
  <2>4. \A i \in 1..Len(bindings[r]) : bindings[r][i] = 0 => i = 1
    <3> SUFFICES ASSUME NEW i \in 1..Len(bindings[r]), i # 1 PROVE bindings[r][i] # 0
      OBVIOUS
    <3>1. 1 \in 1..Len(bindings[r]) /\ 1 < i
      BY <2>2
    <3> QED  BY <2>1, <2>2, <3>1
  <2> QED  BY <2>1, <2>2, <2>3, <2>4
<1>6. ChecksApply
  BY <1>1 DEF ChecksAreSound, SoundCheck, Sound, ChecksApply, Defined
<1>7. LossIsAFork
  <2> SUFFICES ASSUME NEW k \in 1..Len(taxonomies)
               PROVE  /\ taxonomies[k].base < k
                      /\ Defined(taxonomies[k].base) \subseteq taxonomies[k].nodes
                      /\ ~(Defined(k - 1) \subseteq taxonomies[k].nodes)
                           => taxonomies[k].base < k - 1
    BY <1>2 DEF LossIsAFork
  <2>1. taxonomies[k].base \in 0..k - 1 /\ Defined(taxonomies[k].base) \subseteq taxonomies[k].nodes
    BY <1>1 DEF TaxonomiesExtend, Extends
  <2>2. ~(Defined(k - 1) \subseteq taxonomies[k].nodes) => taxonomies[k].base # k - 1
    BY <2>1
  <2> QED  BY <2>1, <2>2
<1>8. TypeOK
  <2>1. finalized \subseteq Revisions /\ snapshots \in Seq(Contents)
    BY <1>1 DEF Typed
  <2>2. \A d \in DOMAIN drafts :
          Snapshot(d) \in DOMAIN snapshots /\ drafts[d].activated \in BOOLEAN
    BY <1>1, <1>2 DEF ReleasesInOrder, Snapshot, DraftRows
  <2>3. releases \in Seq(DOMAIN drafts)
    <3>1. \A k \in 1..Len(releases) : releases[k] \in DOMAIN drafts
      BY <1>1, <1>2 DEF ReleasesInOrder
    <3>2. releases \in Seq(Nat)
      BY <1>1 DEF Typed
    <3> QED  BY <3>1, <3>2
  <2>4. bindings \in [Revisions -> Seq(0..Len(releases))]
    <3>1. \A r \in Revisions : bindings[r] \in Seq(0..Len(releases))
      <4> SUFFICES ASSUME NEW r \in Revisions PROVE bindings[r] \in Seq(0..Len(releases))
        OBVIOUS
      <4>1. \A i \in 1..Len(bindings[r]) : bindings[r][i] <= Len(releases)
        BY <1>1 DEF BindingsInOrder
      <4>2. \A i \in 1..Len(bindings[r]) : bindings[r][i] \in 0..Len(releases)
        BY <1>2, <4>1
      <4> DEFINE s == bindings[r]
                 T == 0..Len(releases)
      <4>3. s \in Seq(Nat) /\ \A i \in 1..Len(s) : s[i] \in T
        BY <1>2, <4>2
      <4>4. s \in Seq(T)
        <5> HIDE DEF s, T
        <5> QED  BY <4>3
      <4> QED  BY <4>4
    <3>2. bindings = [r \in Revisions |-> bindings[r]]
      BY <1>1 DEF Typed
    <3> QED  BY <3>1, <3>2
  <2>5. backfill # None =>
          backfill.release \in DOMAIN releases /\ backfill.revisions \subseteq finalized
    BY <1>1, <1>2 DEF BindingsInOrder
  <2>6. \A t \in Range(proposals) \cup Range(taxonomies) :
          t.base \in 0..Len(taxonomies) /\ t.nodes \in SUBSET Nodes
    <3>1. \A d \in 1..Len(proposals) :
            proposals[d].base \in 0..Len(taxonomies) /\ proposals[d].nodes \in SUBSET Nodes
      BY <1>1, <1>2 DEF TaxonomiesExtend, Extends, ProposalRows
    <3>2. \A k \in 1..Len(taxonomies) :
            taxonomies[k].base \in 0..Len(taxonomies) /\ taxonomies[k].nodes \in SUBSET Nodes
      <4> SUFFICES ASSUME NEW k \in 1..Len(taxonomies)
                   PROVE  /\ taxonomies[k].base \in 0..Len(taxonomies)
                          /\ taxonomies[k].nodes \in SUBSET Nodes
        OBVIOUS
      <4>1. taxonomies[k].base \in 0..k - 1
        BY <1>1 DEF TaxonomiesExtend, Extends
      <4>2. taxonomies[k].nodes \in SUBSET Nodes
        BY <1>2 DEF TaxonomyRows
      <4> DEFINE b == taxonomies[k].base
                 n == Len(taxonomies)
      <4>3. b \in 0..k - 1 /\ k \in 1..n /\ n \in Nat
        BY <1>2, <4>1
      <4>4. b \in 0..n
        <5> HIDE DEF b, n
        <5> QED  BY <4>3
      <4> QED  BY <4>2, <4>4
    <3> QED  BY <1>2, <3>1, <3>2 DEF Range
  <2>7. active \in [Names -> Checks \cup {None}]
    <3>1. \A n \in Names : active[n] \in Checks \cup {None}
      BY <1>1, <1>3 DEF ChecksAreSound, SoundCheck
    <3>2. active = [n \in Names |-> active[n]]
      BY <1>1 DEF ChecksAreSound
    <3> QED  BY <3>1, <3>2
  <2>8. studio.at \in {"idle", "publishing", "previewing", "rechecking", "enqueuing"}
    BY <1>1 DEF SelectionsAreBound, Selecting
  <2>9. \A s \in (jobs \cup {preview}) \ {None} :
          s.check \in Checks /\ DOMAIN s.targets \subseteq finalized
    BY <1>1, <1>3 DEF SelectionsAreBound, SoundCheck
  <2> QED  BY <2>1, <2>2, <2>3, <2>4, <2>5, <2>6, <2>7, <2>8, <2>9 DEF TypeOK
<1> QED  BY <1>4, <1>5, <1>6, <1>7, <1>8 DEF GovernanceIsSound

LEMMA IInvHolds == Spec => []IInv
BY InitIInv, NextIInv, PTL DEF Spec

(* Agent specifications never go back to an older source, a revision has   *)
(* one binding for each reviewed default, published checks apply to task   *)
(* definitions that exist, and definitions are lost only by activating a   *)
(* draft that forked before them.                                          *)
THEOREM GovernanceStaysSound == Spec => []GovernanceIsSound
BY IInvHolds, IInvIsSound, PTL

(* What was previewed is what is done: a run is enqueued as it was shown,  *)
(* with an active check and the newest binding of every revision.          *)
LEMMA JobsStayFresh ==
  ASSUME IInv, [Next]_vars
  PROVE  \A job \in jobs' \ jobs :
           /\ job = preview /\ IsActive(job.check)
           /\ \A r \in DOMAIN job.targets :
                bindings[r] # <<>> /\ Last(bindings[r]) = job.targets[r]
<1> SUFFICES ASSUME NEW job \in jobs' \ jobs
             PROVE  /\ job = preview /\ IsActive(job.check)
                    /\ \A r \in DOMAIN job.targets :
                         bindings[r] # <<>> /\ Last(bindings[r]) = job.targets[r]
  OBVIOUS
<1>1. Enqueue
  BY StudioSteps DEF Restart, Publish, Preview, ActivateCheck, Run, Bind, Show, Compare
<1>2. studio.at = "enqueuing" /\ job = Selection /\ Current(job)
  BY <1>1 DEF Enqueue
<1>3. /\ preview = Selection
      /\ \A r \in DOMAIN studio.targets : bindings[r] # <<>>
  BY <1>2 DEF IInv, SelectionsAreBound, Selecting
<1>4. job.targets = studio.targets
  BY <1>2 DEF Selection
<1>5. \A r \in DOMAIN job.targets : bindings[r] # <<>> /\ Last(bindings[r]) = job.targets[r]
  BY <1>2, <1>3, <1>4 DEF Current, Newest, Ensured
<1> QED  BY <1>2, <1>3, <1>5 DEF Current

(* A reviewed default binds the revisions that were previewed, all of them *)
(* and no other.                                                           *)
LEMMA BackfillsStayExact ==
  ASSUME IInv, [Next]_vars
  PROVE  /\ \A r \in Revisions : IsPrefix(bindings[r], bindings'[r])
         /\ \A r \in Revisions : bindings'[r] # bindings[r] /\ Last(bindings'[r]) # 0 =>
              backfill # None /\ r \in backfill.revisions
         /\ backfill # None /\ backfill' = None /\ bindings' # bindings =>
              \A r \in backfill.revisions : Last(bindings'[r]) = backfill.release
<1>1. /\ bindings \in [Revisions -> Seq(Nat)]
      /\ \A r \in Revisions : bindings[r] \in Seq(Nat) /\ Len(bindings[r]) \in Nat
      /\ finalized \subseteq Revisions
      /\ BindingsInOrder
  BY DEF IInv, Typed
<1>2. ASSUME ApplyDefault
      PROVE  /\ backfill # None /\ backfill.revisions = finalized
             /\ backfill.release \in Nat
  BY <1>1, <1>2 DEF ApplyDefault, Selected, BindingsInOrder
<1>3. ASSUME NEW r \in Revisions
      PROVE  /\ IsPrefix(bindings[r], bindings'[r])
             /\ bindings'[r] # bindings[r] /\ Last(bindings'[r]) # 0 =>
                  backfill # None /\ r \in backfill.revisions
  <2> DEFINE s == bindings[r]
  <2>1. s \in Seq(Nat) /\ Len(s) \in Nat
    BY <1>1
  <2>2. CASE bindings'[r] = s
    <3>1. IsPrefix(s, s)
      <4> HIDE DEF s
      <4> QED  BY <2>1 DEF IsPrefix
    <3> QED  BY <2>2, <3>1
  <2>3. CASE s = <<>> /\ bindings'[r] = <<0>>
    <3>1. IsPrefix(<<>>, <<0>>)
      BY DEF IsPrefix
    <3>2. Last(<<0>>) = 0
      BY DEF Last
    <3> QED  BY <2>3, <3>1, <3>2
  <2>4. CASE ApplyDefault /\ r \in finalized /\ bindings'[r] = Append(s, backfill.release)
    <3> DEFINE k == backfill.release
    <3>1. k \in Nat /\ backfill # None /\ r \in backfill.revisions
      BY <1>2, <2>4
    <3>2. IsPrefix(s, Append(s, k))
      <4> HIDE DEF s, k
      <4>1. /\ Append(s, k) \in Seq(Nat) /\ Len(Append(s, k)) = Len(s) + 1
            /\ \A i \in 1..Len(s) : Append(s, k)[i] = s[i]
        BY <2>1, <3>1
      <4>2. SubSeq(Append(s, k), 1, Len(s)) = SubSeq(s, 1, Len(s))
        <5>1. /\ SubSeq(s, 1, Len(s)) = s
          BY <2>1, SubSeqFull
        <5> DEFINE u == SubSeq(Append(s, k), 1, Len(s))
        <5>2. u \in Seq(Nat) /\ Len(u) = Len(s) /\ \A i \in 1..Len(s) : u[i] = s[i]
          <6>1. \A i \in 1..Len(s) : Append(s, k)[i] \in Nat
            BY <2>1, <4>1
          <6>2. /\ u \in Seq(Nat) /\ Len(u) = IF 1 <= Len(s) THEN Len(s) - 1 + 1 ELSE 0
                /\ \A i \in 1..Len(s) - 1 + 1 : u[i] = Append(s, k)[1 + i - 1]
            BY <2>1, <6>1, SubSeqProperties
          <6> HIDE DEF u
          <6> QED  BY <2>1, <4>1, <6>2
        <5> HIDE DEF u
        <5>3. u = s
          BY <2>1, <5>2, SeqEqual
        <5> QED  BY <5>1, <5>3 DEF u
      <4> QED  BY <2>1, <4>1, <4>2 DEF IsPrefix
    <3> QED  BY <2>4, <3>1, <3>2
  <2> QED  BY <2>2, <2>3, <2>4, BindingsGrow
<1>4. ASSUME backfill # None, backfill' = None, bindings' # bindings,
             NEW r \in backfill.revisions
      PROVE  Last(bindings'[r]) = backfill.release
  <2>1. ApplyDefault
    BY <1>4, BindingSteps DEF Finalize, Restart, PreviewDefault, Bind
  <2>2. r \in finalized /\ r \in Revisions /\ backfill.release \in Nat
    BY <1>1, <1>2, <1>4, <2>1
  <2> DEFINE k == backfill.release
             s == bindings[r]
  <2>3. bindings'[r] = IF k \notin Range(s) THEN Append(s, k) ELSE s
    BY <2>1, <2>2 DEF ApplyDefault
  <2>4. /\ s \in Seq(Nat) /\ Len(s) \in Nat /\ DOMAIN s = 1..Len(s)
        /\ \A i \in 1..Len(s) : s[i] <= k /\ s[i] \in Nat
        /\ \A i, j \in 1..Len(s) : i < j => s[i] < s[j]
    BY <1>1, <1>4, <2>2 DEF BindingsInOrder
  <2>5. k \in Nat
    BY <2>2
  <2> HIDE DEF k, s
  <2>6. CASE k \notin Range(s)
    <3>1. Len(Append(s, k)) = Len(s) + 1 /\ Append(s, k)[Len(s) + 1] = k
      BY <2>4, <2>5
    <3> QED  BY <2>3, <2>6, <3>1 DEF Last, k
  <2>7. CASE k \in Range(s)
    <3>1. PICK i \in 1..Len(s) : s[i] = k
      BY <2>4, <2>7 DEF Range
    <3>2. i = Len(s)
      <4>1. i \in 1..Len(s) /\ Len(s) \in 1..Len(s)
        BY <2>4, <3>1
      <4>2. CASE i < Len(s)
        <5>1. s[i] < s[Len(s)] /\ s[Len(s)] <= k /\ s[Len(s)] \in Nat
          BY <2>4, <4>1, <4>2
        <5> QED  BY <2>5, <3>1, <5>1
      <4>3. CASE ~(i < Len(s))
        <5> DEFINE n == Len(s)
        <5>1. n \in Nat /\ i \in 1..n /\ ~(i < n)
          BY <2>4, <4>1, <4>3
        <5> HIDE DEF n
        <5>2. i = n
          BY <5>1
        <5> QED  BY <5>2 DEF n
      <4> QED  BY <4>2, <4>3
    <3> QED  BY <2>3, <2>7, <3>1, <3>2 DEF Last, k
  <2> QED  BY <2>6, <2>7
<1> QED  BY <1>3, <1>4

(* However settings, finalizations and the studio's tasks interleave, runs *)
(* and back-fills do exactly what somebody saw previewed.                  *)
THEOREM StepsStayExact == Spec => StepsAreExact
<1>1. IInv /\ [Next]_vars =>
        [\A job \in jobs' \ jobs :
           /\ job = preview /\ IsActive(job.check)
           /\ \A r \in DOMAIN job.targets :
                bindings[r] # <<>> /\ Last(bindings[r]) = job.targets[r]]_vars
  BY JobsStayFresh
<1>2. IInv /\ [Next]_vars =>
        [/\ \A r \in Revisions : IsPrefix(bindings[r], bindings'[r])
         /\ \A r \in Revisions : bindings'[r] # bindings[r] /\ Last(bindings'[r]) # 0 =>
              backfill # None /\ r \in backfill.revisions
         /\ backfill # None /\ backfill' = None /\ bindings' # bindings =>
              \A r \in backfill.revisions : Last(bindings'[r]) = backfill.release]_vars
  BY BackfillsStayExact
<1> QED  BY <1>1, <1>2, IInvHolds, PTL DEF Spec, StepsAreExact, JobsAreFresh, BackfillsAreExact

=============================================================================

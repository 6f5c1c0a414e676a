---------------------------- MODULE DesktopProofs ----------------------------
(***************************************************************************)
(* Proofs about what the desktop application keeps and shows: the failure  *)
(* inbox that follows the deltas, the installed models, the investigation  *)
(* of a failure group, and the editors of the workbench.                   *)
(*                                                                         *)
(* Of DeltaStream, the stream and the view are proved apart: the only      *)
(* steps that touch both are those that make the view ask again.  That a   *)
(* gap is noticed needs that the greatest of a set of sequences exists,    *)
(* and an induction over the batch, done with its least counterexample.    *)
(*                                                                         *)
(* ModelsAreWhole becomes inductive when it also says what a job has       *)
(* downloaded so far, that nothing is in the place a download is for, and  *)
(* that the settings being saved name a model that is there.               *)
(*                                                                         *)
(* InvestigationIsTrue becomes inductive when it is also said of what is   *)
(* under way: the newest load of a group is one for the editor, at most    *)
(* one read of evidence is the newest and exactly while it is shown as     *)
(* loading, the newest pages of a tree are of the trace that is named, and *)
(* the evidence is of the group even while another group is loading.  A    *)
(* preview is that of the finding on display, and there is none while      *)
(* other evidence is on its way.                                           *)
(*                                                                         *)
(* WorkbenchIsSound becomes inductive when it is also said of what is on   *)
(* disk and among the closed tabs, that all of these and the screens show  *)
(* artifacts of known projects only, and in what the disk may lag behind.  *)
(* That is enough for what a step may change, too.                         *)
(***************************************************************************)
EXTENDS DeltaStream, Investigation, ModelInstall, Workbench, FiniteSetTheorems,
        SequenceTheorems, WellFoundedInduction, TLAPS


-----------------------------------------------------------------------------
(* Least and greatest elements.                                            *)

LEMMA LeastElement ==
  ASSUME NEW S \in SUBSET Nat, S # {}
  PROVE  \E n \in S : \A m \in S : n <= m
<1> DEFINE R == StrictSubsetOrdering(Nat)
           T == {1..n : n \in S}
<1>1. T \subseteq FiniteSubsetsOf(Nat)
  <2>1. \A n \in S : IsFiniteSet(1..n)  BY FS_Interval
  <2> QED  BY <2>1 DEF FiniteSubsetsOf
<1>2. PICK x \in T : \A y \in T : <<y, x>> \notin R
  <2>1. T # {}  OBVIOUS
  <2>2. IsWellFoundedOn(R, FiniteSubsetsOf(Nat))  BY FS_StrictSubsetOrderingWellFounded
  <2> HIDE DEF R, T
  <2> QED  BY <1>1, <2>1, <2>2, WFMin
<1>3. PICK n \in S : x = 1..n  OBVIOUS
<1>4. ASSUME NEW m \in S, m < n PROVE FALSE
  <2>1. 1..m \subseteq 1..n /\ n \in 1..n /\ n \notin 1..m /\ 1..m \in T
    BY <1>4
  <2>2. 1..m \in SUBSET Nat /\ 1..n \in SUBSET Nat  OBVIOUS
  <2>3. 1..m # 1..n  BY <2>1
  <2>4. <<1..m, 1..n>> \in R  BY <2>1, <2>2, <2>3 DEF StrictSubsetOrdering
  <2> QED  BY <1>2, <1>3, <2>1, <2>4
<1> QED  BY <1>4

LEMMA GreatestElement ==
  ASSUME NEW S \in SUBSET Nat, S # {}, NEW b \in Nat, \A m \in S : m <= b
  PROVE  \E n \in S : \A m \in S : m <= n
<1> DEFINE D == {b - m : m \in S}
<1>1. \A m \in S : b - m \in Nat  OBVIOUS
<1>2. D \in SUBSET Nat /\ D # {}  BY <1>1
<1>3. PICK d \in D : \A e \in D : d <= e
  <2> HIDE DEF D
  <2> QED  BY <1>2, LeastElement
<1>4. PICK n \in S : d = b - n  OBVIOUS
<1>5. ASSUME NEW m \in S PROVE m <= n
  <2>1. b - m \in D  OBVIOUS
  <2>2. b - n <= b - m  BY <1>3, <1>4, <2>1
  <2>3. b \in Nat /\ n \in Nat /\ m \in Nat  OBVIOUS
  <2> QED  BY ONLY <2>2, <2>3
<1> QED  BY <1>5

-----------------------------------------------------------------------------
(* Sequences as sets.                                                      *)

LEMMA InAppend ==
  ASSUME NEW S, NEW s \in Seq(S), NEW e \in S
  PROVE  InSequence(Append(s, e)) = InSequence(s) \cup {e}
<1>1. DOMAIN s = 1..Len(s) /\ Len(s) \in Nat
      /\ DOMAIN Append(s, e) = 1..(Len(s) + 1)
      /\ \A i \in 1..Len(s) : Append(s, e)[i] = s[i]
      /\ Append(s, e)[Len(s) + 1] = e
  BY LenProperties, AppendProperties
<1> QED  BY <1>1 DEF InSequence

LEMMA InHeadTail ==
  ASSUME NEW S, NEW s \in Seq(S), s # <<>>
  PROVE  InSequence(s) = {Head(s)} \cup InSequence(Tail(s))
<1>1. /\ DOMAIN s = 1..Len(s) /\ Len(s) \in Nat \ {0} /\ Head(s) = s[1]
      /\ DOMAIN Tail(s) = 1..(Len(s) - 1)
      /\ \A i \in 1..(Len(s) - 1) : Tail(s)[i] = s[i + 1]
  BY LenProperties, HeadTailProperties, EmptySeq
<1>2. \A i \in 1..Len(s) : i = 1 \/ i - 1 \in 1..(Len(s) - 1)  BY <1>1
<1>3. ASSUME NEW x \in InSequence(s) PROVE x \in {Head(s)} \cup InSequence(Tail(s))
  <2>1. PICK i \in 1..Len(s) : x = s[i]  BY <1>1 DEF InSequence
  <2>2. CASE i = 1  BY <1>1, <2>1, <2>2
  <2>3. CASE i - 1 \in 1..(Len(s) - 1)
    <3>1. Tail(s)[i - 1] = s[i]  BY <1>1, <2>1, <2>3
    <3> QED  BY <1>1, <2>1, <2>3, <3>1 DEF InSequence
  <2> QED  BY <1>2, <2>1, <2>2, <2>3
<1>4. ASSUME NEW x \in {Head(s)} \cup InSequence(Tail(s)) PROVE x \in InSequence(s)
  <2>1. CASE x = Head(s)  BY <1>1, <2>1 DEF InSequence
  <2>2. CASE x \in InSequence(Tail(s))
    <3>1. PICK i \in 1..(Len(s) - 1) : x = Tail(s)[i]  BY <1>1, <2>2 DEF InSequence
    <3>2. i + 1 \in 1..Len(s) /\ x = s[i + 1]  BY <1>1, <3>1
    <3> QED  BY <1>1, <3>2 DEF InSequence
  <2> QED  BY <2>1, <2>2
<1> QED  BY <1>3, <1>4

LEMMA InEmpty == InSequence(<<>>) = {}
  BY DEF InSequence

-----------------------------------------------------------------------------
(* The log and the stream.                                                 *)

Steps == {"joining", "joined", "waiting", "draining", "gone"}

(* An empty end of the log is that of an empty log: something is retained. *)
LogTypes ==
  /\ log \in Seq(BOOLEAN) /\ pruned \in Nat /\ pruned <= Len(log)
  /\ pruned = Len(log) => Len(log) = 0
  /\ unpublished \in Seq(Deltas) /\ lost \subseteq Deltas

StreamTypes ==
  /\ channel \in [Followers -> Seq(Deltas)] /\ cutOff \in [Followers -> BOOLEAN]
  /\ phase \in [Followers -> Steps] /\ batch \in [Followers -> Seq(Deltas)]
  /\ \A f \in Followers :
       /\ Len(channel[f]) <= Capacity /\ Len(batch[f]) <= BatchLimit
       /\ phase[f] # "draining" => batch[f] = <<>>

KnowledgeTypes ==
  /\ lastSequence \in [Followers -> 0..Len(log)] /\ delayed \in [Followers -> BOOLEAN]
  /\ since \in [Followers -> 0..Len(log)] /\ heard \in [Followers -> SUBSET Deltas]

StreamInv == LogTypes /\ StreamTypes /\ KnowledgeTypes /\ NothingIsMissed /\ GapIsNoticed

(* What is waiting for the follower or was received.                       *)
Underway(f) ==
  heard[f] \cup InSequence(batch[f]) \cup InSequence(channel[f])
    \cup InSequence(unpublished) \cup lost

LEMMA LogFacts ==
  ASSUME LogTypes
  PROVE  Len(log) \in Nat /\ Deltas = 1..Len(log) /\ LatestSequence = Len(log)
<1>1. Len(log) \in Nat /\ Deltas = 1..Len(log)
  BY LenProperties DEF LogTypes, Deltas
<1> QED  BY <1>1 DEF LogTypes, LatestSequence

LEMMA InitStream == StreamInit => StreamInv
<1> SUFFICES ASSUME StreamInit PROVE StreamInv  OBVIOUS
<1>1. Len(log) = 0 /\ <<>> \in Seq(Deltas) /\ <<>> \in Seq(BOOLEAN)
  BY EmptySeq DEF StreamInit
<1>2. LogTypes  BY <1>1 DEF StreamInit, LogTypes
<1>3. StreamTypes
  <2>1. Capacity >= 0 /\ BatchLimit >= 0 /\ Len(<<>>) = 0  BY StreamAssumption, EmptySeq
  <2> QED  BY <1>1, <2>1 DEF StreamInit, StreamTypes, Steps
<1>4. KnowledgeTypes  BY <1>1 DEF StreamInit, KnowledgeTypes
<1> QED  BY <1>2, <1>3, <1>4 DEF StreamInit, StreamInv, NothingIsMissed, GapIsNoticed

(* The log grows, and with it what the followers' sequences are made of.   *)
LEMMA LogGrows ==
  ASSUME StreamInv, NEW more \in Seq(BOOLEAN), log' = log \o more,
         UNCHANGED <<pruned, streamVars, knowledgeVars>>, more # <<>>,
         unpublished' \in Seq(Deltas'), lost' \subseteq Deltas',
         lost \subseteq lost', unpublished = <<>> \/ unpublished' = unpublished,
         (Len(log) + 1)..Len(log') \subseteq InSequence(unpublished') \cup lost'
  PROVE  StreamInv'
<1>1. LogTypes /\ StreamTypes /\ KnowledgeTypes /\ NothingIsMissed /\ GapIsNoticed
  BY DEF StreamInv
<1>2. Len(log) \in Nat /\ Deltas = 1..Len(log)  BY <1>1, LogFacts
<1>3. log' \in Seq(BOOLEAN) /\ Len(log') = Len(log) + Len(more)
      /\ Len(more) \in Nat \ {0}
  BY <1>1, ConcatProperties, EmptySeq DEF LogTypes
<1>4. Deltas' = 1..Len(log') /\ Deltas \subseteq Deltas'
  BY <1>2, <1>3, LenProperties DEF Deltas
<1>5. LogTypes'  BY <1>1, <1>2, <1>3 DEF LogTypes
<1>6. Seq(Deltas) \subseteq Seq(Deltas')  BY <1>4, SeqMonotonic
<1>7. StreamTypes'  BY <1>1, <1>6 DEF StreamTypes, streamVars
<1>8. KnowledgeTypes'
  <2>1. 0..Len(log) \subseteq 0..Len(log')  BY <1>2, <1>3
  <2> HIDE DEF Deltas
  <2> QED  BY <1>1, <1>4, <2>1 DEF KnowledgeTypes, knowledgeVars
<1>9. NothingIsMissed'
  <2> SUFFICES ASSUME NEW f \in Followers, phase[f] \in {"waiting", "draining"}, ~cutOff[f]
               PROVE  (since[f] + 1)..Len(log') \subseteq Underway(f)'
    BY DEF NothingIsMissed, Underway, streamVars, knowledgeVars
  <2>1. (since[f] + 1)..Len(log) \subseteq Underway(f)
    BY <1>1 DEF NothingIsMissed, Underway
  <2>2. Underway(f) \subseteq Underway(f)'
    BY InEmpty DEF Underway, streamVars, knowledgeVars
  <2>3. (since[f] + 1)..Len(log') \subseteq
          ((since[f] + 1)..Len(log)) \cup ((Len(log) + 1)..Len(log'))
    BY <1>1, <1>2, <1>3 DEF KnowledgeTypes
  <2>4. (Len(log) + 1)..Len(log') \subseteq Underway(f)'  BY DEF Underway
  <2> QED  BY <2>1, <2>2, <2>3, <2>4
<1>10. GapIsNoticed'  BY <1>1 DEF GapIsNoticed, streamVars, knowledgeVars
<1> QED  BY <1>5, <1>7, <1>8, <1>9, <1>10 DEF StreamInv

LEMMA CommitStream == ASSUME StreamInv, CommitDeltas PROVE StreamInv'
<1>1. PICK kinds \in {<<TRUE>>, <<FALSE>>, <<FALSE, FALSE>>} :
        /\ log' = log \o kinds
        /\ unpublished' = [i \in DOMAIN kinds |-> Len(log) + i]
  BY DEF CommitDeltas
<1>2. kinds \in Seq(BOOLEAN) /\ Len(kinds) \in {1, 2} /\ DOMAIN kinds = 1..Len(kinds)
      /\ kinds # <<>>
  <2>1. CASE kinds = <<TRUE>>  BY <2>1
  <2>2. CASE kinds = <<FALSE>>  BY <2>2
  <2>3. CASE kinds = <<FALSE, FALSE>>  BY <2>3
  <2> QED  BY <2>1, <2>2, <2>3
<1>3. Len(log) \in Nat /\ Deltas = 1..Len(log) /\ log \in Seq(BOOLEAN)
  BY LogFacts DEF StreamInv, LogTypes
<1>4. log' \in Seq(BOOLEAN) /\ Len(log') = Len(log) + Len(kinds)
      /\ Deltas' = 1..Len(log')
  BY <1>1, <1>2, <1>3, ConcatProperties, LenProperties DEF Deltas
<1>5. unpublished' \in [1..Len(kinds) -> Deltas']
  BY <1>1, <1>2, <1>3, <1>4
<1>6. unpublished' \in Seq(Deltas')  BY <1>2, <1>5
<1>7. (Len(log) + 1)..Len(log') \subseteq InSequence(unpublished')
  <2> SUFFICES ASSUME NEW n \in (Len(log) + 1)..Len(log')
               PROVE  n \in InSequence(unpublished')
    OBVIOUS
  <2>1. n - Len(log) \in 1..Len(kinds)  BY <1>2, <1>3, <1>4
  <2>2. unpublished'[n - Len(log)] = n  BY <1>1, <1>2, <1>3, <2>1
  <2> QED  BY <1>5, <2>1, <2>2 DEF InSequence
<1>8. lost' \subseteq Deltas'
  <2>1. lost \subseteq Deltas  BY DEF StreamInv, LogTypes
  <2>2. Deltas \subseteq Deltas'  BY <1>2, <1>3, <1>4
  <2> QED  BY <2>1, <2>2 DEF CommitDeltas
<1> QED  BY <1>1, <1>2, <1>6, <1>7, <1>8, LogGrows DEF CommitDeltas

LEMMA SweepStream == ASSUME StreamInv, SweepFails PROVE StreamInv'
<1>1. Len(log) \in Nat /\ Deltas = 1..Len(log) /\ log \in Seq(BOOLEAN)
      /\ lost \subseteq Deltas /\ unpublished \in Seq(Deltas)
  BY LogFacts DEF StreamInv, LogTypes
<1>2. log' = log \o <<FALSE>> /\ <<FALSE>> \in Seq(BOOLEAN) /\ Len(<<FALSE>>) = 1
      /\ <<FALSE>> # <<>>
  <2>1. <<FALSE>> \in Seq(BOOLEAN) /\ Len(<<FALSE>>) = 1 /\ <<FALSE>> # <<>>  OBVIOUS
  <2>2. Append(log, FALSE) = log \o <<FALSE>>
    <3>1. FALSE \in BOOLEAN  OBVIOUS
    <3> QED  BY <1>1, <3>1, AppendIsConcat
  <2> QED  BY <2>1, <2>2 DEF SweepFails
<1>3. Len(log') = Len(log) + 1 /\ Deltas' = 1..Len(log')
  BY <1>1, <1>2, ConcatProperties, LenProperties DEF Deltas
<1>4. unpublished' = unpublished /\ unpublished = <<>> /\ lost' = lost \cup {Len(log) + 1}
  BY DEF SweepFails
<1>5. lost' \subseteq Deltas' /\ unpublished' \in Seq(Deltas')
  <2>1. unpublished' \in Seq(Deltas')  BY <1>4, EmptySeq
  <2>2. lost' \subseteq 1..(Len(log) + 1)
    <3> SUFFICES ASSUME NEW x \in lost' PROVE x \in 1..(Len(log) + 1)  OBVIOUS
    <3>1. CASE x \in lost
      <4>1. x \in 1..Len(log)  BY <1>1, <3>1
      <4> QED  BY <1>1, <4>1
    <3>2. CASE x = Len(log) + 1  BY <1>1, <3>2
    <3> QED  BY <1>4, <3>1, <3>2
  <2> QED  BY <1>3, <2>1, <2>2
<1>6. (Len(log) + 1)..Len(log') \subseteq lost'  BY <1>1, <1>3, <1>4
<1>7. UNCHANGED <<pruned, streamVars, knowledgeVars>>  BY DEF SweepFails
<1> QED  BY <1>2, <1>4, <1>5, <1>6, <1>7, LogGrows

(* A follower the delta did not fit in for is cut off.                     *)
LEMMA PublishStream == ASSUME StreamInv, Publish PROVE StreamInv'
<1>1. LogTypes /\ StreamTypes /\ KnowledgeTypes /\ NothingIsMissed /\ GapIsNoticed
  BY DEF StreamInv
<1>2. Len(log) \in Nat /\ Deltas = 1..Len(log)  BY <1>1, LogFacts
<1>3. /\ unpublished # <<>> /\ unpublished' = Tail(unpublished)
      /\ log' = log /\ lost' = lost /\ phase' = phase /\ batch' = batch
      /\ UNCHANGED knowledgeVars
      /\ pruned' \in {pruned, Len(log) - Retain}
      /\ pruned' = pruned \/ Len(log) - Retain > pruned
      /\ \A f \in Followers :
           /\ channel'[f] = IF cutOff[f] \/ Full(f) THEN channel[f]
                            ELSE Append(channel[f], Head(unpublished))
           /\ cutOff'[f] = (cutOff[f] \/ Full(f))
  BY DEF Publish
<1>4. unpublished \in Seq(Deltas) /\ Head(unpublished) \in Deltas
      /\ Tail(unpublished) \in Seq(Deltas)
      /\ InSequence(unpublished) = {Head(unpublished)} \cup InSequence(Tail(unpublished))
  BY <1>1, <1>3, HeadTailProperties, InHeadTail DEF LogTypes
<1>5. Deltas' = Deltas  BY <1>3 DEF Deltas
<1>6. LogTypes'
  <2>1. Retain \in Nat /\ Retain > 0  BY StreamAssumption
  <2>2. pruned' \in Nat /\ pruned' <= Len(log)
        /\ (pruned' = Len(log) => Len(log) = 0)
    BY <1>1, <1>2, <1>3, <2>1 DEF LogTypes
  <2> QED  BY <1>1, <1>3, <1>4, <1>5, <2>2 DEF LogTypes
<1>7. \A f \in Followers :
        /\ channel'[f] \in Seq(Deltas) /\ Len(channel'[f]) <= Capacity
        /\ ~cutOff'[f] => /\ ~cutOff[f]
                          /\ InSequence(channel'[f]) =
                               InSequence(channel[f]) \cup {Head(unpublished)}
  <2> SUFFICES ASSUME NEW f \in Followers
               PROVE  /\ channel'[f] \in Seq(Deltas) /\ Len(channel'[f]) <= Capacity
                      /\ ~cutOff'[f] => /\ ~cutOff[f]
                                        /\ InSequence(channel'[f]) =
                                             InSequence(channel[f]) \cup {Head(unpublished)}
    OBVIOUS
  <2>1. channel[f] \in Seq(Deltas) /\ Len(channel[f]) <= Capacity /\ Len(channel[f]) \in Nat
    BY <1>1, LenProperties DEF StreamTypes
  <2>2. CASE cutOff[f] \/ Full(f)  BY <1>3, <2>1, <2>2
  <2>3. CASE ~(cutOff[f] \/ Full(f))
    <3>1. channel'[f] = Append(channel[f], Head(unpublished)) /\ Len(channel[f]) # Capacity
      BY <1>3, <2>3 DEF Full
    <3>2. Capacity \in Nat  BY StreamAssumption
    <3> QED  BY <1>4, <2>1, <2>3, <3>1, <3>2, AppendProperties, InAppend
  <2> QED  BY <2>2, <2>3
<1>8. StreamTypes'
  <2>1. channel' \in [Followers -> Seq(Deltas')]
    <3>1. channel' = [f \in Followers |-> channel'[f]]  BY DEF Publish
    <3> QED  BY <1>5, <1>7, <3>1
  <2>2. cutOff' \in [Followers -> BOOLEAN]
    <3>1. \A f \in Followers : cutOff[f] \in BOOLEAN  BY <1>1 DEF StreamTypes
    <3> QED  BY <3>1 DEF Publish, Full
  <2> QED  BY <1>1, <1>3, <1>5, <1>7, <2>1, <2>2 DEF StreamTypes
<1>9. KnowledgeTypes'
  <2> HIDE DEF Deltas
  <2> QED  BY <1>1, <1>3, <1>5 DEF KnowledgeTypes, knowledgeVars
<1>10. NothingIsMissed'
  <2> SUFFICES ASSUME NEW f \in Followers, phase'[f] \in {"waiting", "draining"}, ~cutOff'[f]
               PROVE  (since'[f] + 1)..Len(log') \subseteq Underway(f)'
    BY DEF NothingIsMissed, Underway
  <2>1. (since[f] + 1)..Len(log) \subseteq Underway(f)
    BY <1>1, <1>3, <1>7 DEF NothingIsMissed, Underway
  <2>2. Underway(f) \subseteq Underway(f)'
    BY <1>3, <1>4, <1>7 DEF Underway, knowledgeVars
  <2> QED  BY <1>3, <2>1, <2>2 DEF knowledgeVars
<1>11. GapIsNoticed'  BY <1>1, <1>3 DEF GapIsNoticed, knowledgeVars
<1> QED  BY <1>6, <1>8, <1>9, <1>10, <1>11 DEF StreamInv

-----------------------------------------------------------------------------
(* The loop of a follower.                                                 *)

(* The steps that change nothing but what follower f has and is told.      *)
LEMMA FollowerStep ==
  ASSUME StreamInv, NEW f \in Followers, UNCHANGED logVars,
         StreamTypes', KnowledgeTypes',
         \A g \in Followers \ {f} :
           /\ channel'[g] = channel[g] /\ cutOff'[g] = cutOff[g] /\ phase'[g] = phase[g]
           /\ batch'[g] = batch[g] /\ lastSequence'[g] = lastSequence[g]
           /\ delayed'[g] = delayed[g] /\ since'[g] = since[g] /\ heard'[g] = heard[g],
         phase'[f] \in {"waiting", "draining"} /\ ~cutOff'[f] =>
           (since'[f] + 1)..Len(log) \subseteq Underway(f)',
         phase'[f] \in {"waiting", "draining"} /\ ~delayed'[f] =>
           (since'[f] + 1)..lastSequence'[f] \subseteq heard'[f]
  PROVE  StreamInv'
<1>1. log' = log /\ unpublished' = unpublished /\ lost' = lost /\ pruned' = pruned
  BY DEF logVars
<1>2. Deltas' = Deltas  BY <1>1 DEF Deltas
<1>3. LogTypes'
  <2> HIDE DEF Deltas
  <2> QED  BY <1>1, <1>2 DEF StreamInv, LogTypes
<1>4. ASSUME NEW g \in Followers, phase'[g] \in {"waiting", "draining"}, ~cutOff'[g]
      PROVE  (since'[g] + 1)..Len(log') \subseteq Underway(g)'
  <2>1. CASE g = f  BY <1>1, <1>4, <2>1
  <2>2. CASE g # f
    <3>1. Underway(g)' = Underway(g)  BY <1>1, <2>2 DEF Underway
    <3>2. (since[g] + 1)..Len(log) \subseteq Underway(g)
      BY <1>4, <2>2 DEF StreamInv, NothingIsMissed, Underway
    <3> QED  BY <1>1, <2>2, <3>1, <3>2
  <2> QED  BY <2>1, <2>2
<1>5. NothingIsMissed'  BY <1>4 DEF NothingIsMissed, Underway
<1>6. ASSUME NEW g \in Followers, phase'[g] \in {"waiting", "draining"}, ~delayed'[g]
      PROVE  (since'[g] + 1)..lastSequence'[g] \subseteq heard'[g]
  <2>1. CASE g = f  BY <1>6, <2>1
  <2>2. CASE g # f  BY <1>6, <2>2 DEF StreamInv, GapIsNoticed
  <2> QED  BY <2>1, <2>2
<1>7. GapIsNoticed'  BY <1>6 DEF GapIsNoticed
<1> QED  BY <1>3, <1>5, <1>7 DEF StreamInv

(* A step to anything but a collected batch leaves the batch empty.        *)
LEMMA PhaseTypes ==
  ASSUME StreamTypes, NEW f \in Followers, NEW p \in Steps, p # "draining",
         phase[f] # "draining", phase' = [phase EXCEPT ![f] = p], batch' = batch,
         Deltas' = Deltas, channel' \in [Followers -> Seq(Deltas)],
         cutOff' \in [Followers -> BOOLEAN],
         \A g \in Followers : Len(channel'[g]) <= Capacity
  PROVE  StreamTypes'
<1> HIDE DEF Deltas
<1>1. phase' \in [Followers -> Steps] /\ batch' \in [Followers -> Seq(Deltas')]
  BY DEF StreamTypes
<1>2. \A g \in Followers : phase'[g] # "draining" => phase[g] # "draining"
  BY DEF StreamTypes
<1>3. \A g \in Followers : Len(batch'[g]) <= BatchLimit
                           /\ (phase'[g] # "draining" => batch'[g] = <<>>)
  BY <1>2 DEF StreamTypes
<1> QED  BY <1>1, <1>3 DEF StreamTypes

LEMMA JoinStream == ASSUME StreamInv, NEW f \in Followers, Join(f) PROVE StreamInv'
<1>1. /\ channel' = [channel EXCEPT ![f] = <<>>] /\ cutOff' = [cutOff EXCEPT ![f] = FALSE]
      /\ phase' = [phase EXCEPT ![f] = "joined"] /\ batch' = batch
      /\ UNCHANGED <<logVars, knowledgeVars>>
  BY DEF Join
<1>2. Deltas' = Deltas /\ Len(log') = Len(log)  BY <1>1 DEF Deltas, logVars
<1>3. <<>> \in Seq(Deltas) /\ Len(<<>>) <= Capacity  BY StreamAssumption, EmptySeq
<1> HIDE DEF Deltas
<1>4. StreamTypes'
  <2>1. StreamTypes  BY DEF StreamInv
  <2>2. /\ channel' \in [Followers -> Seq(Deltas)] /\ cutOff' \in [Followers -> BOOLEAN]
        /\ \A g \in Followers : Len(channel'[g]) <= Capacity
    BY <1>1, <1>3, <2>1 DEF StreamTypes
  <2>3. phase[f] = "joining" /\ "joined" \in Steps  BY DEF Join, Steps
  <2> QED  BY <1>1, <1>2, <2>1, <2>2, <2>3, PhaseTypes
<1>5. KnowledgeTypes'  BY <1>1, <1>2 DEF StreamInv, KnowledgeTypes, knowledgeVars
<1>6. phase'[f] = "joined"  BY <1>1 DEF StreamInv, StreamTypes
<1> QED  BY <1>1, <1>4, <1>5, <1>6, FollowerStep DEF StreamInv, StreamTypes, knowledgeVars

(* The snapshot is the end of the log: nothing is missed yet.              *)
LEMMA SynchronizeStream ==
  ASSUME StreamInv, NEW f \in Followers, Synchronize(f) PROVE StreamInv'
<1>1. UNCHANGED <<logVars, channel, cutOff, batch>>  BY DEF Synchronize
<1>2. Deltas' = Deltas /\ log' = log  BY <1>1 DEF Deltas, logVars
<1>3. LatestSequence = Len(log) /\ Len(log) \in Nat
  BY LogFacts DEF StreamInv
<1>4. StreamTypes /\ KnowledgeTypes  BY DEF StreamInv
<1> HIDE DEF Deltas
<1>5. CASE phase' = [phase EXCEPT ![f] = "waiting"]
  <2>1. /\ lastSequence' = [lastSequence EXCEPT ![f] = LatestSequence]
        /\ delayed' = [delayed EXCEPT ![f] = FALSE]
        /\ since' = [since EXCEPT ![f] = LatestSequence]
        /\ heard' = [heard EXCEPT ![f] = {}]
    <3>1. phase' # [phase EXCEPT ![f] = "gone"]  BY <1>4, <1>5 DEF StreamTypes
    <3> QED  BY <3>1 DEF Synchronize
  <2>2. StreamTypes'
    <3>1. phase[f] = "joined" /\ "waiting" \in Steps  BY DEF Synchronize, Steps
    <3>2. /\ channel' \in [Followers -> Seq(Deltas)] /\ cutOff' \in [Followers -> BOOLEAN]
          /\ \A g \in Followers : Len(channel'[g]) <= Capacity
      BY <1>1, <1>4 DEF StreamTypes
    <3> QED  BY <1>1, <1>2, <1>4, <1>5, <3>1, <3>2, PhaseTypes
  <2>3. KnowledgeTypes'  BY <1>2, <1>3, <1>4, <2>1 DEF KnowledgeTypes
  <2>4. since'[f] = Len(log) /\ lastSequence'[f] = Len(log)
    BY <1>3, <1>4, <2>1 DEF KnowledgeTypes
  <2>5. (since'[f] + 1)..Len(log) = {}  BY <1>3, <2>4
  <2>6. UNCHANGED logVars  BY <1>1
  <2>7. \A g \in Followers \ {f} :
          /\ channel'[g] = channel[g] /\ cutOff'[g] = cutOff[g] /\ phase'[g] = phase[g]
          /\ batch'[g] = batch[g] /\ lastSequence'[g] = lastSequence[g]
          /\ delayed'[g] = delayed[g] /\ since'[g] = since[g] /\ heard'[g] = heard[g]
    BY <1>1, <1>4, <1>5, <2>1 DEF StreamTypes, KnowledgeTypes
  <2>8. /\ (since'[f] + 1)..Len(log) \subseteq Underway(f)'
        /\ (since'[f] + 1)..lastSequence'[f] \subseteq heard'[f]
    BY <2>4, <2>5
  <2> QED  BY <2>2, <2>3, <2>6, <2>7, <2>8, FollowerStep
<1>6. CASE phase' = [phase EXCEPT ![f] = "gone"]
  <2>1. /\ delayed' = [delayed EXCEPT ![f] = TRUE]
        /\ UNCHANGED <<lastSequence, since, heard>>
    <3>1. phase' # [phase EXCEPT ![f] = "waiting"]  BY <1>4, <1>6 DEF StreamTypes
    <3> QED  BY <3>1 DEF Synchronize
  <2>2. StreamTypes'
    <3>1. phase[f] = "joined" /\ "gone" \in Steps  BY DEF Synchronize, Steps
    <3>2. /\ channel' \in [Followers -> Seq(Deltas)] /\ cutOff' \in [Followers -> BOOLEAN]
          /\ \A g \in Followers : Len(channel'[g]) <= Capacity
      BY <1>1, <1>4 DEF StreamTypes
    <3> QED  BY <1>1, <1>2, <1>4, <1>6, <3>1, <3>2, PhaseTypes
  <2>3. KnowledgeTypes'  BY <1>2, <1>4, <2>1 DEF KnowledgeTypes
  <2>4. phase'[f] = "gone"  BY <1>4, <1>6 DEF StreamTypes
  <2>5. UNCHANGED logVars  BY <1>1
  <2>6. \A g \in Followers \ {f} :
          /\ channel'[g] = channel[g] /\ cutOff'[g] = cutOff[g] /\ phase'[g] = phase[g]
          /\ batch'[g] = batch[g] /\ lastSequence'[g] = lastSequence[g]
          /\ delayed'[g] = delayed[g] /\ since'[g] = since[g] /\ heard'[g] = heard[g]
    BY <1>1, <1>4, <1>6, <2>1 DEF StreamTypes, KnowledgeTypes
  <2> QED  BY <2>2, <2>3, <2>4, <2>5, <2>6, FollowerStep
<1> QED  BY <1>5, <1>6 DEF Synchronize

(* A delta moves from the channel to the batch.                            *)
LEMMA TakeStream == ASSUME StreamInv, NEW f \in Followers, Take(f) PROVE StreamInv'
<1>1. UNCHANGED <<logVars, cutOff, knowledgeVars>>  BY DEF Take
<1>2. Deltas' = Deltas /\ log' = log /\ unpublished' = unpublished /\ lost' = lost
  BY <1>1 DEF Deltas, logVars
<1>3. StreamTypes /\ KnowledgeTypes  BY DEF StreamInv
<1>4. KnowledgeTypes'
  <2> HIDE DEF Deltas
  <2> QED  BY <1>1, <1>2, <1>3 DEF KnowledgeTypes, knowledgeVars
<1>5. channel[f] \in Seq(Deltas) /\ batch[f] \in Seq(Deltas)
      /\ Len(channel[f]) \in Nat /\ Len(batch[f]) \in Nat
      /\ Len(channel[f]) <= Capacity /\ Len(batch[f]) <= BatchLimit
  BY <1>3, LenProperties DEF StreamTypes
<1> HIDE DEF Deltas
<1>6. CASE channel[f] # <<>> /\ Receive(f)
  <2>1. /\ channel' = [channel EXCEPT ![f] = Tail(channel[f])]
        /\ batch' = [batch EXCEPT ![f] = Append(batch[f], Head(channel[f]))]
        /\ phase' = [phase EXCEPT ![f] = "draining"]
    BY <1>6 DEF Receive
  <2>2. /\ Tail(channel[f]) \in Seq(Deltas) /\ Len(Tail(channel[f])) <= Capacity
        /\ Head(channel[f]) \in Deltas
        /\ InSequence(channel[f]) = {Head(channel[f])} \cup InSequence(Tail(channel[f]))
    <3>1. Capacity \in Nat  BY StreamAssumption
    <3> QED  BY <1>5, <1>6, <3>1, HeadTailProperties, InHeadTail
  <2>3. /\ Append(batch[f], Head(channel[f])) \in Seq(Deltas)
        /\ Len(Append(batch[f], Head(channel[f]))) = Len(batch[f]) + 1
        /\ InSequence(Append(batch[f], Head(channel[f]))) =
             InSequence(batch[f]) \cup {Head(channel[f])}
    BY <1>5, <2>2, AppendProperties, InAppend
  <2>4. Len(batch[f]) + 1 <= BatchLimit
    <3>1. BatchLimit \in Nat \ {0}  BY StreamAssumption
    <3>2. phase[f] = "waiting" => batch[f] = <<>>
      BY <1>3 DEF StreamTypes
    <3> QED  BY <1>5, <3>1, <3>2, EmptySeq DEF Take
  <2>5. StreamTypes'
    BY <1>1, <1>2, <1>3, <2>1, <2>2, <2>3, <2>4 DEF StreamTypes, Steps
  <2>6. \A g \in Followers \ {f} :
          channel'[g] = channel[g] /\ phase'[g] = phase[g] /\ batch'[g] = batch[g]
    BY <1>3, <2>1 DEF StreamTypes
  <2>7. channel'[f] = Tail(channel[f]) /\ batch'[f] = Append(batch[f], Head(channel[f]))
    BY <1>3, <2>1 DEF StreamTypes
  <2>8. Underway(f)' = Underway(f)
    BY <1>1, <1>2, <2>2, <2>3, <2>7 DEF Underway, knowledgeVars
  <2>9. phase[f] \in {"waiting", "draining"}  BY DEF Take
  <2>10. ~cutOff'[f] => (since'[f] + 1)..Len(log) \subseteq Underway(f)'
    BY <1>1, <2>8, <2>9 DEF StreamInv, NothingIsMissed, Underway, knowledgeVars
  <2>11. ~delayed'[f] => (since'[f] + 1)..lastSequence'[f] \subseteq heard'[f]
    BY <1>1, <2>9 DEF StreamInv, GapIsNoticed, knowledgeVars
  <2> QED  BY <1>1, <1>4, <2>5, <2>6, <2>10, <2>11, FollowerStep DEF knowledgeVars
<1>7. CASE channel[f] = <<>> /\ cutOff[f] /\ UNCHANGED channel
           /\ phase' = [phase EXCEPT ![f] = "joining"] /\ batch' = [batch EXCEPT ![f] = <<>>]
  <2>1. <<>> \in Seq(Deltas) /\ Len(<<>>) <= BatchLimit  BY StreamAssumption, EmptySeq
  <2>2. StreamTypes'  BY <1>1, <1>2, <1>3, <1>7, <2>1 DEF StreamTypes, Steps
  <2>3. /\ phase'[f] = "joining"
        /\ \A g \in Followers \ {f} :
             channel'[g] = channel[g] /\ phase'[g] = phase[g] /\ batch'[g] = batch[g]
    BY <1>3, <1>7 DEF StreamTypes
  <2> QED  BY <1>1, <1>4, <2>2, <2>3, FollowerStep DEF knowledgeVars
<1> QED  BY <1>6, <1>7 DEF Take

-----------------------------------------------------------------------------
(* Looking at a batch.                                                     *)

LEMMA KnownBeforeIsGreatest ==
  ASSUME StreamInv, NEW f \in Followers, NEW i \in DOMAIN batch[f]
  PROVE  /\ KnownBefore(f, i) \in {lastSequence[f]} \cup {batch[f][k] : k \in 1..(i - 1)}
         /\ \A m \in {lastSequence[f]} \cup {batch[f][k] : k \in 1..(i - 1)} :
              m <= KnownBefore(f, i)
<1> DEFINE S == {lastSequence[f]} \cup {batch[f][k] : k \in 1..(i - 1)}
<1>1. Len(log) \in Nat /\ Deltas = 1..Len(log)  BY LogFacts DEF StreamInv
<1>2. batch[f] \in Seq(Deltas) /\ lastSequence[f] \in 0..Len(log)
  BY DEF StreamInv, StreamTypes, KnowledgeTypes
<1>3. DOMAIN batch[f] = 1..Len(batch[f]) /\ Len(batch[f]) \in Nat
      /\ \A k \in 1..Len(batch[f]) : batch[f][k] \in 1..Len(log)
  BY <1>1, <1>2, LenProperties, ElementOfSeq
<1>4. \A k \in 1..(i - 1) : k \in 1..Len(batch[f])  BY <1>3
<1>5. S \subseteq 0..Len(log)
  <2> SUFFICES ASSUME NEW x \in S PROVE x \in 0..Len(log)  OBVIOUS
  <2>1. CASE x = lastSequence[f]  BY <1>2, <2>1
  <2>2. CASE x \in {batch[f][k] : k \in 1..(i - 1)}
    <3>1. x \in 1..Len(log)  BY <1>3, <1>4, <2>2
    <3> QED  BY <1>1, <3>1
  <2> QED  BY <2>1, <2>2
<1>6. S \in SUBSET Nat /\ S # {} /\ \A m \in S : m <= Len(log)  BY <1>1, <1>5
<1>7. \E n \in S : \A m \in S : m <= n
  <2> HIDE DEF S
  <2> QED  BY <1>1, <1>6, GreatestElement
<1> QED  BY <1>7 DEF KnownBefore

(* Unless a gap is seen, what the follower reaches by looking at a batch   *)
(* it reaches in steps of one: the first delta of the batch that goes      *)
(* beyond a sequence comes right after it.                                 *)
LEMMA NoGapReaches ==
  ASSUME StreamInv, NEW f \in Followers, ~Gap(f), NEW i \in LookedAt(f),
         NEW n \in Nat, lastSequence[f] < n, n <= batch[f][i]
  PROVE  n \in InSequence(batch[f])
<1> DEFINE Beyond == {k \in LookedAt(f) : n <= batch[f][k]}
<1>1. Len(log) \in Nat /\ Deltas = 1..Len(log)  BY LogFacts DEF StreamInv
<1>2. batch[f] \in Seq(Deltas) /\ lastSequence[f] \in 0..Len(log)
  BY DEF StreamInv, StreamTypes, KnowledgeTypes
<1>3. DOMAIN batch[f] = 1..Len(batch[f]) /\ Len(batch[f]) \in Nat
      /\ \A k \in 1..Len(batch[f]) : batch[f][k] \in 1..Len(log)
  BY <1>1, <1>2, LenProperties, ElementOfSeq
<1>4. LookedAt(f) \subseteq 1..Len(batch[f])  BY <1>3 DEF LookedAt
<1>5. PICK k \in Beyond : \A h \in Beyond : k <= h
  <2>1. Beyond \in SUBSET Nat /\ Beyond # {}  BY <1>4
  <2> HIDE DEF Beyond
  <2> QED  BY <2>1, LeastElement
<1>6. k \in 1..Len(batch[f]) /\ n <= batch[f][k]  BY <1>4
<1>7. \A h \in 1..(k - 1) : batch[f][h] < n
  <2> SUFFICES ASSUME NEW h \in 1..(k - 1) PROVE batch[f][h] < n  OBVIOUS
  <2>1. h \in 1..Len(batch[f]) /\ h < k  BY <1>3, <1>6
  <2>2. h \in LookedAt(f)
    <3>1. \A g \in 1..(k - 1) : ~log[batch[f][g]]  BY DEF LookedAt
    <3>2. \A g \in 1..(h - 1) : g \in 1..(k - 1)  BY <1>6, <2>1
    <3> QED  BY <1>3, <2>1, <3>1, <3>2 DEF LookedAt
  <2>3. ~(n <= batch[f][h])  BY <1>5, <1>6, <2>1, <2>2
  <2>4. batch[f][h] \in Nat  BY <1>1, <1>3, <2>1
  <2> QED  BY <2>3, <2>4
<1>8. KnownBefore(f, k) \in Nat /\ KnownBefore(f, k) < n
  <2>1. KnownBefore(f, k) \in {lastSequence[f]} \cup {batch[f][h] : h \in 1..(k - 1)}
    BY <1>3, <1>6, KnownBeforeIsGreatest
  <2>2. CASE KnownBefore(f, k) = lastSequence[f]  BY <1>2, <2>2
  <2>3. CASE \E h \in 1..(k - 1) : KnownBefore(f, k) = batch[f][h]
    <3>1. PICK h \in 1..(k - 1) : KnownBefore(f, k) = batch[f][h]  BY <2>3
    <3>2. h \in 1..Len(batch[f])  BY <1>3, <1>6
    <3>3. batch[f][h] \in Nat  BY <1>1, <1>3, <3>2
    <3> QED  BY <1>7, <3>1, <3>3
  <2> QED  BY <2>1, <2>2, <2>3
<1>9. ~(batch[f][k] > KnownBefore(f, k) + 1)  BY DEF Gap
<1>10. batch[f][k] \in Nat  BY <1>1, <1>3, <1>6
<1>11. batch[f][k] = n  BY <1>6, <1>8, <1>9, <1>10
<1> QED  BY <1>3, <1>6, <1>11 DEF InSequence

(* What was skipped at the end of a batch has been received all the same.  *)
LEMMA HandleStream == ASSUME StreamInv, NEW f \in Followers, HandleBatch(f) PROVE StreamInv'
<1> DEFINE seen == {lastSequence[f]} \cup {batch[f][i] : i \in LookedAt(f)}
           top == CHOOSE n \in seen : \A m \in seen : m <= n
<1>1. /\ UNCHANGED <<logVars, channel, cutOff, since>>
      /\ phase' = [phase EXCEPT ![f] = "waiting"] /\ batch' = [batch EXCEPT ![f] = <<>>]
      /\ delayed' = [delayed EXCEPT ![f] = delayed[f] \/ Gap(f)]
      /\ lastSequence' = [lastSequence EXCEPT ![f] = top]
      /\ heard' = [heard EXCEPT ![f] = heard[f] \cup InSequence(batch[f])]
  BY DEF HandleBatch, InSequence
<1>2. Deltas' = Deltas /\ log' = log /\ unpublished' = unpublished /\ lost' = lost
  BY <1>1 DEF Deltas, logVars
<1>3. Len(log) \in Nat /\ Deltas = 1..Len(log)  BY LogFacts DEF StreamInv
<1>4. StreamTypes /\ KnowledgeTypes /\ NothingIsMissed /\ GapIsNoticed  BY DEF StreamInv
<1>5. batch[f] \in Seq(Deltas) /\ lastSequence[f] \in 0..Len(log)
      /\ since[f] \in 0..Len(log) /\ heard[f] \subseteq Deltas
  BY <1>4 DEF StreamTypes, KnowledgeTypes
<1>6. DOMAIN batch[f] = 1..Len(batch[f]) /\ Len(batch[f]) \in Nat
      /\ \A k \in 1..Len(batch[f]) : batch[f][k] \in 1..Len(log)
  BY <1>3, <1>5, LenProperties, ElementOfSeq
<1>7. top \in seen /\ \A m \in seen : m <= top
  <2>1. LookedAt(f) \subseteq 1..Len(batch[f])  BY <1>6 DEF LookedAt
  <2>2. \A m \in seen : m \in Nat /\ m <= Len(log)  BY <1>3, <1>5, <1>6, <2>1
  <2>3. seen \in SUBSET Nat /\ seen # {}  BY <2>2
  <2>4. \E n \in seen : \A m \in seen : m <= n
    <3> HIDE DEF seen
    <3> QED  BY <1>3, <2>2, <2>3, GreatestElement
  <2> HIDE DEF seen
  <2> QED  BY <2>4
<1>8. top \in 0..Len(log)
  <2>1. LookedAt(f) \subseteq 1..Len(batch[f])  BY <1>6 DEF LookedAt
  <2>2. \A m \in seen : m \in 0..Len(log)  BY <1>3, <1>5, <1>6, <2>1
  <2> HIDE DEF seen, top
  <2> QED  BY <1>7, <2>2
<1>9. InSequence(batch[f]) \subseteq Deltas  BY <1>3, <1>6 DEF InSequence
<1>10. StreamTypes'
  <2>1. <<>> \in Seq(Deltas) /\ Len(<<>>) <= BatchLimit  BY StreamAssumption, EmptySeq
  <2> HIDE DEF Deltas, top
  <2> QED  BY <1>1, <1>2, <1>4, <2>1 DEF StreamTypes, Steps
<1>11. KnowledgeTypes'
  <2> HIDE DEF Deltas, top
  <2>1. lastSequence' \in [Followers -> 0..Len(log)]  BY <1>1, <1>4, <1>8 DEF KnowledgeTypes
  <2>2. delayed' \in [Followers -> BOOLEAN]
    <3>1. \A x, y : (x \/ y) \in BOOLEAN  OBVIOUS
    <3> QED  BY <1>1, <1>4, <3>1 DEF KnowledgeTypes
  <2>3. heard' \in [Followers -> SUBSET Deltas]  BY <1>1, <1>4, <1>9 DEF KnowledgeTypes
  <2> QED  BY <1>1, <1>2, <1>4, <2>1, <2>2, <2>3 DEF KnowledgeTypes
<1>12. \A g \in Followers \ {f} :
         /\ channel'[g] = channel[g] /\ cutOff'[g] = cutOff[g] /\ phase'[g] = phase[g]
         /\ batch'[g] = batch[g] /\ lastSequence'[g] = lastSequence[g]
         /\ delayed'[g] = delayed[g] /\ since'[g] = since[g] /\ heard'[g] = heard[g]
  <2> HIDE DEF Deltas, top
  <2> QED  BY <1>1, <1>4 DEF StreamTypes, KnowledgeTypes
<1>13. /\ batch'[f] = <<>> /\ heard'[f] = heard[f] \cup InSequence(batch[f])
       /\ lastSequence'[f] = top /\ delayed'[f] = (delayed[f] \/ Gap(f))
  <2> HIDE DEF Deltas, top
  <2> QED  BY <1>1, <1>4 DEF StreamTypes, KnowledgeTypes
<1>14. phase[f] = "draining"  BY DEF HandleBatch
<1>15. ~cutOff'[f] => (since'[f] + 1)..Len(log) \subseteq Underway(f)'
  <2>1. Underway(f) \subseteq Underway(f)'  BY <1>1, <1>2, <1>13 DEF Underway
  <2>2. ~cutOff[f] => (since[f] + 1)..Len(log) \subseteq Underway(f)
    BY <1>4, <1>14 DEF NothingIsMissed, Underway
  <2> QED  BY <1>1, <2>1, <2>2
<1>16. ASSUME ~delayed'[f], NEW n \in (since'[f] + 1)..lastSequence'[f]
       PROVE  n \in heard'[f]
  <2>1. ~delayed[f] /\ ~Gap(f) /\ since'[f] = since[f] /\ n \in Nat /\ n <= top
    <3> HIDE DEF top
    <3>1. since'[f] = since[f]  BY <1>1
    <3>2. ~delayed[f] /\ ~Gap(f)  BY <1>13, <1>16, Zenon
    <3>3. lastSequence'[f] = top  BY <1>13
    <3>4. n \in Nat /\ n <= top  BY <1>5, <1>8, <1>16, <3>1, <3>3
    <3> QED  BY <3>1, <3>2, <3>4
  <2>2. CASE n <= lastSequence[f]
    <3>1. (since[f] + 1)..lastSequence[f] \subseteq heard[f]
      BY <1>4, <1>14, <2>1 DEF GapIsNoticed
    <3>2. n \in (since[f] + 1)..lastSequence[f]  BY <1>5, <1>16, <2>1, <2>2
    <3> QED  BY <1>13, <3>1, <3>2
  <2>3. CASE lastSequence[f] < n
    <3>1. PICK i \in LookedAt(f) : top = batch[f][i]
      <4> HIDE DEF top
      <4>1. top # lastSequence[f]  BY <1>5, <1>8, <2>1, <2>3
      <4> QED  BY <1>7, <4>1
    <3>2. n \in InSequence(batch[f])
      <4> HIDE DEF top
      <4> QED  BY <2>1, <2>3, <3>1, NoGapReaches
    <3> QED  BY <1>13, <3>2
  <2> QED  BY <1>5, <2>1, <2>2, <2>3
<1>17. UNCHANGED logVars  BY <1>1
<1> HIDE DEF top
<1> QED  BY <1>10, <1>11, <1>12, <1>15, <1>16, <1>17, FollowerStep

LEMMA NextStream == ASSUME StreamInv, [StreamNext]_deltaVars PROVE StreamInv'
<1>1. ASSUME UNCHANGED <<logVars, streamVars, knowledgeVars>> PROVE StreamInv'
  <2>1. Deltas' = Deltas  BY <1>1 DEF logVars, Deltas
  <2> HIDE DEF Deltas
  <2>2. LogTypes' /\ StreamTypes' /\ KnowledgeTypes'
    BY <1>1, <2>1 DEF logVars, streamVars, knowledgeVars, StreamInv, LogTypes, StreamTypes,
                      KnowledgeTypes
  <2>3. NothingIsMissed' /\ GapIsNoticed'
    BY <1>1 DEF logVars, streamVars, knowledgeVars, StreamInv, NothingIsMissed, GapIsNoticed
  <2> QED  BY <2>2, <2>3 DEF StreamInv
<1>2. CASE UNCHANGED deltaVars  BY <1>1, <1>2 DEF deltaVars
<1>3. CASE CommitDeltas \/ SweepFails \/ Publish
  BY <1>3, CommitStream, SweepStream, PublishStream
<1>4. ASSUME NEW f \in Followers,
             Loop(f) \/ Background(f) \/ AnswerError(f) \/ SetFilter(f) \/ LoadMore(f)
      PROVE  StreamInv'
  <2>1. CASE Loop(f)
    BY <2>1, JoinStream, SynchronizeStream, TakeStream, HandleStream DEF Loop
  <2>2. CASE Background(f)  BY <1>1, <2>2 DEF Background, ReadGroups, AnswerNewest
  <2>3. CASE AnswerError(f) \/ SetFilter(f) \/ LoadMore(f)
    BY <1>1, <2>3 DEF AnswerError, SetFilter, LoadMore
  <2> QED  BY <1>4, <2>1, <2>2, <2>3
<1> QED  BY <1>2, <1>3, <1>4 DEF StreamNext

-----------------------------------------------------------------------------
(* The view.                                                               *)

ViewTypes ==
  /\ generation \in [Followers -> Nat] /\ loading \in [Followers -> BOOLEAN]
  /\ requests \in [Followers -> SUBSET (Reloads \cup MoreRows)]
  /\ shown \in [Followers -> {Nothing} \cup [version : Nat, filter : Filters]]
  /\ failed \in [Followers -> BOOLEAN] /\ filter \in [Followers -> Filters]

Current(f) == {r \in requests[f] : r.generation = generation[f]}

(* There is one newest request at most; it asks for what the filters say,  *)
(* or for more of what is shown, and has read something not older.         *)
RequestsAreTrue(f) ==
  /\ shown[f].version <= Version
  /\ \A r \in requests[f] : r.generation <= generation[f]
  /\ \A r, q \in Current(f) : r = q
  /\ \A r \in Current(f) :
       /\ r.kind = "reload" => r.filter = filter[f]
       /\ r.kind = "more" => shown[f].filter = filter[f] \/ failed[f]
       /\ r.version # Unread => shown[f].version <= r.version /\ r.version <= Version

ViewInv == ViewTypes /\ (\A f \in Followers : RequestsAreTrue(f)) /\ ViewMatchesFilter

LEMMA VersionGrows ==
  ASSUME LogTypes, NEW more \in Seq(BOOLEAN), log' = log \o more
  PROVE  Version \in Nat /\ Version' \in Nat /\ Version <= Version'
<1>1. Len(log) \in Nat /\ Deltas = 1..Len(log) /\ log \in Seq(BOOLEAN)
  BY LogFacts DEF LogTypes
<1>2. /\ Len(log') = Len(log) + Len(more) /\ Len(more) \in Nat
      /\ log' \in Seq(BOOLEAN)
      /\ \A n \in 1..Len(log) : log'[n] = log[n]
  BY <1>1, ConcatProperties, LenProperties
<1>3. Deltas' = 1..Len(log')  BY <1>2, LenProperties DEF Deltas
<1>4. IsFiniteSet(Deltas')  BY <1>1, <1>2, <1>3, FS_Interval
<1> DEFINE Old == {n \in Deltas : log[n]}
           New == {n \in Deltas' : log'[n]}
<1>5. Old \subseteq New /\ New \subseteq Deltas'
  <2>1. 1..Len(log) \subseteq 1..Len(log')  BY <1>1, <1>2
  <2>2. Deltas \subseteq Deltas'  BY <1>1, <1>3, <2>1
  <2> QED  BY <1>1, <1>2, <2>2
<1>6. IsFiniteSet(New) /\ IsFiniteSet(Old)  BY <1>4, <1>5, FS_Subset
<1>7. Cardinality(New) \in Nat /\ Cardinality(Old) \in Nat
      /\ Cardinality(Old) <= Cardinality(New)
  <2> HIDE DEF Old, New
  <2> QED  BY <1>5, <1>6, FS_Subset, FS_CardinalityType
<1> QED  BY <1>7 DEF Version

LEMMA VersionType == ASSUME LogTypes PROVE Version \in Nat
<1>1. Len(log) \in Nat /\ Deltas = 1..Len(log)  BY LogFacts
<1>2. IsFiniteSet(Deltas)  BY <1>1, FS_Interval
<1>3. IsFiniteSet({n \in Deltas : log[n]})  BY <1>2, FS_Subset
<1> QED  BY <1>3, FS_CardinalityType DEF Version

LEMMA ShownTypes ==
  ASSUME ViewTypes, NEW f \in Followers
  PROVE  /\ shown[f].version \in Nat /\ generation[f] \in Nat /\ filter[f] \in Filters
         /\ \A r \in requests[f] : /\ r.generation \in Nat /\ r.filter \in Filters
                                   /\ r.version \in Nat \cup {-1}
                                   /\ r.kind \in {"reload", "more"}
  BY DEF ViewTypes, Nothing, Reloads, MoreRows

LEMMA InitView == StreamInit => ViewInv
<1> SUFFICES ASSUME StreamInit PROVE ViewInv  OBVIOUS
<1>1. LogTypes  BY InitStream DEF StreamInv
<1>2. Version \in Nat  BY <1>1, VersionType
<1>3. ViewTypes  BY DEF StreamInit, ViewTypes
<1>4. ViewMatchesFilter  BY DEF StreamInit, ViewMatchesFilter
<1>5. \A f \in Followers : RequestsAreTrue(f)
  BY <1>2 DEF StreamInit, RequestsAreTrue, Current, Nothing
<1> QED  BY <1>3, <1>4, <1>5 DEF ViewInv

(* The store may go on while the view stays as it is.                      *)
LEMMA ViewStays ==
  ASSUME ViewInv, Version \in Nat, Version' \in Nat, Version <= Version',
         UNCHANGED <<viewVars, filter>>
  PROVE  ViewInv'
<1>1. ViewTypes' /\ ViewMatchesFilter'
  BY DEF ViewInv, ViewTypes, ViewMatchesFilter, viewVars
<1>2. ASSUME NEW f \in Followers PROVE RequestsAreTrue(f)'
  <2>1. shown'[f] = shown[f] /\ filter'[f] = filter[f] /\ failed'[f] = failed[f]
        /\ requests'[f] = requests[f] /\ generation'[f] = generation[f]
        /\ Current(f)' = Current(f)
    BY DEF viewVars, Current
  <2>2. shown[f].version \in Nat /\ \A r \in requests[f] : r.version \in Nat \cup {-1}
    BY ShownTypes DEF ViewInv
  <2>3. RequestsAreTrue(f)  BY DEF ViewInv
  <2>4. Current(f) \subseteq requests[f]  BY DEF Current
  <2> QED  BY <2>1, <2>2, <2>3, <2>4 DEF RequestsAreTrue, Unread
<1> QED  BY <1>1, <1>2 DEF ViewInv

(* A step of one follower's view.                                          *)
LEMMA ViewOfOne ==
  ASSUME ViewInv, NEW f \in Followers, log' = log, ViewTypes', RequestsAreTrue(f)',
         \A g \in Followers \ {f} :
           /\ generation'[g] = generation[g] /\ loading'[g] = loading[g]
           /\ requests'[g] = requests[g] /\ shown'[g] = shown[g]
           /\ failed'[g] = failed[g] /\ filter'[g] = filter[g],
         shown'[f] # Nothing /\ ~loading'[f] => shown'[f].filter = filter'[f] \/ failed'[f]
  PROVE  ViewInv'
<1>1. Version' = Version  BY DEF Version, Deltas
<1>2. ASSUME NEW g \in Followers \ {f} PROVE RequestsAreTrue(g)'
  <2>1. Current(g)' = Current(g)  BY DEF Current
  <2>2. RequestsAreTrue(g)  BY DEF ViewInv
  <2> QED  BY <1>1, <2>1, <2>2 DEF RequestsAreTrue
<1>3. ViewMatchesFilter'
  <2> SUFFICES ASSUME NEW g \in Followers, shown'[g] # Nothing, ~loading'[g]
               PROVE  shown'[g].filter = filter'[g] \/ failed'[g]
    BY DEF ViewMatchesFilter
  <2>1. CASE g = f  BY <2>1
  <2>2. CASE g # f  BY <2>2 DEF ViewInv, ViewMatchesFilter
  <2> QED  BY <2>1, <2>2
<1> QED  BY <1>2, <1>3 DEF ViewInv

(* The view asks: its older requests do not count any more.                *)
LEMMA AskView ==
  ASSUME ViewInv, LogTypes, NEW f \in Followers, log' = log,
         NEW q \in Reloads \cup MoreRows, q.generation = generation[f] + 1,
         q.version = Unread,
         generation' = [generation EXCEPT ![f] = @ + 1],
         loading' = [loading EXCEPT ![f] = TRUE],
         requests' = [requests EXCEPT ![f] = @ \cup {q}], UNCHANGED <<shown, failed>>,
         NEW x \in Filters, filter' = [filter EXCEPT ![f] = x],
         q.kind = "reload" => q.filter = x,
         q.kind = "more" => shown[f].filter = x \/ failed[f]
  PROVE  ViewInv'
<1>1. ViewTypes  BY DEF ViewInv
<1>2. generation[f] \in Nat /\ \A r \in requests[f] : r.generation \in Nat
  BY <1>1, ShownTypes
<1>3. /\ generation'[f] = generation[f] + 1 /\ loading'[f] = TRUE
      /\ requests'[f] = requests[f] \cup {q} /\ filter'[f] = x
  BY <1>1 DEF ViewTypes
<1>4. ViewTypes'
  <2>1. generation' \in [Followers -> Nat] /\ loading' \in [Followers -> BOOLEAN]
    BY <1>1 DEF ViewTypes
  <2>2. requests' \in [Followers -> SUBSET (Reloads \cup MoreRows)]
    <3>1. requests[f] \cup {q} \subseteq Reloads \cup MoreRows  BY <1>1 DEF ViewTypes
    <3> HIDE DEF Reloads, MoreRows
    <3> QED  BY <1>1, <3>1 DEF ViewTypes
  <2>3. filter' \in [Followers -> Filters]  BY <1>1 DEF ViewTypes
  <2> QED  BY <1>1, <2>1, <2>2, <2>3 DEF ViewTypes
<1>5. \A r \in requests[f] : r.generation <= generation[f]  BY DEF ViewInv, RequestsAreTrue
<1>6. Current(f)' = {q}
  <2>1. \A r \in requests[f] : r.generation # generation[f] + 1  BY <1>2, <1>5
  <2> QED  BY <1>3, <2>1 DEF Current
<1>7. RequestsAreTrue(f)'
  <2>1. shown[f].version <= Version  BY DEF ViewInv, RequestsAreTrue
  <2>2. Version' = Version  BY DEF Version, Deltas
  <2>3. \A r \in requests'[f] : r.generation <= generation'[f]  BY <1>2, <1>3, <1>5
  <2> QED  BY <1>3, <1>6, <2>1, <2>2, <2>3 DEF RequestsAreTrue
<1>8. \A g \in Followers \ {f} :
        /\ generation'[g] = generation[g] /\ loading'[g] = loading[g]
        /\ requests'[g] = requests[g] /\ shown'[g] = shown[g]
        /\ failed'[g] = failed[g] /\ filter'[g] = filter[g]
  BY <1>1 DEF ViewTypes
<1> QED  BY <1>3, <1>4, <1>7, <1>8, ViewOfOne

LEMMA ReloadView ==
  ASSUME ViewInv, LogTypes, NEW f \in Followers, log' = log, NEW x \in Filters,
         Reload(f, x), filter' = [filter EXCEPT ![f] = x]
  PROVE  ViewInv'
<1> DEFINE q == [kind |-> "reload", generation |-> generation[f] + 1, filter |-> x,
                 version |-> Unread]
<1>1. generation[f] \in Nat  BY ShownTypes DEF ViewInv
<1>2. q \in Reloads  BY <1>1 DEF Reloads, Unread
<1>3. /\ q.generation = generation[f] + 1 /\ q.version = Unread /\ q.kind = "reload"
      /\ q.filter = x
  OBVIOUS
<1>4. /\ generation' = [generation EXCEPT ![f] = @ + 1]
      /\ loading' = [loading EXCEPT ![f] = TRUE]
      /\ requests' = [requests EXCEPT ![f] = @ \cup {q}] /\ UNCHANGED <<shown, failed>>
  BY DEF Reload
<1> HIDE DEF q
<1> QED  BY <1>2, <1>3, <1>4, AskView

LEMMA LoadMoreView ==
  ASSUME ViewInv, LogTypes, NEW f \in Followers, LoadMore(f) PROVE ViewInv'
<1> DEFINE q == [kind |-> "more", generation |-> generation[f] + 1, filter |-> filter[f],
                 version |-> Unread]
<1>1. generation[f] \in Nat /\ filter[f] \in Filters  BY ShownTypes DEF ViewInv
<1>2. q \in MoreRows  BY <1>1 DEF MoreRows, Unread
<1>3. /\ q.generation = generation[f] + 1 /\ q.version = Unread /\ q.kind = "more"
  OBVIOUS
<1>4. /\ generation' = [generation EXCEPT ![f] = @ + 1]
      /\ loading' = [loading EXCEPT ![f] = TRUE]
      /\ requests' = [requests EXCEPT ![f] = @ \cup {q}] /\ UNCHANGED <<shown, failed>>
      /\ filter' = filter /\ log' = log
  BY DEF LoadMore, logVars
<1>5. filter' = [filter EXCEPT ![f] = filter[f]]  BY <1>4 DEF ViewInv, ViewTypes
<1>6. shown[f].filter = filter[f] \/ failed[f]
  BY DEF LoadMore, ViewInv, ViewMatchesFilter
<1> HIDE DEF q
<1> QED  BY <1>1, <1>2, <1>3, <1>4, <1>5, <1>6, AskView

(* What the background thread reads is the store as it is.                 *)
LEMMA ReadView ==
  ASSUME ViewInv, LogTypes, NEW f \in Followers, ReadGroups(f) PROVE ViewInv'
<1>1. PICK r \in requests[f] :
        /\ r.version = Unread /\ r.generation = generation[f]
        /\ requests' = [requests EXCEPT ![f] =
                          (@ \ {r}) \cup {[r EXCEPT !.version = Version]}]
  BY DEF ReadGroups
<1>2. UNCHANGED <<generation, loading, shown, failed, filter>> /\ log' = log
  BY DEF ReadGroups, logVars
<1>3. ViewTypes /\ RequestsAreTrue(f)  BY DEF ViewInv
<1>4. Version \in Nat /\ Version' = Version
  BY <1>2, VersionType DEF Version, Deltas
<1> DEFINE q == [r EXCEPT !.version = Version]
<1>5. r \in Reloads \cup MoreRows  BY <1>3 DEF ViewTypes
<1>6. /\ q \in Reloads \cup MoreRows /\ q.generation = r.generation /\ q.kind = r.kind
      /\ q.filter = r.filter /\ q.version = Version
  BY <1>4, <1>5 DEF Reloads, MoreRows
<1>7. requests' = [requests EXCEPT ![f] = (@ \ {r}) \cup {q}]  BY <1>1
<1> HIDE DEF q
<1>8. requests'[f] = (requests[f] \ {r}) \cup {q}  BY <1>3, <1>7 DEF ViewTypes
<1>9. ViewTypes'
  <2>1. (requests[f] \ {r}) \cup {q} \subseteq Reloads \cup MoreRows
    BY <1>3, <1>6 DEF ViewTypes
  <2> HIDE DEF Reloads, MoreRows
  <2>2. requests' \in [Followers -> SUBSET (Reloads \cup MoreRows)]
    BY <1>3, <1>7, <2>1 DEF ViewTypes
  <2> QED  BY <1>2, <1>3, <2>2 DEF ViewTypes
<1>10. Current(f)' = {q}
  <2>1. r \in Current(f)  BY <1>1 DEF Current
  <2>2. Current(f) = {r}  BY <1>3, <2>1 DEF RequestsAreTrue
  <2> QED  BY <1>1, <1>2, <1>6, <1>8, <2>2 DEF Current
<1>11. RequestsAreTrue(f)'
  <2>1. r \in Current(f)  BY <1>1 DEF Current
  <2>2. /\ shown[f].version <= Version
        /\ \A p \in requests[f] : p.generation <= generation[f]
        /\ r.kind = "reload" => r.filter = filter[f]
        /\ r.kind = "more" => shown[f].filter = filter[f] \/ failed[f]
    BY <1>3, <2>1 DEF RequestsAreTrue
  <2>3. \A p \in requests'[f] : p.generation <= generation'[f]
    BY <1>1, <1>2, <1>6, <1>8, <2>2
  <2> QED  BY <1>2, <1>4, <1>6, <1>10, <2>2, <2>3 DEF RequestsAreTrue
<1>12. \A g \in Followers \ {f} : requests'[g] = requests[g]  BY <1>3, <1>7 DEF ViewTypes
<1>13. shown[f] # Nothing /\ ~loading[f] => shown[f].filter = filter[f] \/ failed[f]
  BY DEF ViewInv, ViewMatchesFilter
<1> QED  BY <1>2, <1>9, <1>11, <1>12, <1>13, ViewOfOne

(* An answer, or the error that takes its place: a superseded one changes  *)
(* nothing, the newest leaves no request that counts.                      *)
LEMMA AnsweredView ==
  ASSUME ViewInv, LogTypes, NEW f \in Followers, NEW r \in requests[f], log' = log,
         UNCHANGED <<generation, filter>>, requests' = [requests EXCEPT ![f] = @ \ {r}],
         \/ r.generation # generation[f] /\ UNCHANGED <<loading, shown, failed>>
         \/ /\ r.generation = generation[f] /\ r.version # Unread
            /\ loading' = [loading EXCEPT ![f] = FALSE]
            /\ shown' = IF r.kind = "more" THEN shown
                        ELSE [shown EXCEPT ![f] = [version |-> r.version, filter |-> r.filter]]
            /\ failed' = IF r.kind = "more" THEN failed ELSE [failed EXCEPT ![f] = FALSE]
         \/ /\ r.generation = generation[f]
            /\ loading' = [loading EXCEPT ![f] = FALSE] /\ shown' = shown
            /\ failed' = IF r.kind = "more" THEN failed ELSE [failed EXCEPT ![f] = TRUE]
  PROVE  ViewInv' /\ \A g \in Followers : shown'[g].version >= shown[g].version
<1>1. ViewTypes /\ RequestsAreTrue(f)  BY DEF ViewInv
<1>2. /\ shown[f].version \in Nat /\ r.version \in Nat \cup {-1} /\ r.filter \in Filters
      /\ r.kind \in {"reload", "more"} /\ filter[f] \in Filters /\ generation[f] \in Nat
      /\ \A g \in Followers : shown[g].version \in Nat
  BY <1>1, ShownTypes
<1>3. Version \in Nat /\ Version' = Version  BY VersionType DEF Version, Deltas
<1>4. requests'[f] = requests[f] \ {r} /\ requests' \in [Followers -> SUBSET (Reloads \cup MoreRows)]
  BY <1>1 DEF ViewTypes
<1>5. \A g \in Followers \ {f} : requests'[g] = requests[g]  BY <1>1 DEF ViewTypes
<1>6. /\ shown[f].version <= Version
      /\ \A p \in requests'[f] : p \in requests[f] /\ p.generation <= generation'[f]
  BY <1>1, <1>4 DEF RequestsAreTrue
<1>7. CASE r.generation # generation[f] /\ UNCHANGED <<loading, shown, failed>>
  <2>1. Current(f)' = Current(f)  BY <1>4, <1>7 DEF Current
  <2>2. RequestsAreTrue(f)'  BY <1>1, <1>3, <1>6, <1>7, <2>1 DEF RequestsAreTrue
  <2>3. ViewTypes'  BY <1>1, <1>4, <1>7 DEF ViewTypes
  <2>4. shown[f] # Nothing /\ ~loading[f] => shown[f].filter = filter[f] \/ failed[f]
    BY DEF ViewInv, ViewMatchesFilter
  <2>5. \A g \in Followers : shown'[g].version >= shown[g].version  BY <1>2, <1>7
  <2> QED  BY <1>5, <1>7, <2>2, <2>3, <2>4, <2>5, ViewOfOne
<1>8. CASE r.generation = generation[f]
  <2>1. r \in Current(f) /\ Current(f) = {r}  BY <1>1, <1>8 DEF Current, RequestsAreTrue
  <2>2. Current(f)' = {}  BY <1>4, <2>1 DEF Current
  <2>3. /\ r.kind = "reload" => r.filter = filter[f]
        /\ r.kind = "more" => shown[f].filter = filter[f] \/ failed[f]
        /\ r.version # Unread => shown[f].version <= r.version /\ r.version <= Version
    BY <1>1, <2>1 DEF RequestsAreTrue
  <2>4. /\ loading' \in [Followers -> BOOLEAN] /\ loading'[f] = FALSE
        /\ \A g \in Followers \ {f} : loading'[g] = loading[g]
    BY <1>1, <1>8 DEF ViewTypes
  <2>5. /\ failed' \in [Followers -> BOOLEAN]
        /\ \A g \in Followers \ {f} : failed'[g] = failed[g]
    BY <1>1, <1>8 DEF ViewTypes
  <2>6. /\ shown' \in [Followers -> {Nothing} \cup [version : Nat, filter : Filters]]
        /\ \A g \in Followers \ {f} : shown'[g] = shown[g]
        /\ shown'[f].version \in Nat
        /\ shown'[f].version >= shown[f].version /\ shown'[f].version <= Version
        /\ shown'[f].filter = filter[f] \/ failed'[f]
    <3>1. CASE r.kind = "more" /\ shown' = shown /\ failed' = failed
      BY <1>1, <1>2, <1>6, <2>3, <3>1 DEF ViewTypes
    <3>2. CASE shown' = shown /\ failed' = [failed EXCEPT ![f] = TRUE]
      BY <1>1, <1>2, <1>6, <3>2 DEF ViewTypes
    <3>3. CASE /\ r.kind = "reload" /\ r.version # Unread
               /\ shown' = [shown EXCEPT ![f] = [version |-> r.version, filter |-> r.filter]]
      <4>1. r.version \in Nat  BY <1>2, <3>3 DEF Unread
      <4>2. [version |-> r.version, filter |-> r.filter] \in [version : Nat, filter : Filters]
        BY <1>2, <4>1
      <4> DEFINE now == [version |-> r.version, filter |-> r.filter]
      <4>3. now.version = r.version /\ now.filter = r.filter  OBVIOUS
      <4>4. shown' = [shown EXCEPT ![f] = now]  BY <3>3
      <4>5. now \in [version : Nat, filter : Filters]  BY <4>2
      <4> HIDE DEF now
      <4>6. shown'[f] = now /\ shown' \in [Followers -> {Nothing} \cup [version : Nat, filter : Filters]]
            /\ \A g \in Followers \ {f} : shown'[g] = shown[g]
        BY <1>1, <4>4, <4>5 DEF ViewTypes
      <4> QED  BY <1>2, <2>3, <3>3, <4>1, <4>3, <4>6
    <3>4. r.kind # "more" => r.kind = "reload"  BY <1>2
    <3> QED  BY <1>8, <3>1, <3>2, <3>3, <3>4
  <2>7. RequestsAreTrue(f)'  BY <1>3, <1>6, <2>2, <2>6 DEF RequestsAreTrue
  <2>8. ViewTypes'  BY <1>1, <1>4, <2>4, <2>5, <2>6 DEF ViewTypes
  <2>9. \A g \in Followers : shown'[g].version >= shown[g].version
    <3> SUFFICES ASSUME NEW g \in Followers PROVE shown'[g].version >= shown[g].version
      OBVIOUS
    <3>1. CASE g = f  BY <2>6, <3>1
    <3>2. CASE g # f  BY <1>2, <2>6, <3>2
    <3> QED  BY <3>1, <3>2
  <2> QED  BY <1>5, <2>4, <2>5, <2>6, <2>7, <2>8, <2>9, ViewOfOne
<1> QED  BY <1>7, <1>8

LEMMA NextView ==
  ASSUME StreamInv, ViewInv, [StreamNext]_deltaVars
  PROVE  ViewInv' /\ \A g \in Followers : shown'[g].version >= shown[g].version
<1>1. LogTypes /\ log \in Seq(BOOLEAN)  BY DEF StreamInv, LogTypes
<1>2. Version \in Nat  BY <1>1, VersionType
<1>3. \A g \in Followers : shown[g].version \in Nat  BY ShownTypes DEF ViewInv
<1>4. ASSUME UNCHANGED shown
      PROVE  \A g \in Followers : shown'[g].version >= shown[g].version
  BY <1>3, <1>4
<1>5. ASSUME NEW more \in Seq(BOOLEAN), log' = log \o more, UNCHANGED <<viewVars, filter>>
      PROVE  ViewInv' /\ UNCHANGED shown
  <2>1. Version' \in Nat /\ Version <= Version'  BY <1>1, <1>5, VersionGrows
  <2> QED  BY <1>2, <1>5, <2>1, ViewStays DEF viewVars
<1>6. ASSUME UNCHANGED <<logVars, viewVars, filter>> PROVE ViewInv' /\ UNCHANGED shown
  <2>1. Version' = Version  BY <1>6 DEF Version, Deltas, logVars
  <2> QED  BY <1>2, <1>6, <2>1, ViewStays DEF viewVars
<1>7. CASE UNCHANGED deltaVars  BY <1>4, <1>6, <1>7 DEF deltaVars
<1>8. CASE CommitDeltas
  <2>1. PICK kinds \in {<<TRUE>>, <<FALSE>>, <<FALSE, FALSE>>} : log' = log \o kinds
    BY <1>8 DEF CommitDeltas
  <2>2. kinds \in Seq(BOOLEAN)
    <3>1. <<TRUE>> \in Seq(BOOLEAN) /\ <<FALSE>> \in Seq(BOOLEAN) /\ <<FALSE, FALSE>> \in Seq(BOOLEAN)
      OBVIOUS
    <3> QED  BY <3>1
  <2> QED  BY <1>4, <1>5, <1>8, <2>1, <2>2 DEF CommitDeltas
<1>9. CASE SweepFails
  <2>1. Append(log, FALSE) = log \o <<FALSE>>
    <3>1. FALSE \in BOOLEAN  OBVIOUS
    <3> QED  BY <1>1, <3>1, AppendIsConcat
  <2>2. <<FALSE>> \in Seq(BOOLEAN)  OBVIOUS
  <2> QED  BY <1>4, <1>5, <1>9, <2>1, <2>2 DEF SweepFails
<1>10. CASE Publish
  <2>1. log' = log /\ UNCHANGED <<viewVars, filter>>  BY <1>10 DEF Publish
  <2>2. Version' = Version  BY <2>1 DEF Version, Deltas
  <2>3. ViewInv' /\ UNCHANGED shown  BY <1>2, <2>1, <2>2, ViewStays DEF viewVars
  <2> QED  BY <1>4, <2>3
<1>11. ASSUME NEW f \in Followers, NEW x \in Filters, Reload(f, x), log' = log,
              filter' = [filter EXCEPT ![f] = x]
       PROVE  ViewInv' /\ UNCHANGED shown
  BY <1>1, <1>11, ReloadView DEF Reload
<1>12. ASSUME NEW f \in Followers, Reload(f, filter[f]), log' = log, filter' = filter
       PROVE  ViewInv' /\ UNCHANGED shown
  <2>1. filter' = [filter EXCEPT ![f] = filter[f]] /\ filter[f] \in Filters
    BY <1>12 DEF ViewInv, ViewTypes
  <2> QED  BY <1>11, <1>12, <2>1
<1>13. ASSUME NEW f \in Followers, Loop(f)
       PROVE  ViewInv' /\ UNCHANGED shown
  <2>1. CASE Join(f) \/ Take(f)  BY <1>6, <2>1 DEF Join, Take
  <2>2. CASE Synchronize(f)
    <3>1. log' = log /\ filter' = filter /\ UNCHANGED logVars
      BY <2>2 DEF Synchronize, logVars
    <3>2. Reload(f, filter[f]) \/ UNCHANGED viewVars  BY <2>2 DEF Synchronize
    <3> QED  BY <1>6, <1>12, <3>1, <3>2
  <2>3. CASE HandleBatch(f)
    <3>1. log' = log /\ filter' = filter /\ UNCHANGED logVars
      BY <2>3 DEF HandleBatch, logVars
    <3>2. Reload(f, filter[f]) \/ UNCHANGED viewVars  BY <2>3 DEF HandleBatch
    <3> QED  BY <1>6, <1>12, <3>1, <3>2
  <2> QED  BY <1>13, <2>1, <2>2, <2>3 DEF Loop
<1>14. ASSUME NEW f \in Followers, AnswerNewest(f) \/ AnswerError(f)
       PROVE  ViewInv' /\ \A g \in Followers : shown'[g].version >= shown[g].version
  <2>1. log' = log /\ UNCHANGED <<generation, filter>>
    BY <1>14 DEF AnswerNewest, AnswerError, logVars
  <2>2. CASE AnswerNewest(f)
    <3>1. PICK r \in requests[f] :
            /\ r.version # Unread \/ r.generation # generation[f]
            /\ requests' = [requests EXCEPT ![f] = @ \ {r}]
            /\ IF r.generation # generation[f]
               THEN UNCHANGED <<loading, shown, failed>>
               ELSE /\ loading' = [loading EXCEPT ![f] = FALSE]
                    /\ shown' = IF r.kind = "more" THEN shown
                                ELSE [shown EXCEPT ![f] = [version |-> r.version,
                                                           filter |-> r.filter]]
                    /\ failed' = IF r.kind = "more" THEN failed
                                 ELSE [failed EXCEPT ![f] = FALSE]
      BY <2>2 DEF AnswerNewest
    <3> QED  BY <1>1, <2>1, <3>1, AnsweredView
  <2>3. CASE AnswerError(f)
    <3>1. PICK r \in requests[f] :
            /\ r.generation = generation[f]
            /\ requests' = [requests EXCEPT ![f] = @ \ {r}]
            /\ loading' = [loading EXCEPT ![f] = FALSE] /\ shown' = shown
            /\ failed' = IF r.kind = "more" THEN failed ELSE [failed EXCEPT ![f] = TRUE]
      BY <2>3 DEF AnswerError
    <3> QED  BY <1>1, <2>1, <3>1, AnsweredView
  <2> QED  BY <1>14, <2>2, <2>3
<1>15. ASSUME NEW f \in Followers, ReadGroups(f) \/ SetFilter(f) \/ LoadMore(f)
       PROVE  ViewInv' /\ UNCHANGED shown
  <2>1. CASE ReadGroups(f)  BY <1>1, <2>1, ReadView DEF ReadGroups
  <2>2. CASE SetFilter(f)
    <3>1. PICK x \in Filters : Reload(f, x) /\ filter' = [filter EXCEPT ![f] = x]
      BY <2>2 DEF SetFilter
    <3>2. log' = log  BY <2>2 DEF SetFilter, logVars
    <3> QED  BY <1>11, <3>1, <3>2
  <2>3. CASE LoadMore(f)  BY <1>1, <2>3, LoadMoreView DEF LoadMore
  <2> QED  BY <1>15, <2>1, <2>2, <2>3
<1> QED  BY <1>4, <1>7, <1>8, <1>9, <1>10, <1>13, <1>14, <1>15 DEF StreamNext, Background

-----------------------------------------------------------------------------
(* A follower's channel and what it knows of the log stay within the log   *)
(* and their bounds; until it is cut off, every delta after its snapshot   *)
(* has reached it or is on its way; unless it is marked as delayed it has  *)
(* received all up to the sequence it is at; and what an inbox shows while *)
(* nothing loads is what its filters say: for every number of followers,   *)
(* capacity of a channel, size of a batch and length of the history.       *)
THEOREM InboxStaysTrue == StreamSpec => []InboxIsTrue
<1>1. StreamInit => StreamInv /\ ViewInv  BY InitStream, InitView
<1>2. StreamInv /\ ViewInv /\ [StreamNext]_deltaVars => StreamInv' /\ ViewInv'
  BY NextStream, NextView
<1>3. StreamInv /\ ViewInv => InboxIsTrue
  <2> SUFFICES ASSUME StreamInv, ViewInv PROVE InboxIsTrue  OBVIOUS
  <2>1. Len(log) \in Nat  BY LogFacts DEF StreamInv
  <2>2. /\ log \in Seq(BOOLEAN) /\ pruned \in 0..Len(log)
        /\ unpublished \in Seq(Deltas) /\ lost \subseteq Deltas
    BY <2>1 DEF StreamInv, LogTypes
  <2>3. ASSUME NEW f \in Followers
        PROVE  /\ channel[f] \in Seq(Deltas) /\ Len(channel[f]) <= Capacity
               /\ batch[f] \in Seq(Deltas) /\ Len(batch[f]) <= BatchLimit
               /\ phase[f] \in {"joining", "joined", "waiting", "draining", "gone"}
               /\ cutOff[f] \in BOOLEAN
    BY DEF StreamInv, StreamTypes, Steps
  <2>4. ASSUME NEW f \in Followers
        PROVE  /\ lastSequence[f] \in 0..Len(log) /\ since[f] \in 0..Len(log)
               /\ heard[f] \subseteq Deltas /\ delayed[f] \in BOOLEAN
    <3> HIDE DEF Deltas
    <3> QED  BY DEF StreamInv, KnowledgeTypes
  <2>5. ASSUME NEW f \in Followers
        PROVE  /\ requests[f] \subseteq Reloads \cup MoreRows
               /\ shown[f] \in {Nothing} \cup [version : Nat, filter : Filters]
               /\ filter[f] \in Filters /\ generation[f] \in Nat
               /\ loading[f] \in BOOLEAN /\ failed[f] \in BOOLEAN
    <3> HIDE DEF Reloads, MoreRows
    <3> QED  BY DEF ViewInv, ViewTypes
  <2>6. StreamTypeOK
    <3> HIDE DEF Reloads, MoreRows, Deltas, Nothing
    <3> QED  BY <2>2, <2>3, <2>4, <2>5 DEF StreamTypeOK
  <2> QED  BY <2>6 DEF InboxIsTrue, StreamIsComplete, StreamInv, ViewInv
<1> QED  BY <1>1, <1>2, <1>3, PTL DEF StreamSpec

(* Answers that overtake each other never put older groups on display.     *)
THEOREM ViewOnlyAdvances == StreamSpec => ViewNeverGoesBack
<1>1. StreamInit => StreamInv /\ ViewInv  BY InitStream, InitView
<1>2. StreamInv /\ ViewInv /\ [StreamNext]_deltaVars => StreamInv' /\ ViewInv'
  BY NextStream, NextView
<1>3. StreamInv /\ ViewInv /\ [StreamNext]_deltaVars =>
        [\A f \in Followers : shown'[f].version >= shown[f].version]_deltaVars
  BY NextView
<1> QED  BY <1>1, <1>2, <1>3, PTL DEF StreamSpec, ViewNeverGoesBack


-----------------------------------------------------------------------------
(* The installed models.                                                   *)

Directories == [receipt : Releases, files : [Files -> Releases \cup {"wrong"}]]
Drafts == [folder : Versions \cup {Nowhere}, acceptable : BOOLEAN]
Jobs == [at : {"download", "inspect"}, catalog : Releases,
         files : UNION {[F -> Releases] : F \in SUBSET Files}]

InstallTyped ==
  /\ models \in [Versions -> Directories \cup {Nowhere}] /\ damaged \subseteq Versions
  /\ restarts \in Nat /\ leftovers \in 0..restarts
  /\ configured \in Versions \cup {Nowhere}
  /\ settings \in [state : {"checking", "ready", "failed", "installing"},
                   catalog : Releases \cup {Nowhere}, draft : Drafts]
  /\ saving \in Drafts \cup {Nowhere}
  /\ job \in Jobs \cup {Nowhere}

(* What is downloaded is what the catalog says, and there is no directory  *)
(* of that release yet.                                                    *)
JobIsTrue ==
  /\ settings.state = "installing" <=> job # Nowhere
  /\ job # Nowhere =>
       /\ \A f \in DOMAIN job.files : job.files[f] = job.catalog
       /\ job.at = "download" => models[VersionOf[job.catalog]] = Nowhere

Present(folder) == folder # Nowhere => models[folder] # Nowhere

InstallInv ==
  /\ InstallTyped /\ JobIsTrue
  /\ \A v \in Versions \ damaged : Runnable(v) \/ models[v] = Nowhere
  /\ \A v \in Versions : models[v] # Nowhere => VersionOf[models[v].receipt] = v
  /\ Present(configured) /\ (saving # Nowhere => Present(saving.folder))

LEMMA InitInstall == InstallInit => InstallInv
BY InstallAssumption
   DEF InstallInit, InstallInv, InstallTyped, JobIsTrue, Present, Fresh, Draft, Drafts

(* A step that leaves the models alone.                                    *)
LEMMA ModelsKept ==
  ASSUME InstallInv, UNCHANGED <<models, damaged>>, InstallTyped', JobIsTrue',
         configured' = configured \/ (saving # Nowhere /\ configured' = saving.folder),
         saving' # Nowhere => (saving' = saving \/ Present(saving'.folder))
  PROVE  InstallInv'
BY DEF InstallInv, Runnable, WholeFor, Present

LEMMA PublishKeeps ==
  ASSUME InstallInv, PublishModel
  PROVE  InstallInv'
<1> USE InstallAssumption
<1>1. /\ job \in Jobs /\ job.at = "download" /\ DOMAIN job.files = Files
      /\ \A f \in DOMAIN job.files : job.files[f] = job.catalog
      /\ models[VersionOf[job.catalog]] = Nowhere
  BY DEF PublishModel, InstallInv, InstallTyped, JobIsTrue
<1>2. job.catalog \in Releases /\ VersionOf[job.catalog] \in Versions
      /\ job.files \in [Files -> Releases]
  BY <1>1 DEF Jobs
<1> DEFINE v == VersionOf[job.catalog]
           new == [receipt |-> job.catalog, files |-> job.files]
<1>3. new \in Directories /\ new # Nowhere
  BY <1>2 DEF Directories
<1>4. CASE /\ models' = [models EXCEPT ![v] = new]
           /\ job' = [job EXCEPT !.at = "inspect"]
           /\ UNCHANGED <<leftovers, configured, settings, saving, damaged, restarts>>
  <2>1. job' \in Jobs /\ job' # Nowhere /\ job'.at = "inspect" /\ job'.catalog = job.catalog
        /\ job'.files = job.files
    BY <1>1, <1>4 DEF Jobs
  <2>2. /\ models' \in [Versions -> Directories \cup {Nowhere}]
        /\ models'[v] = new /\ \A w \in Versions : w # v => models'[w] = models[w]
    BY <1>2, <1>3, <1>4 DEF InstallInv, InstallTyped
  <2>3. InstallTyped'
    BY <1>4, <2>1, <2>2 DEF InstallInv, InstallTyped
  <2>4. JobIsTrue'
    <3>1. job # Nowhere /\ (settings.state = "installing" <=> job # Nowhere)
      BY DEF InstallInv, JobIsTrue, PublishModel
    <3>2. settings' = settings
      BY <1>4
    <3>3. \A f \in DOMAIN job'.files : job'.files[f] = job'.catalog
      BY <1>1, <2>1
    <3>4. job'.at # "download"
      BY <2>1
    <3> QED BY <2>1, <3>1, <3>2, <3>3, <3>4 DEF JobIsTrue
  <2>5. models'[v] # Nowhere /\ \A f \in Files : models'[v].files[f] = models'[v].receipt
    <3>1. \A f \in Files : new.files[f] = new.receipt
      BY <1>1
    <3> HIDE DEF new, v
    <3> QED BY <1>3, <2>2, <3>1
  <2>6. \A w \in Versions \ damaged : Runnable(w)' \/ models'[w] = Nowhere
    <3>1. TAKE w \in Versions \ damaged
    <3>2. CASE w = v
      <4>1. models'[w] # Nowhere /\ \A f \in Files : models'[w].files[f] = models'[w].receipt
        BY <2>5, <3>2
      <4> QED BY <4>1 DEF Runnable, WholeFor
    <3>3. CASE w # v
      <4>1. models'[w] = models[w] /\ (Runnable(w) \/ models[w] = Nowhere)
        BY <2>2, <3>3 DEF InstallInv
      <4> QED BY <4>1 DEF Runnable, WholeFor
    <3> QED BY <3>2, <3>3
  <2>7. \A w \in Versions : models'[w] # Nowhere => VersionOf[models'[w].receipt] = w
    BY <2>2 DEF InstallInv
  <2>8. \A w \in Versions \cup {Nowhere} : Present(w) => Present(w)'
    BY <1>3, <2>2 DEF Present
  <2>9. Present(configured)' /\ (saving' # Nowhere => Present(saving.folder)')
    BY <1>4, <2>8 DEF InstallInv, InstallTyped, Drafts
  <2> HIDE DEF new
  <2> QED BY <1>4, <2>3, <2>4, <2>6, <2>7, <2>9 DEF InstallInv
<1>5. CASE InstallFails
  <2>1. InstallTyped' /\ JobIsTrue'
    BY <1>5 DEF InstallFails, InstallInv, InstallTyped, JobIsTrue
  <2> QED BY <1>5, <2>1, ModelsKept DEF InstallFails
<1> QED BY <1>4, <1>5 DEF PublishModel

LEMMA DamageKeeps ==
  ASSUME InstallInv, DamageModel
  PROVE  InstallInv'
<1> USE InstallAssumption
<1>1. PICK v \in Versions, f \in Files :
        /\ models[v] # Nowhere
        /\ models' = [models EXCEPT ![v].files[f] = "wrong"]
        /\ damaged' = damaged \cup {v}
  BY DEF DamageModel
<1>2. models \in [Versions -> Directories \cup {Nowhere}] /\ models[v] \in Directories
  BY <1>1 DEF InstallInv, InstallTyped
<1> DEFINE new == [models[v] EXCEPT !.files[f] = "wrong"]
<1>3. new \in Directories /\ new # Nowhere /\ new.receipt = models[v].receipt
  BY <1>2 DEF Directories
<1>4. /\ models' \in [Versions -> Directories \cup {Nowhere}]
      /\ models'[v] = new /\ \A w \in Versions : w # v => models'[w] = models[w]
  BY <1>1, <1>2, <1>3
<1>5. UNCHANGED <<leftovers, configured, settings, job, saving, restarts>>
  BY DEF DamageModel
<1>6. InstallTyped'
  BY <1>1, <1>4, <1>5 DEF InstallInv, InstallTyped
<1>7. JobIsTrue'
  <2>1. ASSUME job # Nowhere, job.at = "download" PROVE models'[VersionOf[job.catalog]] = Nowhere
    <3>1. VersionOf[job.catalog] \in Versions /\ models[VersionOf[job.catalog]] = Nowhere
      BY <2>1 DEF InstallInv, InstallTyped, JobIsTrue, Jobs
    <3> QED BY <3>1, <1>1, <1>4
  <2> QED BY <1>5, <2>1 DEF InstallInv, JobIsTrue
<1>8. \A w \in Versions \ damaged' : Runnable(w)' \/ models'[w] = Nowhere
  BY <1>1, <1>4 DEF InstallInv, Runnable, WholeFor
<1>9. \A w \in Versions : models'[w] # Nowhere => VersionOf[models'[w].receipt] = w
  BY <1>1, <1>3, <1>4 DEF InstallInv
<1>10. \A w \in Versions \cup {Nowhere} : Present(w) => Present(w)'
  BY <1>3, <1>4 DEF Present
<1>11. Present(configured)' /\ (saving' # Nowhere => Present(saving.folder)')
  BY <1>5, <1>10 DEF InstallInv, InstallTyped, Drafts
<1> QED BY <1>5, <1>6, <1>7, <1>8, <1>9, <1>11 DEF InstallInv

LEMMA InstallNextKeeps ==
  ASSUME InstallInv, [InstallNext]_installVars
  PROVE  InstallInv'
<1> USE InstallAssumption
<1>1. CASE RefreshCatalog
  <2>1. InstallTyped'
    BY <1>1 DEF RefreshCatalog, InstallInv, InstallTyped
  <2>2. JobIsTrue'
    BY <1>1 DEF RefreshCatalog, Busy, InstallInv, InstallTyped, JobIsTrue
  <2> QED BY <1>1, <2>1, <2>2, ModelsKept DEF RefreshCatalog
<1>2. CASE CatalogArrives
  <2>1. settings' \in [state : {"checking", "ready", "failed", "installing"},
                       catalog : Releases \cup {Nowhere}, draft : Drafts]
    BY <1>2 DEF CatalogArrives, InstallInv, InstallTyped
  <2>2. settings'.state # "installing" /\ settings.state # "installing"
    BY <1>2 DEF CatalogArrives, InstallInv, InstallTyped
  <2>3. UNCHANGED <<models, leftovers, configured, job, saving, damaged, restarts>>
    BY <1>2 DEF CatalogArrives
  <2>4. InstallTyped'
    BY <2>1, <2>3 DEF InstallInv, InstallTyped
  <2>5. JobIsTrue'
    BY <2>2, <2>3 DEF InstallInv, JobIsTrue
  <2> QED BY <1>2, <2>4, <2>5, ModelsKept DEF CatalogArrives
<1>3. CASE InstallLatest
  <2>1. settings.catalog \in Releases
    BY <1>3 DEF InstallLatest, InstallInv, InstallTyped
  <2> DEFINE nothing == [f \in {} |-> settings.catalog]
  <2>2. nothing \in UNION {[F -> Releases] : F \in SUBSET Files} /\ DOMAIN nothing = {}
    <3>1. nothing \in [{} -> Releases] /\ {} \in SUBSET Files
      OBVIOUS
    <3> HIDE DEF nothing
    <3> QED BY <3>1
  <2>3. /\ job' \in Jobs /\ job' # Nowhere /\ DOMAIN job'.files = {}
        /\ job'.at = "download" => models[VersionOf[job'.catalog]] = Nowhere
    <3> DEFINE at == IF models[VersionOf[settings.catalog]] = Nowhere THEN "download"
                     ELSE "inspect"
    <3>1. job' = [at |-> at, catalog |-> settings.catalog, files |-> nothing]
      BY <1>3 DEF InstallLatest
    <3>2. /\ at \in {"download", "inspect"}
          /\ at = "download" => models[VersionOf[settings.catalog]] = Nowhere
      OBVIOUS
    <3> HIDE DEF nothing, at
    <3>3. job' \in Jobs
      BY <2>1, <2>2, <3>1, <3>2 DEF Jobs
    <3>4. job' # Nowhere
      BY <3>3 DEF Jobs
    <3> QED BY <2>2, <3>1, <3>2, <3>3, <3>4
  <2>4. InstallTyped'
    BY <1>3, <2>3 DEF InstallLatest, InstallInv, InstallTyped
  <2>5. JobIsTrue'
    BY <1>3, <2>3 DEF InstallLatest, InstallInv, InstallTyped, JobIsTrue
  <2> QED BY <1>3, <2>4, <2>5, ModelsKept DEF InstallLatest
<1>4. CASE Inspect
  <2>1. job \in Jobs /\ VersionOf[job.catalog] \in Versions
    BY <1>4 DEF Inspect, InstallInv, InstallTyped, Jobs
  <2> DEFINE v == VersionOf[job.catalog]
             draft == [settings.draft EXCEPT !.folder = v]
  <2>2. draft \in Drafts
    BY <2>1 DEF InstallInv, InstallTyped, Drafts
  <2>3. /\ job' = Nowhere /\ UNCHANGED <<models, leftovers, configured, damaged, restarts>>
        /\ \/ /\ settings' = [settings EXCEPT !.state = "ready", !.draft = draft]
              /\ saving' = saving \/ (Savable(draft) /\ saving' = draft)
           \/ settings' = [settings EXCEPT !.state = "failed"] /\ saving' = saving
    BY <1>4 DEF Inspect
  <2>4. Savable(draft) => Present(draft.folder)
    BY DEF Savable, Runnable, Present
  <2> HIDE DEF draft
  <2>51. InstallTyped
    BY DEF InstallInv
  <2>52. /\ settings' \in [state : {"checking", "ready", "failed", "installing"},
                          catalog : Releases \cup {Nowhere}, draft : Drafts]
         /\ settings'.state # "installing" /\ saving' \in Drafts \cup {Nowhere}
    BY ONLY <2>2, <2>3, <2>51 DEF InstallTyped
  <2>5. InstallTyped'
    BY ONLY <2>3, <2>51, <2>52 DEF InstallTyped
  <2>6. JobIsTrue'
    BY ONLY <2>3, <2>52 DEF JobIsTrue
  <2> QED BY <2>3, <2>4, <2>5, <2>6, ModelsKept DEF Present
<1>5. CASE PublishModel
  BY <1>5, PublishKeeps
<1>6. CASE \E f \in Files : Download(f)
  <2>1. PICK f \in Files : Download(f)
    BY <1>6
  <2>2. job \in Jobs
    BY <2>1 DEF Download, InstallInv, InstallTyped
  <2>3. CASE /\ job' = [job EXCEPT !.files = Fetched(f, job.catalog)]
             /\ UNCHANGED <<models, leftovers, configured, settings, saving, damaged, restarts>>
    <3>1. PICK F \in SUBSET Files : job.files \in [F -> Releases]
      BY <2>2 DEF Jobs
    <3>2. /\ Fetched(f, job.catalog) \in [F \cup {f} -> Releases]
          /\ \A g \in F \cup {f} : Fetched(f, job.catalog)[g] = job.catalog
      BY <3>1, <2>1, <2>2 DEF Fetched, Download, InstallInv, JobIsTrue, Jobs
    <3>3. Fetched(f, job.catalog) \in UNION {[E -> Releases] : E \in SUBSET Files}
      BY <3>2
    <3>4. /\ job' \in Jobs /\ job'.at = job.at /\ job'.catalog = job.catalog
          /\ job'.files = Fetched(f, job.catalog)
      BY <2>2, <2>3, <3>3 DEF Jobs
    <3>5. job' # Nowhere /\ job # Nowhere
      BY <2>2, <3>4 DEF Jobs
    <3>6. InstallTyped'
      BY <2>3, <3>4 DEF InstallInv, InstallTyped
    <3>7. JobIsTrue'
      BY <2>3, <3>2, <3>4, <3>5 DEF InstallInv, JobIsTrue
    <3> QED BY <2>3, <3>6, <3>7, ModelsKept
  <2>4. CASE InstallFails
    <3>1. InstallTyped' /\ JobIsTrue'
      BY <2>4 DEF InstallFails, InstallInv, InstallTyped, JobIsTrue
    <3> QED BY <2>4, <3>1, ModelsKept DEF InstallFails
  <2> QED BY <2>1, <2>3, <2>4 DEF Download
<1>7. CASE EditSettings
  <2>1. InstallTyped' /\ JobIsTrue'
    BY <1>7 DEF EditSettings, Draft, Drafts, InstallInv, InstallTyped, JobIsTrue
  <2> QED BY <1>7, <2>1, ModelsKept DEF EditSettings
<1>8. CASE DiscardChanges
  <2>1. InstallTyped' /\ JobIsTrue'
    BY <1>8 DEF DiscardChanges, Draft, Drafts, InstallInv, InstallTyped, JobIsTrue
  <2> QED BY <1>8, <2>1, ModelsKept DEF DiscardChanges
<1>9. CASE SaveSettings
  <2>1. InstallTyped' /\ JobIsTrue'
    BY <1>9 DEF SaveSettings, InstallInv, InstallTyped, JobIsTrue
  <2>2. Present(saving'.folder)
    BY <1>9 DEF SaveSettings, Savable, Runnable, Present
  <2> QED BY <1>9, <2>1, <2>2, ModelsKept DEF SaveSettings
<1>10. ASSUME NEW folder \in Versions \cup {Nowhere}, StartedAgain(folder),
              configured' \in {configured, folder},
              folder = configured \/ (saving # Nowhere /\ folder = saving.folder)
       PROVE  InstallInv'
  <2>1. InstallTyped'
    BY <1>10 DEF StartedAgain, Fresh, Draft, Drafts, InstallInv, InstallTyped
  <2>2. JobIsTrue'
    BY <1>10 DEF StartedAgain, Fresh, JobIsTrue
  <2> QED BY <1>10, <2>1, <2>2, ModelsKept DEF StartedAgain
<1>11. CASE SaveEnds
  <2>1. CASE configured' = saving.folder /\ StartedAgain(saving.folder)
    BY <1>10, <1>11, <2>1 DEF SaveEnds, InstallInv, InstallTyped, Drafts
  <2>2. CASE /\ saving' = Nowhere
             /\ UNCHANGED <<models, leftovers, configured, settings, job, damaged, restarts>>
    <3>1. InstallTyped' /\ JobIsTrue'
      BY <2>2 DEF InstallInv, InstallTyped, JobIsTrue
    <3> QED BY <2>2, <3>1, ModelsKept
  <2> QED BY <1>11, <2>1, <2>2 DEF SaveEnds
<1>12. CASE CrashApplication
  BY <1>10, <1>12 DEF CrashApplication, InstallInv, InstallTyped
<1>13. CASE DamageModel
  BY <1>13, DamageKeeps
<1>14. CASE UNCHANGED installVars
  BY <1>14 DEF installVars, InstallInv, InstallTyped, JobIsTrue, Runnable, WholeFor, Present
<1> QED BY <1>1, <1>2, <1>3, <1>4, <1>5, <1>6, <1>7, <1>8, <1>9, <1>11, <1>12, <1>13, <1>14
        DEF InstallNext

(* However downloads, saves, crashes and damage follow each other, a model *)
(* in its place is whole and what its receipt says unless it was damaged,  *)
(* the settings name a model that is in its place, and the screen says     *)
(* that it installs exactly as long as it does.                            *)
THEOREM ModelsStayWhole == InstallSpec => []ModelsAreWhole
<1>1. InstallInv => ModelsAreWhole
  BY DEF InstallInv, InstallTyped, JobIsTrue, Present, ModelsAreWhole, InstallTypeOK
<1> QED BY InitInstall, InstallNextKeeps, <1>1, PTL DEF InstallSpec

-----------------------------------------------------------------------------
(* The investigation: its inductive invariant, of any record of the fields *)
(* of FailureInbox, since a handler makes several of them one after the    *)
(* other.                                                                  *)

MaybeGroup == FailureGroups \cup {Blank}
MaybeFinding == Findings \cup {Blank}
TraceNames == {TraceOf[f] : f \in Findings} \cup {Blank}
Pages == {s \in Seq(Findings) : Len(s) <= PageSize}
GroupRequests ==
  [kind : {"group"}, group : MaybeGroup, offset : Nat, finding : MaybeFinding, newest : BOOLEAN]
  \cup [kind : {"page"}, group : MaybeGroup, offset : Nat, forward : BOOLEAN, newest : BOOLEAN]
EvidenceRequests == [group : FailureGroups, finding : Findings, newest : BOOLEAN]
TreePages == [trace : TraceNames, page : {"first", "more"}]
TraceRequests == [trace : TraceNames, page : {"first", "more"}, newest : BOOLEAN]
Origins ==
  {FromRuns} \cup [kind : {"group"}, group : MaybeGroup, finding : MaybeFinding, offset : Nat]

Views ==
  [showingInbox : BOOLEAN, fullTrace : BOOLEAN, target : MaybeGroup, group : MaybeGroup,
   offset : Nat, occurrences : Pages, finding : MaybeFinding, evidence : MaybeFinding,
   preview : MaybeFinding, error : BOOLEAN, groupLoading : BOOLEAN,
   groupRequests : SUBSET GroupRequests, evidenceLoading : BOOLEAN,
   evidenceRequests : SUBSET EvidenceRequests, identity : TraceNames, origin : Origins,
   tree : SUBSET TreePages, traceLoading : BOOLEAN, traceRequests : SUBSET TraceRequests,
   strayed : BOOLEAN, missed : BOOLEAN]

(* The newest load of a group is one for the editor; a page is turned in   *)
(* the group that is there.                                                *)
GroupFollows(v) ==
  /\ v.groupLoading => \E r \in v.groupRequests : r.newest
  /\ v.target # Blank /\ ~v.strayed =>
       /\ \A r \in v.groupRequests : r.newest /\ r.kind = "group" => r.group = v.target
       /\ \/ ~v.groupLoading
          \/ \E r \in v.groupRequests : r.newest /\ r.kind = "page"
          => v.group \in {Blank, v.target}

(* The evidence is of the group even while another group loads, and        *)
(* nothing is previewed while other evidence is on its way.                *)
EvidenceFollows(v) ==
  /\ v.evidenceLoading <=> \E r \in v.evidenceRequests : r.newest
  /\ \A r, s \in v.evidenceRequests : r.newest /\ s.newest => r = s
  /\ v.evidence # Blank =>
       /\ v.finding = v.evidence
       /\ v.group # Blank /\ ~v.evidenceLoading /\ ~v.missed =>
            v.evidence \in ToSet(Occurrences[v.group])
  /\ v.evidenceLoading => v.preview = Blank
  /\ v.preview # Blank /\ v.finding # Blank => v.preview = v.finding

TraceFollows(v) ==
  /\ \A p \in v.tree : p.trace = v.identity
  /\ \A r \in v.traceRequests : r.newest => r.trace = v.identity
  /\ v.traceLoading => \E r \in v.traceRequests : r.newest /\ r.page = "first"

Follows(v) == v \in Views /\ GroupFollows(v) /\ EvidenceFollows(v) /\ TraceFollows(v)

InvestigationInv ==
  /\ Follows(view)
  /\ candidates \subseteq [group : FailureGroups, finding : Findings]

(* A superseded request stays one, and is not the newest.                  *)
LEMMA SupersededGroups ==
  ASSUME NEW R \in SUBSET GroupRequests
  PROVE  Superseded(R) \in SUBSET GroupRequests /\ \A r \in Superseded(R) : ~r.newest
<1> SUFFICES ASSUME NEW q \in R
             PROVE  [q EXCEPT !.newest = FALSE] \in GroupRequests /\ ~[q EXCEPT !.newest = FALSE].newest
  BY DEF Superseded
<1>1. q \in GroupRequests
  OBVIOUS
<1> QED BY <1>1 DEF GroupRequests

LEMMA SupersededEvidence ==
  ASSUME NEW R \in SUBSET EvidenceRequests
  PROVE  Superseded(R) \in SUBSET EvidenceRequests /\ \A r \in Superseded(R) : ~r.newest
BY DEF Superseded, EvidenceRequests

LEMMA SupersededTraces ==
  ASSUME NEW R \in SUBSET TraceRequests
  PROVE  Superseded(R) \in SUBSET TraceRequests /\ \A r \in Superseded(R) : ~r.newest
BY DEF Superseded, TraceRequests

LEMMA RequestedFields ==
  ASSUME NEW v \in Views, NEW g \in MaybeGroup, NEW at \in Nat, NEW f \in MaybeFinding,
         NEW w, w = Requested(v, g, at, f)
  PROVE  /\ w \in Views
         /\ w.target = v.target /\ w.group = v.group /\ w.finding = v.finding
         /\ w.evidence = v.evidence /\ w.preview = v.preview
         /\ w.identity = v.identity /\ w.tree = v.tree /\ w.traceLoading = v.traceLoading
         /\ w.traceRequests = v.traceRequests
         /\ w.groupLoading /\ ~w.evidenceLoading
         /\ w.missed = (v.missed \/ v.evidenceLoading)
         /\ w.strayed = (v.strayed /\ g # v.target)
         /\ w.groupRequests = Superseded(v.groupRequests) \cup
              {[kind |-> "group", group |-> g, offset |-> at, finding |-> f, newest |-> TRUE]}
         /\ w.evidenceRequests = Superseded(v.evidenceRequests)
<1>1. /\ Superseded(v.groupRequests) \cup
           {[kind |-> "group", group |-> g, offset |-> at, finding |-> f, newest |-> TRUE]}
         \in SUBSET GroupRequests
      /\ Superseded(v.evidenceRequests) \in SUBSET EvidenceRequests
  <2>1. v.groupRequests \in SUBSET GroupRequests /\ v.evidenceRequests \in SUBSET EvidenceRequests
    BY DEF Views
  <2>2. [kind |-> "group", group |-> g, offset |-> at, finding |-> f, newest |-> TRUE]
        \in GroupRequests
    BY DEF GroupRequests
  <2> QED BY <2>1, <2>2, SupersededGroups, SupersededEvidence
<1> DEFINE groups == Superseded(v.groupRequests) \cup
              {[kind |-> "group", group |-> g, offset |-> at, finding |-> f, newest |-> TRUE]}
           evidence == Superseded(v.evidenceRequests)
           missed == v.missed \/ v.evidenceLoading
           strayed == v.strayed /\ g # v.target
<1>2. w = [v EXCEPT !.offset = at, !.error = FALSE, !.groupLoading = TRUE,
                    !.groupRequests = groups, !.evidenceLoading = FALSE,
                    !.evidenceRequests = evidence, !.missed = missed, !.strayed = strayed]
  BY DEF Requested
<1>3. groups \in SUBSET GroupRequests /\ evidence \in SUBSET EvidenceRequests
      /\ missed \in BOOLEAN /\ strayed \in BOOLEAN
  BY <1>1
<1> HIDE DEF groups, evidence, missed, strayed
<1>4. /\ w \in Views
      /\ w.target = v.target /\ w.group = v.group /\ w.finding = v.finding
      /\ w.evidence = v.evidence /\ w.preview = v.preview
      /\ w.identity = v.identity /\ w.tree = v.tree /\ w.traceLoading = v.traceLoading
      /\ w.traceRequests = v.traceRequests
      /\ w.groupLoading /\ ~w.evidenceLoading
      /\ w.missed = missed /\ w.strayed = strayed
      /\ w.groupRequests = groups /\ w.evidenceRequests = evidence
  <2>1. w \in Views
    <3> DEFINE u == [v EXCEPT !.offset = at, !.error = FALSE, !.groupLoading = TRUE,
                              !.groupRequests = groups]
    <3>1. u \in Views
      BY <1>3 DEF Views
    <3>2. w = [u EXCEPT !.evidenceLoading = FALSE, !.evidenceRequests = evidence,
                        !.missed = missed, !.strayed = strayed]
      BY <1>2
    <3> HIDE DEF u
    <3>3. [u EXCEPT !.evidenceLoading = FALSE, !.evidenceRequests = evidence] \in Views
      BY ONLY <1>3, <3>1 DEF Views
    <3> DEFINE x == [u EXCEPT !.evidenceLoading = FALSE, !.evidenceRequests = evidence]
    <3>4. w = [x EXCEPT !.missed = missed, !.strayed = strayed]
      BY <3>2
    <3> HIDE DEF x
    <3>5. x \in Views
      BY <3>3 DEF x
    <3> DEFINE y == [x EXCEPT !.missed = missed]
    <3>6. y \in Views
      BY ONLY <1>3, <3>5 DEF Views
    <3>7. w = [y EXCEPT !.strayed = strayed]
      BY ONLY <3>4, <3>5 DEF Views
    <3> HIDE DEF y
    <3> QED BY ONLY <1>3, <3>6, <3>7 DEF Views
  <2>2. /\ w.target = v.target /\ w.group = v.group /\ w.finding = v.finding
        /\ w.evidence = v.evidence /\ w.preview = v.preview
        /\ w.identity = v.identity /\ w.tree = v.tree /\ w.traceLoading = v.traceLoading
        /\ w.traceRequests = v.traceRequests
    BY <1>2 DEF Views
  <2>3. w.groupLoading = TRUE /\ w.evidenceLoading = FALSE
    BY <1>2 DEF Views
  <2>4. w.missed = missed /\ w.strayed = strayed
    BY <1>2 DEF Views
  <2>5. w.groupRequests = groups /\ w.evidenceRequests = evidence
    BY <1>2 DEF Views
  <2> QED BY <2>1, <2>2, <2>3, <2>4, <2>5
<1> QED BY <1>4 DEF groups, evidence, missed, strayed

LEMMA RequestedFollows ==
  ASSUME NEW v \in Views, EvidenceFollows(v), TraceFollows(v),
         NEW g \in MaybeGroup, NEW at \in Nat, NEW f \in MaybeFinding,
         v.target # Blank => g = v.target \/ (v.strayed /\ g # v.target)
  PROVE  Follows(Requested(v, g, at, f))
<1> DEFINE w == Requested(v, g, at, f)
           new == [kind |-> "group", group |-> g, offset |-> at, finding |-> f, newest |-> TRUE]
<1>1. /\ w \in Views
      /\ w.target = v.target /\ w.group = v.group /\ w.finding = v.finding
      /\ w.evidence = v.evidence /\ w.preview = v.preview
      /\ w.identity = v.identity /\ w.tree = v.tree /\ w.traceLoading = v.traceLoading
      /\ w.traceRequests = v.traceRequests
      /\ w.groupLoading /\ ~w.evidenceLoading
      /\ w.missed = (v.missed \/ v.evidenceLoading)
      /\ w.strayed = (v.strayed /\ g # v.target)
      /\ w.groupRequests = Superseded(v.groupRequests) \cup {new}
      /\ w.evidenceRequests = Superseded(v.evidenceRequests)
  BY RequestedFields
<1>2. /\ \A r \in Superseded(v.groupRequests) : ~r.newest
      /\ \A r \in Superseded(v.evidenceRequests) : ~r.newest
  BY SupersededGroups, SupersededEvidence DEF Views
<1>3. new.newest /\ new.group = g /\ new.kind = "group"
  OBVIOUS
<1> HIDE DEF w, new
<1>4. GroupFollows(w)
  <2>1. \A r \in w.groupRequests : r.newest => r = new
    BY <1>1, <1>2
  <2>2. new \in w.groupRequests
    BY <1>1
  <2>3. w.target # Blank /\ ~w.strayed => g = w.target
    BY <1>1
  <2> QED BY <1>1, <1>3, <2>1, <2>2, <2>3 DEF GroupFollows
<1>5. EvidenceFollows(w)
  BY <1>1, <1>2 DEF EvidenceFollows
<1>6. TraceFollows(w)
  BY <1>1 DEF TraceFollows
<1> QED BY <1>1, <1>4, <1>5, <1>6 DEF Follows, w

LEMMA LoadingFollows ==
  ASSUME NEW v \in Views, GroupFollows(v), TraceFollows(v), NEW f \in Findings,
         IF v.group = Blank THEN EvidenceFollows(v)
         ELSE v.evidence # Blank => v.finding = v.evidence
  PROVE  Follows(Loading(v, f))
<1>1. CASE v.group = Blank
  BY <1>1 DEF Loading, Follows
<1>2. CASE v.group # Blank
  <2> DEFINE w == Loading(v, f)
             new == [group |-> v.group, finding |-> f, newest |-> TRUE]
             reads == Superseded(v.evidenceRequests) \cup {new}
  <2>1. w = [v EXCEPT !.evidenceLoading = TRUE, !.preview = Blank, !.evidenceRequests = reads]
    BY <1>2 DEF Loading
  <2>2. reads \in SUBSET EvidenceRequests /\ \A r \in Superseded(v.evidenceRequests) : ~r.newest
    <3>1. new \in EvidenceRequests
      BY <1>2 DEF EvidenceRequests, Views, MaybeGroup
    <3>2. v.evidenceRequests \in SUBSET EvidenceRequests
      BY DEF Views
    <3> QED BY <3>1, <3>2, SupersededEvidence
  <2>3. new.newest /\ new \in reads /\ \A r \in reads : r.newest => r = new
    BY <2>2
  <2> HIDE DEF new, reads, w
  <2>4. w \in Views
    BY <2>1, <2>2 DEF Views, MaybeFinding
  <2>5. /\ w.evidenceLoading /\ w.preview = Blank /\ w.evidenceRequests = reads
        /\ w.finding = v.finding /\ w.evidence = v.evidence
    BY <2>1 DEF Views
  <2>6. /\ w.groupLoading = v.groupLoading /\ w.groupRequests = v.groupRequests
        /\ w.target = v.target /\ w.strayed = v.strayed /\ w.group = v.group
    BY <2>1 DEF Views
  <2>7. /\ w.identity = v.identity /\ w.tree = v.tree /\ w.traceLoading = v.traceLoading
        /\ w.traceRequests = v.traceRequests
    BY <2>1 DEF Views
  <2>8. EvidenceFollows(w)
    BY <1>2, <2>3, <2>5 DEF EvidenceFollows
  <2> QED BY <2>4, <2>6, <2>7, <2>8 DEF Follows, GroupFollows, TraceFollows, w
<1> QED BY <1>1, <1>2

LEMMA RestoredFollows ==
  ASSUME NEW v, Follows(v), NEW g \in MaybeGroup, NEW at \in Nat, NEW f \in MaybeFinding
  PROVE  Follows(RestoredTo(v, g, at, f))
<1> DEFINE u == [v EXCEPT !.showingInbox = FALSE, !.fullTrace = FALSE, !.target = g]
<1>1. u \in Views /\ u.target = g
  BY DEF Follows, Views
<1>2. /\ u.evidenceLoading = v.evidenceLoading /\ u.evidenceRequests = v.evidenceRequests
      /\ u.evidence = v.evidence /\ u.finding = v.finding /\ u.group = v.group
      /\ u.missed = v.missed /\ u.preview = v.preview
  BY DEF Follows, Views
<1>3. /\ u.identity = v.identity /\ u.tree = v.tree /\ u.traceLoading = v.traceLoading
      /\ u.traceRequests = v.traceRequests
  BY DEF Follows, Views
<1> HIDE DEF u
<1>4. EvidenceFollows(u) /\ TraceFollows(u)
  BY <1>2, <1>3 DEF Follows, EvidenceFollows, TraceFollows
<1>5. Follows(Requested(u, g, at, f))
  BY <1>1, <1>4, RequestedFollows
<1> QED BY <1>5 DEF RestoredTo, u

LEMMA ContextualFollows ==
  ASSUME NEW v, Follows(v), NEW o \in Origins
  PROVE  Follows(Contextual(v, o))
<1>1. CASE o = FromRuns
  <2> DEFINE w == [v EXCEPT !.evidence = Blank, !.missed = FALSE]
  <2>1. w \in Views
    BY DEF Follows, Views, MaybeFinding
  <2>2. /\ w.evidenceLoading = v.evidenceLoading /\ w.evidenceRequests = v.evidenceRequests
        /\ w.evidence = Blank /\ w.finding = v.finding /\ w.preview = v.preview
    BY DEF Follows, Views
  <2>3. /\ w.groupLoading = v.groupLoading /\ w.groupRequests = v.groupRequests
        /\ w.target = v.target /\ w.strayed = v.strayed /\ w.group = v.group
    BY DEF Follows, Views
  <2>4. /\ w.identity = v.identity /\ w.tree = v.tree /\ w.traceLoading = v.traceLoading
        /\ w.traceRequests = v.traceRequests
    BY DEF Follows, Views
  <2> HIDE DEF w
  <2>5. Follows(w)
    BY <2>1, <2>2, <2>3, <2>4 DEF Follows, GroupFollows, EvidenceFollows, TraceFollows
  <2> QED BY <1>1, <2>5 DEF Contextual, w
<1>2. CASE o # FromRuns
  <2>1. o.group \in MaybeGroup /\ o.offset \in Nat /\ o.finding \in MaybeFinding
    BY <1>2 DEF Origins
  <2>2. Follows(RestoredTo(v, o.group, o.offset, o.finding))
    BY <2>1, RestoredFollows
  <2> QED BY <1>2, <2>2 DEF Contextual
<1> QED BY <1>1, <1>2

LEMMA TracingFollows ==
  ASSUME NEW v, Follows(v), NEW t \in TraceNames, NEW o \in Origins
  PROVE  Follows(Tracing(v, t, o))
<1>1. CASE v.fullTrace /\ v.identity = t /\ FirstPage(t) \in v.tree
  <2> DEFINE w == [v EXCEPT !.origin = o]
  <2>1. w \in Views
    BY DEF Follows, Views
  <2>2. /\ w.evidenceLoading = v.evidenceLoading /\ w.evidenceRequests = v.evidenceRequests
        /\ w.evidence = v.evidence /\ w.finding = v.finding /\ w.preview = v.preview
        /\ w.missed = v.missed
    BY DEF Follows, Views
  <2>3. /\ w.groupLoading = v.groupLoading /\ w.groupRequests = v.groupRequests
        /\ w.target = v.target /\ w.strayed = v.strayed /\ w.group = v.group
    BY DEF Follows, Views
  <2>4. /\ w.identity = v.identity /\ w.tree = v.tree /\ w.traceLoading = v.traceLoading
        /\ w.traceRequests = v.traceRequests
    BY DEF Follows, Views
  <2> HIDE DEF w
  <2>5. Follows(w)
    BY <2>1, <2>2, <2>3, <2>4 DEF Follows, GroupFollows, EvidenceFollows, TraceFollows
  <2> QED BY <1>1, <2>5 DEF Tracing, w
<1>2. CASE ~(v.fullTrace /\ v.identity = t /\ FirstPage(t) \in v.tree)
  <2> DEFINE new == [trace |-> t, page |-> "first", newest |-> TRUE]
             reads == Superseded(v.traceRequests) \cup {new}
             w == [v EXCEPT !.identity = t, !.origin = o, !.tree = {}, !.traceLoading = TRUE,
                            !.traceRequests = reads, !.fullTrace = TRUE]
  <2>1. /\ reads \in SUBSET TraceRequests /\ new.newest /\ new.trace = t /\ new.page = "first"
        /\ \A r \in Superseded(v.traceRequests) : ~r.newest
    <3>1. v.traceRequests \in SUBSET TraceRequests
      BY DEF Follows, Views
    <3>2. new \in TraceRequests
      BY DEF TraceRequests
    <3> QED BY <3>1, <3>2, SupersededTraces
  <2>2. new \in reads /\ \A r \in reads : r.newest => r = new
    BY <2>1
  <2> HIDE DEF new, reads
  <2>3. w \in Views
    BY <2>1 DEF Follows, Views
  <2>4. /\ w.evidenceLoading = v.evidenceLoading /\ w.evidenceRequests = v.evidenceRequests
        /\ w.evidence = v.evidence /\ w.finding = v.finding /\ w.preview = v.preview
        /\ w.missed = v.missed
    BY DEF Follows, Views
  <2>5. /\ w.groupLoading = v.groupLoading /\ w.groupRequests = v.groupRequests
        /\ w.target = v.target /\ w.strayed = v.strayed /\ w.group = v.group
    BY DEF Follows, Views
  <2>6. w.identity = t /\ w.tree = {} /\ w.traceRequests = reads
    BY DEF Follows, Views
  <2>7. Tracing(v, t, o) = w
    BY <1>2 DEF Tracing, reads, new
  <2> HIDE DEF w
  <2>8. GroupFollows(w) /\ EvidenceFollows(w)
    BY <2>4, <2>5 DEF Follows, GroupFollows, EvidenceFollows
  <2>9. TraceFollows(w)
    BY <2>1, <2>2, <2>6 DEF TraceFollows
  <2> QED BY <2>3, <2>7, <2>8, <2>9 DEF Follows
<1> QED BY <1>1, <1>2

(* What a handler sets besides does not disturb the invariant.             *)
LEMMA SameFollows ==
  ASSUME NEW v, Follows(v), NEW w \in Views,
         w.evidenceLoading = v.evidenceLoading, w.evidenceRequests = v.evidenceRequests,
         w.evidence = v.evidence, w.finding = v.finding, w.preview = v.preview,
         w.missed = v.missed, w.groupLoading = v.groupLoading, w.groupRequests = v.groupRequests,
         w.target = v.target, w.strayed = v.strayed, w.group = v.group,
         w.identity = v.identity, w.tree = v.tree, w.traceLoading = v.traceLoading,
         w.traceRequests = v.traceRequests
  PROVE  Follows(w)
BY DEF Follows, GroupFollows, EvidenceFollows, TraceFollows

-----------------------------------------------------------------------------
(* What the user does.                                                     *)

LEMMA InitInvestigation == InvestigationInit => InvestigationInv
<1> SUFFICES ASSUME InvestigationInit PROVE InvestigationInv
  OBVIOUS
<1>1. view.occurrences = <<>> /\ <<>> \in Pages
  BY InvestigationAssumption, EmptySeq DEF InvestigationInit, Pages
<1>2. view \in Views
  BY <1>1 DEF InvestigationInit, Views, MaybeGroup, MaybeFinding, TraceNames, Origins
<1>3. GroupFollows(view) /\ EvidenceFollows(view) /\ TraceFollows(view)
  BY DEF InvestigationInit, GroupFollows, EvidenceFollows, TraceFollows
<1> QED BY <1>2, <1>3 DEF InvestigationInit, InvestigationInv, Follows

LEMMA ShowInvestigationFollows ==
  ASSUME InvestigationInv, NEW g \in FailureGroups, ShowInvestigation(g)
  PROVE  InvestigationInv'
<1> DEFINE there == [view EXCEPT !.showingInbox = FALSE, !.fullTrace = FALSE, !.target = g]
           other == \E r \in view.groupRequests : r.newest /\ r.group # g
<1>1. /\ view' = IF view.group # g THEN Requested(there, g, 0, Blank)
                 ELSE [there EXCEPT !.strayed = other]
      /\ candidates' = candidates
  BY DEF ShowInvestigation
<1>2. view \in Views /\ GroupFollows(view) /\ EvidenceFollows(view) /\ TraceFollows(view)
  BY DEF InvestigationInv, Follows
<1>3. there \in Views /\ there.target = g
  BY <1>2 DEF Views, MaybeGroup
<1>4. /\ there.evidenceLoading = view.evidenceLoading
      /\ there.evidenceRequests = view.evidenceRequests
      /\ there.evidence = view.evidence /\ there.finding = view.finding
      /\ there.group = view.group /\ there.missed = view.missed /\ there.preview = view.preview
  BY <1>2 DEF Views
<1>5. /\ there.identity = view.identity /\ there.tree = view.tree
      /\ there.traceLoading = view.traceLoading /\ there.traceRequests = view.traceRequests
  BY <1>2 DEF Views
<1>6. there.groupLoading = view.groupLoading /\ there.groupRequests = view.groupRequests
  BY <1>2 DEF Views
<1> HIDE DEF there
<1>7. EvidenceFollows(there) /\ TraceFollows(there)
  BY <1>2, <1>4, <1>5 DEF EvidenceFollows, TraceFollows
<1>8. Follows(view')
  <2>1. CASE view.group # g
    <3>1. Follows(Requested(there, g, 0, Blank))
      BY <1>3, <1>7, RequestedFollows DEF MaybeGroup, MaybeFinding
    <3> QED BY <1>1, <2>1, <3>1
  <2>2. CASE view.group = g
    <3> DEFINE w == [there EXCEPT !.strayed = other]
    <3>1. other \in BOOLEAN
      OBVIOUS
    <3> HIDE DEF other
    <3>2. w \in Views /\ w.strayed = other /\ w.target = g /\ w.group = g
      BY <1>3, <1>4, <2>2, <3>1 DEF Views
    <3>3. /\ w.evidenceLoading = there.evidenceLoading
          /\ w.evidenceRequests = there.evidenceRequests
          /\ w.evidence = there.evidence /\ w.finding = there.finding
          /\ w.group = there.group /\ w.missed = there.missed /\ w.preview = there.preview
      BY <1>3 DEF Views
    <3>4. /\ w.identity = there.identity /\ w.tree = there.tree
          /\ w.traceLoading = there.traceLoading /\ w.traceRequests = there.traceRequests
      BY <1>3 DEF Views
    <3>5. w.groupLoading = view.groupLoading /\ w.groupRequests = view.groupRequests
      BY <1>3, <1>6 DEF Views
    <3>6. view' = w
      BY <1>1, <2>2
    <3> HIDE DEF w
    <3>7. GroupFollows(w)
      BY <1>2, <3>2, <3>5 DEF GroupFollows, other
    <3>8. EvidenceFollows(w) /\ TraceFollows(w)
      BY <1>7, <3>3, <3>4 DEF EvidenceFollows, TraceFollows
    <3> QED BY <3>2, <3>6, <3>7, <3>8 DEF Follows
  <2> QED BY <2>1, <2>2
<1> QED BY <1>1, <1>8 DEF InvestigationInv

LEMMA LeaveFollows ==
  ASSUME InvestigationInv, ShowInbox \/ SetQueryScope \/ DismissError
  PROVE  InvestigationInv'
<1>1. view \in Views /\ GroupFollows(view) /\ EvidenceFollows(view) /\ TraceFollows(view)
  BY DEF InvestigationInv, Follows
<1>2. CASE ShowInbox
  <2> DEFINE w == [view EXCEPT !.showingInbox = TRUE, !.fullTrace = FALSE, !.target = Blank]
  <2>1. w \in Views /\ w.target = Blank
    BY <1>1 DEF Views, MaybeGroup
  <2>2. /\ w.evidenceLoading = view.evidenceLoading /\ w.evidenceRequests = view.evidenceRequests
        /\ w.evidence = view.evidence /\ w.finding = view.finding
        /\ w.group = view.group /\ w.missed = view.missed /\ w.preview = view.preview
    BY <1>1 DEF Views
  <2>3. /\ w.identity = view.identity /\ w.tree = view.tree
        /\ w.traceLoading = view.traceLoading /\ w.traceRequests = view.traceRequests
        /\ w.groupLoading = view.groupLoading /\ w.groupRequests = view.groupRequests
    BY <1>1 DEF Views
  <2>4. view' = w /\ candidates' = candidates
    BY <1>2 DEF ShowInbox
  <2> HIDE DEF w
  <2>5. GroupFollows(w) /\ EvidenceFollows(w) /\ TraceFollows(w)
    BY <1>1, <2>1, <2>2, <2>3 DEF GroupFollows, EvidenceFollows, TraceFollows
  <2> QED BY <2>1, <2>4, <2>5 DEF InvestigationInv, Follows
<1>3. CASE SetQueryScope
  <2> DEFINE w == [view EXCEPT !.group = Blank, !.occurrences = <<>>, !.evidence = Blank,
                               !.missed = FALSE]
  <2>1. <<>> \in Pages
    BY InvestigationAssumption, EmptySeq DEF Pages
  <2>2. w \in Views /\ w.group = Blank /\ w.evidence = Blank
    BY <1>1, <2>1 DEF Views, MaybeGroup, MaybeFinding
  <2>3. /\ w.evidenceLoading = view.evidenceLoading /\ w.evidenceRequests = view.evidenceRequests
        /\ w.finding = view.finding /\ w.preview = view.preview
    BY <1>1 DEF Views
  <2>4. /\ w.identity = view.identity /\ w.tree = view.tree
        /\ w.traceLoading = view.traceLoading /\ w.traceRequests = view.traceRequests
    BY <1>1 DEF Views
  <2>5. /\ w.groupLoading = view.groupLoading /\ w.groupRequests = view.groupRequests
        /\ w.target = view.target /\ w.strayed = view.strayed
    BY <1>1 DEF Views
  <2>6. view' = w /\ candidates' = candidates
    BY <1>3 DEF SetQueryScope
  <2> HIDE DEF w
  <2>7. GroupFollows(w) /\ EvidenceFollows(w) /\ TraceFollows(w)
    BY <1>1, <2>2, <2>3, <2>4, <2>5 DEF GroupFollows, EvidenceFollows, TraceFollows
  <2> QED BY <2>2, <2>6, <2>7 DEF InvestigationInv, Follows
<1>4. CASE DismissError
  <2> DEFINE w == [view EXCEPT !.error = FALSE]
  <2>1. w \in Views
    BY <1>1 DEF Views
  <2>2. Follows(w)
    BY <1>1, <2>1, SameFollows DEF Views, InvestigationInv
  <2>3. view' = w /\ candidates' = candidates
    BY <1>4 DEF DismissError
  <2> QED BY <2>2, <2>3 DEF InvestigationInv
<1> QED BY <1>2, <1>3, <1>4

LEMMA SelectFollows ==
  ASSUME InvestigationInv, NEW f \in Findings, SelectOccurrence(f)
  PROVE  InvestigationInv'
<1>1. Follows(Loading(view, f))
  BY LoadingFollows DEF InvestigationInv, Follows, EvidenceFollows
<1> QED BY <1>1 DEF InvestigationInv, SelectOccurrence

LEMMA NavigateFollows ==
  ASSUME InvestigationInv, NEW forward \in BOOLEAN, NavigateOccurrence(forward)
  PROVE  InvestigationInv'
<1> DEFINE Is(f) == f = view.finding
           i == SelectInSeq(view.occurrences, Is)
           next == IF forward THEN i + 1 ELSE i - 1
           at == IF forward THEN view.offset + Len(view.occurrences)
                 ELSE IF view.offset > PageSize THEN view.offset - PageSize ELSE 0
           new == [kind |-> "page", group |-> view.group, offset |-> at,
                   forward |-> forward, newest |-> TRUE]
           reads == Superseded(view.groupRequests) \cup {new}
<1>1. /\ view \in Views /\ GroupFollows(view) /\ EvidenceFollows(view) /\ TraceFollows(view)
      /\ Follows(view) /\ candidates' = candidates
      /\ view.group # Blank /\ ~view.groupLoading
  BY DEF InvestigationInv, Follows, NavigateOccurrence, OnEvidence
<1>2. \/ /\ next \in DOMAIN view.occurrences
         /\ view' = Loading(view, view.occurrences[next])
      \/ view' = [view EXCEPT !.groupLoading = TRUE, !.groupRequests = reads]
  BY DEF NavigateOccurrence
<1>3. ASSUME next \in DOMAIN view.occurrences, view' = Loading(view, view.occurrences[next])
      PROVE  Follows(view')
  <2> HIDE DEF next
  <2>1. view.occurrences[next] \in Findings
    <3>1. view.occurrences \in Seq(Findings)
      BY <1>1 DEF Views, Pages
    <3> QED BY <1>3, <3>1, ElementOfSeq, LenProperties
  <2> QED BY <1>1, <1>3, <2>1, LoadingFollows DEF EvidenceFollows
<1>4. ASSUME view' = [view EXCEPT !.groupLoading = TRUE, !.groupRequests = reads]
      PROVE  Follows(view')
  <2>1. at \in Nat
    <3>1. view.offset \in Nat /\ view.occurrences \in Seq(Findings)
      BY <1>1 DEF Views, Pages
    <3>2. Len(view.occurrences) \in Nat /\ PageSize \in Nat
      BY <3>1, LenProperties, InvestigationAssumption
    <3> QED BY <3>1, <3>2
  <2> HIDE DEF at
  <2>2. new \in GroupRequests /\ new.newest /\ new.kind = "page"
    BY <1>1, <2>1 DEF Views, GroupRequests
  <2>3. /\ Superseded(view.groupRequests) \in SUBSET GroupRequests
        /\ \A r \in Superseded(view.groupRequests) : ~r.newest
    BY <1>1, SupersededGroups DEF Views
  <2> HIDE DEF new
  <2>4. /\ reads \in SUBSET GroupRequests /\ new \in reads
        /\ \A r \in reads : r.newest => r = new
    BY <2>2, <2>3
  <2> HIDE DEF reads
  <2>5. view' \in Views
    BY <1>1, <1>4, <2>4 DEF Views
  <2>6. /\ view'.groupLoading = TRUE /\ view'.groupRequests = reads
        /\ view'.target = view.target /\ view'.strayed = view.strayed /\ view'.group = view.group
    BY <1>1, <1>4 DEF Views
  <2>7. /\ view'.evidenceLoading = view.evidenceLoading
        /\ view'.evidenceRequests = view.evidenceRequests
        /\ view'.evidence = view.evidence /\ view'.finding = view.finding
        /\ view'.missed = view.missed /\ view'.preview = view.preview
    BY <1>1, <1>4 DEF Views
  <2>8. /\ view'.identity = view.identity /\ view'.tree = view.tree
        /\ view'.traceLoading = view.traceLoading /\ view'.traceRequests = view.traceRequests
    BY <1>1, <1>4 DEF Views
  <2>9. GroupFollows(view')
    BY <1>1, <2>2, <2>4, <2>6 DEF GroupFollows
  <2>10. EvidenceFollows(view') /\ TraceFollows(view')
    BY <1>1, <2>6, <2>7, <2>8 DEF EvidenceFollows, TraceFollows
  <2> QED BY <2>5, <2>9, <2>10 DEF Follows
<1>5. Follows(view')
  BY <1>2, <1>3, <1>4
<1> QED BY <1>1, <1>5 DEF InvestigationInv

LEMMA ReviewFollows ==
  ASSUME InvestigationInv, ReviewFinding
  PROVE  InvestigationInv'
<1>1. /\ view \in Views /\ GroupFollows(view) /\ EvidenceFollows(view) /\ TraceFollows(view)
      /\ Follows(view) /\ candidates' = candidates /\ ~view.groupLoading
      /\ view' = IF view.group = Blank THEN view
                 ELSE Requested(view, view.group, view.offset, view.evidence)
  BY DEF InvestigationInv, Follows, ReviewFinding, OnEvidence
<1>2. view.group \in MaybeGroup /\ view.offset \in Nat /\ view.evidence \in MaybeFinding
      /\ view.strayed \in BOOLEAN
  BY <1>1 DEF Views
<1>3. view.group # Blank /\ view.target # Blank =>
        view.group = view.target \/ (view.strayed /\ view.group # view.target)
  BY <1>1, <1>2 DEF GroupFollows
<1>4. CASE view.group = Blank
  BY <1>1, <1>4 DEF InvestigationInv
<1>5. CASE view.group # Blank
  <2>1. Follows(Requested(view, view.group, view.offset, view.evidence))
    BY <1>1, <1>2, <1>3, <1>5, RequestedFollows
  <2> QED BY <1>1, <1>5, <2>1 DEF InvestigationInv
<1> QED BY <1>4, <1>5

LEMMA PreviewFollows ==
  ASSUME InvestigationInv, CreateCandidate \/ CancelCandidate
  PROVE  InvestigationInv'
<1>1. PICK p \in {view.finding, Blank} : view' = [view EXCEPT !.preview = p]
  BY DEF CreateCandidate, CancelCandidate
<1>2. /\ view \in Views /\ GroupFollows(view) /\ EvidenceFollows(view) /\ TraceFollows(view)
      /\ candidates' = candidates /\ ~view.evidenceLoading
  BY DEF InvestigationInv, Follows, CreateCandidate, CancelCandidate, OnEvidence
<1>3. view' \in Views /\ view'.preview = p
  BY <1>1, <1>2 DEF Views, MaybeFinding
<1>4. /\ view'.groupLoading = view.groupLoading /\ view'.groupRequests = view.groupRequests
      /\ view'.target = view.target /\ view'.strayed = view.strayed /\ view'.group = view.group
  BY <1>1, <1>2 DEF Views
<1>5. /\ view'.evidenceLoading = view.evidenceLoading
      /\ view'.evidenceRequests = view.evidenceRequests
      /\ view'.evidence = view.evidence /\ view'.finding = view.finding
      /\ view'.missed = view.missed
  BY <1>1, <1>2 DEF Views
<1>6. /\ view'.identity = view.identity /\ view'.tree = view.tree
      /\ view'.traceLoading = view.traceLoading /\ view'.traceRequests = view.traceRequests
  BY <1>1, <1>2 DEF Views
<1>7. GroupFollows(view') /\ TraceFollows(view')
  BY <1>2, <1>4, <1>6 DEF GroupFollows, TraceFollows
<1>8. EvidenceFollows(view')
  BY <1>2, <1>3, <1>4, <1>5 DEF EvidenceFollows
<1> QED BY <1>2, <1>3, <1>7, <1>8 DEF InvestigationInv, Follows

LEMMA ConfirmFollows ==
  ASSUME InvestigationInv, ConfirmCandidate
  PROVE  InvestigationInv'
<1> DEFINE u == [view EXCEPT !.preview = Blank]
<1>1. /\ view \in Views /\ GroupFollows(view) /\ EvidenceFollows(view) /\ TraceFollows(view)
      /\ view.group # Blank /\ view.finding # Blank /\ view' = Loading(u, view.finding)
      /\ candidates' \subseteq candidates \cup {[group |-> view.group, finding |-> view.finding]}
  BY DEF InvestigationInv, Follows, ConfirmCandidate
<1>2. view.group \in FailureGroups /\ view.finding \in Findings
  BY <1>1 DEF Views, MaybeGroup, MaybeFinding
<1>3. u \in Views /\ u.group = view.group /\ u.evidence = view.evidence /\ u.finding = view.finding
  BY <1>1 DEF Views, MaybeFinding
<1>4. /\ u.groupLoading = view.groupLoading /\ u.groupRequests = view.groupRequests
      /\ u.target = view.target /\ u.strayed = view.strayed
  BY <1>1 DEF Views
<1>5. /\ u.identity = view.identity /\ u.tree = view.tree
      /\ u.traceLoading = view.traceLoading /\ u.traceRequests = view.traceRequests
  BY <1>1 DEF Views
<1> HIDE DEF u
<1>6. GroupFollows(u) /\ TraceFollows(u)
  BY <1>1, <1>3, <1>4, <1>5 DEF GroupFollows, TraceFollows
<1>7. u.evidence # Blank => u.finding = u.evidence
  BY <1>1, <1>3 DEF EvidenceFollows
<1>8. Follows(view')
  BY <1>1, <1>2, <1>3, <1>6, <1>7, LoadingFollows
<1> QED BY <1>1, <1>2, <1>8 DEF InvestigationInv

LEMMA FromGroupIsOrigin ==
  ASSUME NEW g \in MaybeGroup, NEW f \in MaybeFinding, NEW at \in Nat
  PROVE  FromGroup(g, f, at) \in Origins
BY DEF FromGroup, Origins

LEMMA OriginFields ==
  ASSUME NEW o \in Origins, o # FromRuns
  PROVE  o.group \in MaybeGroup /\ o.finding \in MaybeFinding /\ o.offset \in Nat
BY DEF Origins

LEMMA TraceFollowsView ==
  ASSUME InvestigationInv,
         \/ OpenFullTrace
         \/ \E tab \in TraceTabs : ShowFullTrace(tab)
         \/ ReturnToInvestigation
  PROVE  InvestigationInv'
<1>1. Follows(view) /\ view \in Views
  BY DEF InvestigationInv, Follows
<1>2. CASE OpenFullTrace
  <2> DEFINE o == FromGroup(view.group, view.finding, view.offset)
             t == TraceOf[view.evidence]
  <2>1. view' = Tracing(view, t, o) /\ candidates' = candidates /\ view.evidence # Blank
    BY <1>2 DEF OpenFullTrace, OnEvidence
  <2>2. t \in TraceNames
    <3>1. view.evidence \in Findings
      BY <1>1, <2>1 DEF Views, MaybeFinding
    <3> QED BY <3>1 DEF TraceNames
  <2>3. o \in Origins
    BY <1>1, FromGroupIsOrigin DEF Views
  <2> HIDE DEF o, t
  <2> QED BY <1>1, <2>1, <2>2, <2>3, TracingFollows DEF InvestigationInv
<1>3. CASE \E tab \in TraceTabs : ShowFullTrace(tab)
  <2>1. PICK tab \in TraceTabs :
          /\ view' = Tracing(Contextual(view, tab.origin), TraceOf[tab.finding], tab.origin)
          /\ candidates' = candidates
    BY <1>3 DEF ShowFullTrace
  <2>2. /\ tab.finding \in Findings
        /\ tab.origin \in {FromRuns} \cup
             {FromGroup(g, f, 0) : g \in FailureGroups, f \in Findings}
    BY InvestigationAssumption
  <2>3. tab.origin \in Origins
    <3>1. \A g \in FailureGroups, f \in Findings : FromGroup(g, f, 0) \in Origins
      BY FromGroupIsOrigin DEF MaybeGroup, MaybeFinding
    <3>2. FromRuns \in Origins
      BY DEF Origins
    <3> QED BY <2>2, <3>1, <3>2
  <2>4. TraceOf[tab.finding] \in TraceNames
    BY <2>2 DEF TraceNames
  <2>5. Follows(Contextual(view, tab.origin))
    BY <1>1, <2>3, ContextualFollows
  <2>6. Follows(Tracing(Contextual(view, tab.origin), TraceOf[tab.finding], tab.origin))
    BY <2>3, <2>4, <2>5, TracingFollows
  <2> QED BY <2>1, <2>6 DEF InvestigationInv
<1>4. CASE ReturnToInvestigation
  <2>1. /\ view.origin # FromRuns /\ candidates' = candidates
        /\ view' = RestoredTo(view, view.origin.group, view.origin.offset, view.origin.finding)
    BY <1>4 DEF ReturnToInvestigation
  <2>2. view.origin \in Origins
    BY <1>1 DEF Views
  <2> QED BY <1>1, <2>1, <2>2, OriginFields, RestoredFollows DEF InvestigationInv
<1> QED BY <1>2, <1>3, <1>4

LEMMA TreePageFollows ==
  ASSUME InvestigationInv, LoadTreePage
  PROVE  InvestigationInv'
<1> DEFINE new == [trace |-> view.identity, page |-> "more", newest |-> TRUE]
           reads == view.traceRequests \cup {new}
<1>1. /\ view \in Views /\ GroupFollows(view) /\ EvidenceFollows(view) /\ TraceFollows(view)
      /\ candidates' = candidates /\ view' = [view EXCEPT !.traceRequests = reads]
  BY DEF InvestigationInv, Follows, LoadTreePage
<1>2. new \in TraceRequests /\ new.trace = view.identity
  BY <1>1 DEF Views, TraceRequests
<1> HIDE DEF new
<1>3. reads \in SUBSET TraceRequests
  BY <1>1, <1>2 DEF Views
<1>4. /\ \A r \in reads : r \in view.traceRequests \/ r.trace = view.identity
      /\ view.traceRequests \subseteq reads
  BY <1>2
<1> HIDE DEF reads
<1>5. view' \in Views
  BY <1>1, <1>3 DEF Views
<1>6. /\ view'.groupLoading = view.groupLoading /\ view'.groupRequests = view.groupRequests
      /\ view'.target = view.target /\ view'.strayed = view.strayed /\ view'.group = view.group
  BY <1>1 DEF Views
<1>7. /\ view'.evidenceLoading = view.evidenceLoading
      /\ view'.evidenceRequests = view.evidenceRequests
      /\ view'.evidence = view.evidence /\ view'.finding = view.finding
      /\ view'.missed = view.missed /\ view'.preview = view.preview
  BY <1>1 DEF Views
<1>8. /\ view'.identity = view.identity /\ view'.tree = view.tree
      /\ view'.traceLoading = view.traceLoading /\ view'.traceRequests = reads
  BY <1>1 DEF Views
<1>9. GroupFollows(view') /\ EvidenceFollows(view')
  BY <1>1, <1>6, <1>7 DEF GroupFollows, EvidenceFollows
<1>10. TraceFollows(view')
  BY <1>1, <1>4, <1>8 DEF TraceFollows
<1> QED BY <1>1, <1>5, <1>9, <1>10 DEF InvestigationInv, Follows

LEMMA RetryFollows ==
  ASSUME InvestigationInv, Retry
  PROVE  InvestigationInv'
<1> DEFINE calm == [view EXCEPT !.error = FALSE]
           g == IF view.target # Blank THEN view.target ELSE view.group
           cleared == [calm EXCEPT !.tree = {}]
<1>1. /\ Follows(view) /\ view \in Views /\ candidates' = candidates
      /\ view' = IF view.fullTrace
                 THEN Tracing(Contextual(cleared, view.origin), view.identity, view.origin)
                 ELSE IF view.showingInbox \/ g = Blank THEN calm
                 ELSE Requested(calm, g, view.offset, view.finding)
  BY DEF InvestigationInv, Follows, Retry
<1>2. /\ calm \in Views /\ calm.target = view.target /\ calm.strayed = view.strayed
      /\ Follows(calm)
  <2>1. calm \in Views
    BY <1>1 DEF Views
  <2>2. Follows(calm)
    BY <1>1, <2>1, SameFollows DEF Views
  <2> QED BY <1>1, <2>1, <2>2 DEF Views
<1>3. CASE view.fullTrace
  <2>1. cleared \in Views /\ cleared.tree = {}
    <3> HIDE DEF calm
    <3> QED BY <1>2 DEF Views
  <2>2. /\ cleared.groupLoading = calm.groupLoading /\ cleared.groupRequests = calm.groupRequests
        /\ cleared.target = calm.target /\ cleared.strayed = calm.strayed
        /\ cleared.group = calm.group
    <3> HIDE DEF calm
    <3> QED BY <1>2 DEF Views
  <2>3. /\ cleared.evidenceLoading = calm.evidenceLoading
        /\ cleared.evidenceRequests = calm.evidenceRequests
        /\ cleared.evidence = calm.evidence /\ cleared.finding = calm.finding
        /\ cleared.missed = calm.missed /\ cleared.preview = calm.preview
    <3> HIDE DEF calm
    <3> QED BY <1>2 DEF Views
  <2>4. /\ cleared.identity = calm.identity
        /\ cleared.traceLoading = calm.traceLoading /\ cleared.traceRequests = calm.traceRequests
    <3> HIDE DEF calm
    <3> QED BY <1>2 DEF Views
  <2>5. Follows(cleared)
    <3> HIDE DEF calm, cleared
    <3> QED BY <1>2, <2>1, <2>2, <2>3, <2>4
            DEF Follows, GroupFollows, EvidenceFollows, TraceFollows
  <2>6. view.identity \in TraceNames /\ view.origin \in Origins
    BY <1>1 DEF Views
  <2> HIDE DEF cleared
  <2>7. Follows(Tracing(Contextual(cleared, view.origin), view.identity, view.origin))
    BY <2>5, <2>6, ContextualFollows, TracingFollows
  <2> QED BY <1>1, <1>3, <2>7 DEF InvestigationInv
<1>4. CASE ~view.fullTrace /\ (view.showingInbox \/ g = Blank)
  <2>1. view' = calm
    BY <1>1, <1>4
  <2> QED BY <1>1, <1>2, <2>1 DEF InvestigationInv
<1>5. CASE ~view.fullTrace /\ ~(view.showingInbox \/ g = Blank)
  <2>1. view' = Requested(calm, g, view.offset, view.finding)
    BY <1>1, <1>5
  <2>2. g \in MaybeGroup /\ view.offset \in Nat /\ view.finding \in MaybeFinding
    BY <1>1 DEF Views
  <2>3. calm.target # Blank => g = calm.target
    BY <1>2
  <2> HIDE DEF calm, g
  <2>4. Follows(Requested(calm, g, view.offset, view.finding))
    BY <1>2, <2>2, <2>3, RequestedFollows DEF Follows
  <2> QED BY <1>1, <2>1, <2>4 DEF InvestigationInv
<1> QED BY <1>3, <1>4, <1>5

-----------------------------------------------------------------------------
(* The answers.                                                            *)

LEMMA PageTypes ==
  ASSUME NEW g \in MaybeGroup, NEW at \in Nat
  PROVE  PageAt(g, at) \in Pages
<1>1. CASE g = Blank
  BY <1>1, EmptySeq, InvestigationAssumption DEF PageAt, Pages
<1>2. CASE g # Blank
  <2>1. /\ Occurrences[g] \in Seq(Findings) /\ Len(Occurrences[g]) \in Nat
        /\ DOMAIN Occurrences[g] = 1..Len(Occurrences[g]) /\ PageSize \in Nat
    BY <1>2, InvestigationAssumption, LenProperties DEF MaybeGroup
  <2> DEFINE n == Len(Occurrences[g])
             S == (at + 1)..(at + PageSize) \cap DOMAIN Occurrences[g]
             size == IF n < at THEN 0 ELSE IF n < at + PageSize THEN n - at ELSE PageSize
  <2>2. size \in Nat /\ size <= PageSize /\ S = (at + 1)..(at + size)
        /\ \A i \in 1..size : at + i \in 1..n
    <3>1. n \in Nat
      BY <2>1
    <3> HIDE DEF n
    <3>2. size \in Nat /\ size <= PageSize
      BY <2>1, <3>1
    <3>3. S = (at + 1)..(at + PageSize) \cap 1..n
      BY <2>1 DEF n
    <3>4. S = (at + 1)..(at + size)
      BY <2>1, <3>1, <3>3
    <3>5. \A i \in 1..size : at + i \in 1..n
      BY <2>1, <3>1
    <3> QED BY <3>2, <3>4, <3>5
  <2> HIDE DEF size, S
  <2>3. Cardinality(S) = size
    BY <2>2, FS_Interval
  <2>4. PageAt(g, at) = [i \in 1..size |-> Occurrences[g][at + i]]
    BY <1>2, <2>3 DEF PageAt, S
  <2>5. \A i \in 1..size : Occurrences[g][at + i] \in Findings
    BY <2>1, <2>2, ElementOfSeq
  <2>6. PageAt(g, at) \in Seq(Findings) /\ Len(PageAt(g, at)) = size
    BY <2>2, <2>4, <2>5
  <2> QED BY <2>2, <2>6 DEF Pages
<1> QED BY <1>1, <1>2

LEMMA ChosenTypes ==
  ASSUME NEW page \in Pages, NEW f \in MaybeFinding
  PROVE  /\ Chosen(page, f) \in MaybeFinding
         /\ page # <<>> => Head(page) \in Findings /\ Last(page) \in Findings
<1>1. page \in Seq(Findings)
  BY DEF Pages
<1>2. page # <<>> => Head(page) \in Findings /\ Last(page) \in Findings
  BY <1>1, HeadTailProperties, ElementOfSeq, LenProperties, EmptySeq DEF Last
<1> QED BY <1>2 DEF Chosen, MaybeFinding

LEMMA StaleGroupFollows ==
  ASSUME NEW v, Follows(v), NEW r \in v.groupRequests, ~r.newest
  PROVE  Follows([v EXCEPT !.groupRequests = v.groupRequests \ {r}])
<1> DEFINE reads == v.groupRequests \ {r}
           w == [v EXCEPT !.groupRequests = reads]
<1>1. reads \in SUBSET GroupRequests /\ reads \subseteq v.groupRequests
      /\ \A q \in v.groupRequests : q.newest => q \in reads
  BY DEF Follows, Views
<1> HIDE DEF reads
<1>2. w \in Views
  BY <1>1 DEF Follows, Views
<1>3. /\ w.groupLoading = v.groupLoading /\ w.groupRequests = reads
      /\ w.target = v.target /\ w.strayed = v.strayed /\ w.group = v.group
  BY DEF Follows, Views
<1>4. /\ w.evidenceLoading = v.evidenceLoading /\ w.evidenceRequests = v.evidenceRequests
      /\ w.evidence = v.evidence /\ w.finding = v.finding
      /\ w.missed = v.missed /\ w.preview = v.preview
  BY DEF Follows, Views
<1>5. /\ w.identity = v.identity /\ w.tree = v.tree
      /\ w.traceLoading = v.traceLoading /\ w.traceRequests = v.traceRequests
  BY DEF Follows, Views
<1> HIDE DEF w
<1>6. Follows(w)
  BY <1>1, <1>2, <1>3, <1>4, <1>5 DEF Follows, GroupFollows, EvidenceFollows, TraceFollows
<1> QED BY <1>6 DEF w, reads

(* The answer to the newest load of a group.                               *)
LEMMA LoadedFollows ==
  ASSUME NEW v, Follows(v), NEW r \in v.groupRequests, r.newest, r.kind = "group",
         NEW g \in {r.group, Blank}, NEW page \in Pages
  PROVE  Follows(Selected([v EXCEPT !.groupRequests = v.groupRequests \ {r},
                                    !.groupLoading = FALSE, !.group = g,
                                    !.occurrences = page, !.error = FALSE],
                          Chosen(page, r.finding)))
<1> DEFINE reads == v.groupRequests \ {r}
           f == Chosen(page, r.finding)
           u == [v EXCEPT !.groupRequests = reads, !.groupLoading = FALSE, !.group = g,
                          !.occurrences = page, !.error = FALSE]
<1>1. v \in Views /\ GroupFollows(v) /\ EvidenceFollows(v) /\ TraceFollows(v)
  BY DEF Follows
<1>2. reads \in SUBSET GroupRequests /\ reads \subseteq v.groupRequests
  BY <1>1 DEF Views
<1>3. r.finding \in MaybeFinding /\ r.group \in MaybeGroup
  BY <1>1 DEF Views, GroupRequests
<1>4. g \in MaybeGroup
  BY <1>3 DEF MaybeGroup
<1> HIDE DEF reads
<1>5. u \in Views
  BY <1>1, <1>2, <1>4 DEF Views
<1>6. /\ u.groupLoading = FALSE /\ u.groupRequests = reads /\ u.group = g
      /\ u.target = v.target /\ u.strayed = v.strayed
  BY <1>1 DEF Views
<1>7. /\ u.evidenceLoading = v.evidenceLoading /\ u.evidenceRequests = v.evidenceRequests
      /\ u.evidence = v.evidence /\ u.finding = v.finding
      /\ u.missed = v.missed /\ u.preview = v.preview
  BY <1>1 DEF Views
<1>8. /\ u.identity = v.identity /\ u.tree = v.tree
      /\ u.traceLoading = v.traceLoading /\ u.traceRequests = v.traceRequests
  BY <1>1 DEF Views
<1> HIDE DEF u
<1>9. GroupFollows(u) /\ TraceFollows(u)
  BY <1>1, <1>2, <1>6, <1>8 DEF GroupFollows, TraceFollows
<1>10. CASE f = Blank
  <2> DEFINE w == [u EXCEPT !.finding = Blank, !.evidence = Blank, !.missed = FALSE]
  <2>1. w \in Views /\ w.finding = Blank /\ w.evidence = Blank
    BY <1>5 DEF Views, MaybeFinding
  <2>2. /\ w.evidenceLoading = u.evidenceLoading /\ w.evidenceRequests = u.evidenceRequests
        /\ w.preview = u.preview
    BY <1>5 DEF Views
  <2>3. /\ w.groupLoading = u.groupLoading /\ w.groupRequests = u.groupRequests
        /\ w.target = u.target /\ w.strayed = u.strayed /\ w.group = u.group
    BY <1>5 DEF Views
  <2>4. /\ w.identity = u.identity /\ w.tree = u.tree
        /\ w.traceLoading = u.traceLoading /\ w.traceRequests = u.traceRequests
    BY <1>5 DEF Views
  <2>5. Selected(u, f) = w
    BY <1>10 DEF Selected
  <2> HIDE DEF w, f
  <2>6. GroupFollows(w) /\ TraceFollows(w)
    BY <1>9, <2>3, <2>4 DEF GroupFollows, TraceFollows
  <2>7. EvidenceFollows(w)
    BY <1>1, <1>7, <2>1, <2>2 DEF EvidenceFollows
  <2>8. Follows(Selected(u, f))
    BY <2>1, <2>5, <2>6, <2>7 DEF Follows
  <2> QED BY <2>8 DEF u, reads, f
<1>11. CASE f # Blank
  <2>1. f \in Findings
    BY <1>3, <1>11, ChosenTypes DEF MaybeFinding
  <2>2. Selected(u, f) = Loading(u, f)
    BY <1>11 DEF Selected
  <2> HIDE DEF f
  <2>3. u.group = Blank => EvidenceFollows(u)
    BY <1>1, <1>7 DEF EvidenceFollows
  <2>4. u.evidence # Blank => u.finding = u.evidence
    BY <1>1, <1>7 DEF EvidenceFollows
  <2>5. Follows(Selected(u, f))
    BY <1>5, <1>9, <2>1, <2>2, <2>3, <2>4, LoadingFollows
  <2> QED BY <2>5 DEF u, reads, f
<1> QED BY <1>10, <1>11

(* The newest load of a group or of a page fails.                          *)
LEMMA FailedFollows ==
  ASSUME NEW v, Follows(v), NEW r \in v.groupRequests, r.newest,
         NEW strayed \in BOOLEAN, r.kind = "page" => strayed = v.strayed,
         r.kind # "page" => strayed
  PROVE  Follows([v EXCEPT !.groupRequests = v.groupRequests \ {r}, !.groupLoading = FALSE,
                           !.error = TRUE, !.strayed = strayed])
<1> DEFINE reads == v.groupRequests \ {r}
           w == [v EXCEPT !.groupRequests = reads, !.groupLoading = FALSE,
                          !.error = TRUE, !.strayed = strayed]
<1>1. v \in Views /\ GroupFollows(v) /\ EvidenceFollows(v) /\ TraceFollows(v)
  BY DEF Follows
<1>2. reads \in SUBSET GroupRequests /\ reads \subseteq v.groupRequests
  BY <1>1 DEF Views
<1> HIDE DEF reads
<1>3. w \in Views
  BY <1>1, <1>2 DEF Views
<1>4. /\ w.groupLoading = FALSE /\ w.groupRequests = reads /\ w.group = v.group
      /\ w.target = v.target
  BY <1>1 DEF Views
<1>5. w.strayed = strayed
  BY <1>1 DEF Views
<1>6. /\ w.evidenceLoading = v.evidenceLoading /\ w.evidenceRequests = v.evidenceRequests
      /\ w.evidence = v.evidence /\ w.finding = v.finding
      /\ w.missed = v.missed /\ w.preview = v.preview
  BY <1>1 DEF Views
<1>7. /\ w.identity = v.identity /\ w.tree = v.tree
      /\ w.traceLoading = v.traceLoading /\ w.traceRequests = v.traceRequests
  BY <1>1 DEF Views
<1> HIDE DEF w
<1>8. EvidenceFollows(w) /\ TraceFollows(w)
  BY <1>1, <1>4, <1>6, <1>7 DEF EvidenceFollows, TraceFollows
<1>9. GroupFollows(w)
  <2>1. CASE r.kind = "page"
    BY <1>1, <1>2, <1>4, <1>5, <2>1 DEF GroupFollows
  <2>2. CASE r.kind # "page"
    BY <1>4, <1>5, <2>2 DEF GroupFollows
  <2> QED BY <2>1, <2>2
<1>10. Follows(w)
  BY <1>3, <1>8, <1>9 DEF Follows
<1> QED BY <1>10 DEF w, reads

(* The answer to the newest page.                                          *)
LEMMA TurnedFollows ==
  ASSUME NEW v, Follows(v), NEW r \in v.groupRequests, r.newest, r.kind = "page",
         NEW page \in Pages, NEW f \in Findings \cup {Blank}
  PROVE  LET moved == [v EXCEPT !.groupRequests = v.groupRequests \ {r}, !.groupLoading = FALSE,
                                !.offset = r.offset, !.occurrences = page]
         IN  Follows(IF f = Blank THEN moved ELSE Loading(moved, f))
<1> DEFINE reads == v.groupRequests \ {r}
           w == [v EXCEPT !.groupRequests = reads, !.groupLoading = FALSE,
                          !.offset = r.offset, !.occurrences = page]
<1>1. v \in Views /\ GroupFollows(v) /\ EvidenceFollows(v) /\ TraceFollows(v)
  BY DEF Follows
<1>2. reads \in SUBSET GroupRequests /\ reads \subseteq v.groupRequests
      /\ r.offset \in Nat
  BY <1>1 DEF Views, GroupRequests
<1> HIDE DEF reads
<1>3. w \in Views
  BY <1>1, <1>2 DEF Views
<1>4. /\ w.groupLoading = FALSE /\ w.groupRequests = reads /\ w.group = v.group
      /\ w.target = v.target /\ w.strayed = v.strayed
  BY <1>1 DEF Views
<1>5. /\ w.evidenceLoading = v.evidenceLoading /\ w.evidenceRequests = v.evidenceRequests
      /\ w.evidence = v.evidence /\ w.finding = v.finding
      /\ w.missed = v.missed /\ w.preview = v.preview
  BY <1>1 DEF Views
<1>6. /\ w.identity = v.identity /\ w.tree = v.tree
      /\ w.traceLoading = v.traceLoading /\ w.traceRequests = v.traceRequests
  BY <1>1 DEF Views
<1> HIDE DEF w
<1>7. GroupFollows(w) /\ EvidenceFollows(w) /\ TraceFollows(w)
  BY <1>1, <1>2, <1>4, <1>5, <1>6 DEF GroupFollows, EvidenceFollows, TraceFollows
<1>8. f # Blank => Follows(Loading(w, f))
  BY <1>3, <1>7, LoadingFollows DEF EvidenceFollows
<1>9. Follows(IF f = Blank THEN w ELSE Loading(w, f))
  BY <1>3, <1>7, <1>8 DEF Follows
<1> QED BY <1>9 DEF w, reads

LEMMA AnswerGroupFollows ==
  ASSUME InvestigationInv, AnswerGroup
  PROVE  InvestigationInv'
<1>1. Follows(view) /\ view \in Views /\ candidates' = candidates
  BY DEF InvestigationInv, Follows, AnswerGroup
<1>2. PICK r \in view.groupRequests :
        LET v == [view EXCEPT !.groupRequests = view.groupRequests \ {r}]
        IN  \/ ~r.newest /\ view' = v
            \/ r.newest /\ r.kind = "group" /\ GroupArrives(r, v)
            \/ r.newest /\ r.kind = "page" /\ PageArrives(r, v)
  BY DEF AnswerGroup
<1> DEFINE v == [view EXCEPT !.groupRequests = view.groupRequests \ {r}]
<1>3. \/ ~r.newest /\ view' = v
      \/ r.newest /\ r.kind = "group" /\ GroupArrives(r, v)
      \/ r.newest /\ r.kind = "page" /\ PageArrives(r, v)
  BY <1>2
<1>4. r.group \in MaybeGroup /\ r.offset \in Nat /\ r.newest \in BOOLEAN
  BY <1>1 DEF Views, GroupRequests
<1>5. PageAt(r.group, r.offset) \in Pages /\ <<>> \in Pages
  BY <1>4, PageTypes, EmptySeq, InvestigationAssumption DEF Pages
<1>6. CASE ~r.newest /\ view' = v
  BY <1>1, <1>6, StaleGroupFollows DEF InvestigationInv
<1>7. CASE r.newest /\ r.kind = "group" /\ GroupArrives(r, v)
  <2>1. CASE \E g \in {r.group, Blank}, page \in {PageAt(r.group, r.offset), <<>>} :
               view' = Selected([v EXCEPT !.groupLoading = FALSE, !.group = g,
                                          !.occurrences = page, !.error = FALSE],
                                Chosen(page, r.finding))
    <3>1. PICK g \in {r.group, Blank}, page \in {PageAt(r.group, r.offset), <<>>} :
            view' = Selected([v EXCEPT !.groupLoading = FALSE, !.group = g,
                                       !.occurrences = page, !.error = FALSE],
                             Chosen(page, r.finding))
      BY <2>1
    <3>2. [v EXCEPT !.groupLoading = FALSE, !.group = g, !.occurrences = page, !.error = FALSE]
          = [view EXCEPT !.groupRequests = view.groupRequests \ {r},
                         !.groupLoading = FALSE, !.group = g,
                         !.occurrences = page, !.error = FALSE]
      BY <1>1 DEF Views
    <3>3. page \in Pages
      BY <1>5
    <3>4. Follows(Selected([view EXCEPT !.groupRequests = view.groupRequests \ {r},
                                        !.groupLoading = FALSE, !.group = g,
                                        !.occurrences = page, !.error = FALSE],
                           Chosen(page, r.finding)))
      BY <1>1, <1>7, <3>3, LoadedFollows
    <3> QED BY <1>1, <3>1, <3>2, <3>4 DEF InvestigationInv
  <2>2. CASE view' = [v EXCEPT !.groupLoading = FALSE, !.error = TRUE, !.strayed = TRUE]
    <3>1. view' = [view EXCEPT !.groupRequests = view.groupRequests \ {r}, !.groupLoading = FALSE,
                               !.error = TRUE, !.strayed = TRUE]
      BY <1>1, <2>2 DEF Views
    <3>2. Follows([view EXCEPT !.groupRequests = view.groupRequests \ {r}, !.groupLoading = FALSE,
                               !.error = TRUE, !.strayed = TRUE])
      BY <1>1, <1>7, FailedFollows
    <3> QED BY <1>1, <3>1, <3>2 DEF InvestigationInv
  <2> QED BY <1>7, <2>1, <2>2 DEF GroupArrives
<1>8. CASE r.newest /\ r.kind = "page" /\ PageArrives(r, v)
  <2> DEFINE moved(page) == [v EXCEPT !.groupLoading = FALSE, !.offset = r.offset,
                                      !.occurrences = page]
  <2>1. CASE \E page \in {PageAt(r.group, r.offset), <<>>} :
               view' = IF page = <<>> THEN moved(page)
                       ELSE Loading(moved(page), IF r.forward THEN Head(page) ELSE Last(page))
    <3>1. PICK page \in {PageAt(r.group, r.offset), <<>>} :
            view' = IF page = <<>> THEN moved(page)
                    ELSE Loading(moved(page), IF r.forward THEN Head(page) ELSE Last(page))
      BY <2>1
    <3> DEFINE f == IF page = <<>> THEN Blank
                    ELSE IF r.forward THEN Head(page) ELSE Last(page)
               turned == [view EXCEPT !.groupRequests = view.groupRequests \ {r},
                                      !.groupLoading = FALSE,
                                      !.offset = r.offset, !.occurrences = page]
    <3>2. page \in Pages
      BY <1>5
    <3>3. /\ f \in Findings \cup {Blank}
          /\ page # <<>> => f # Blank /\ f = IF r.forward THEN Head(page) ELSE Last(page)
      <4>1. Blank \in MaybeFinding /\ Blank \notin Findings
        BY InvestigationAssumption DEF MaybeFinding
      <4>2. page # <<>> => Head(page) \in Findings /\ Last(page) \in Findings
        BY <3>2, <4>1, ChosenTypes
      <4> QED BY <4>1, <4>2
    <3>4. moved(page) = turned
      BY <1>1 DEF Views
    <3>5. view' = IF f = Blank THEN turned ELSE Loading(turned, f)
      <4> HIDE DEF turned, moved
      <4> QED BY <3>1, <3>3, <3>4
    <3>6. Follows(IF f = Blank THEN turned ELSE Loading(turned, f))
      <4> HIDE DEF f
      <4> QED BY <1>1, <1>8, <3>2, <3>3, TurnedFollows
    <3> HIDE DEF turned, f
    <3> QED BY <1>1, <3>5, <3>6 DEF InvestigationInv
  <2>2. CASE view' = [v EXCEPT !.groupLoading = FALSE, !.error = TRUE]
    <3>1. view' = [view EXCEPT !.groupRequests = view.groupRequests \ {r}, !.groupLoading = FALSE,
                               !.error = TRUE, !.strayed = view.strayed]
      BY <1>1, <2>2 DEF Views
    <3>2. view.strayed \in BOOLEAN
      BY <1>1 DEF Views
    <3>3. Follows([view EXCEPT !.groupRequests = view.groupRequests \ {r}, !.groupLoading = FALSE,
                               !.error = TRUE, !.strayed = view.strayed])
      BY <1>1, <1>8, <3>2, FailedFollows
    <3> QED BY <1>1, <3>1, <3>3 DEF InvestigationInv
  <2> QED BY <1>8, <2>1, <2>2 DEF PageArrives
<1> QED BY <1>3, <1>6, <1>7, <1>8

LEMMA AnswerEvidenceFollows ==
  ASSUME InvestigationInv, AnswerEvidence
  PROVE  InvestigationInv'
<1>1. /\ view \in Views /\ GroupFollows(view) /\ EvidenceFollows(view) /\ TraceFollows(view)
      /\ candidates' = candidates
  BY DEF InvestigationInv, Follows, AnswerEvidence
<1>2. PICK r \in view.evidenceRequests :
        LET v == [view EXCEPT !.evidenceRequests = view.evidenceRequests \ {r}]
            done == [v EXCEPT !.evidenceLoading = FALSE]
        IN  \/ ~r.newest /\ view' = v
            \/ /\ r.newest /\ r.finding \in ToSet(Occurrences[r.group])
               /\ view' = [done EXCEPT !.finding = r.finding, !.evidence = r.finding,
                                       !.error = FALSE, !.missed = r.group # view.group]
            \/ r.newest /\ view' = [done EXCEPT !.error = TRUE, !.missed = TRUE]
  BY DEF AnswerEvidence
<1> DEFINE reads == view.evidenceRequests \ {r}
           v == [view EXCEPT !.evidenceRequests = reads]
           done == [v EXCEPT !.evidenceLoading = FALSE]
<1>3. \/ ~r.newest /\ view' = v
      \/ /\ r.newest /\ r.finding \in ToSet(Occurrences[r.group])
         /\ view' = [done EXCEPT !.finding = r.finding, !.evidence = r.finding,
                                 !.error = FALSE, !.missed = r.group # view.group]
      \/ r.newest /\ view' = [done EXCEPT !.error = TRUE, !.missed = TRUE]
  BY <1>2
<1>4. /\ r.finding \in Findings /\ r.newest \in BOOLEAN
      /\ reads \in SUBSET EvidenceRequests /\ reads \subseteq view.evidenceRequests
  BY <1>1 DEF Views, EvidenceRequests
<1>5. CASE ~r.newest /\ view' = v
  <2>1. \A q \in view.evidenceRequests : q.newest => q \in reads
    BY <1>5
  <2> HIDE DEF reads
  <2>2. view' \in Views
    BY <1>1, <1>4, <1>5 DEF Views
  <2>3. /\ view'.evidenceLoading = view.evidenceLoading /\ view'.evidenceRequests = reads
        /\ view'.evidence = view.evidence /\ view'.finding = view.finding
        /\ view'.missed = view.missed /\ view'.preview = view.preview
    BY <1>1, <1>5 DEF Views
  <2>4. /\ view'.groupLoading = view.groupLoading /\ view'.groupRequests = view.groupRequests
        /\ view'.target = view.target /\ view'.strayed = view.strayed /\ view'.group = view.group
    BY <1>1, <1>5 DEF Views
  <2>5. /\ view'.identity = view.identity /\ view'.tree = view.tree
        /\ view'.traceLoading = view.traceLoading /\ view'.traceRequests = view.traceRequests
    BY <1>1, <1>5 DEF Views
  <2>6. EvidenceFollows(view')
    BY <1>1, <1>4, <2>1, <2>3, <2>4 DEF EvidenceFollows
  <2> QED BY <1>1, <2>2, <2>4, <2>5, <2>6
          DEF InvestigationInv, Follows, GroupFollows, TraceFollows
<1>6. ASSUME r.newest,
             NEW finding \in MaybeFinding, NEW evidence \in MaybeFinding,
             NEW error \in BOOLEAN, NEW missed \in BOOLEAN,
             view' = [done EXCEPT !.finding = finding, !.evidence = evidence,
                                  !.error = error, !.missed = missed],
             evidence # Blank => finding = evidence,
             evidence # Blank /\ view.group # Blank /\ ~missed =>
               evidence \in ToSet(Occurrences[view.group])
      PROVE  InvestigationInv'
  <2>1. \A q \in reads : ~q.newest
    BY <1>1, <1>6 DEF EvidenceFollows
  <2>2. view.preview = Blank
    BY <1>1, <1>6 DEF EvidenceFollows
  <2> HIDE DEF reads
  <2>3. done \in Views
    BY <1>1, <1>4 DEF Views
  <2>4. done.evidenceLoading = FALSE /\ done.evidenceRequests = reads
        /\ done.preview = view.preview
    BY <1>1 DEF Views
  <2>5. /\ done.groupLoading = view.groupLoading /\ done.groupRequests = view.groupRequests
        /\ done.target = view.target /\ done.strayed = view.strayed /\ done.group = view.group
    BY <1>1 DEF Views
  <2>6. /\ done.identity = view.identity /\ done.tree = view.tree
        /\ done.traceLoading = view.traceLoading /\ done.traceRequests = view.traceRequests
    BY <1>1 DEF Views
  <2> HIDE DEF done
  <2>7. view' \in Views
    BY <1>6, <2>3 DEF Views
  <2>8. /\ view'.evidenceLoading = FALSE /\ view'.evidenceRequests = reads
        /\ view'.preview = Blank
    BY <1>6, <2>2, <2>3, <2>4 DEF Views
  <2>9. view'.evidence = evidence /\ view'.finding = finding /\ view'.missed = missed
    BY <1>6, <2>3 DEF Views
  <2>10. /\ view'.groupLoading = view.groupLoading /\ view'.groupRequests = view.groupRequests
         /\ view'.target = view.target /\ view'.strayed = view.strayed /\ view'.group = view.group
    BY <1>6, <2>3, <2>5 DEF Views
  <2>11. /\ view'.identity = view.identity /\ view'.tree = view.tree
         /\ view'.traceLoading = view.traceLoading /\ view'.traceRequests = view.traceRequests
    BY <1>6, <2>3, <2>6 DEF Views
  <2>12. EvidenceFollows(view')
    BY <1>6, <2>1, <2>8, <2>9, <2>10 DEF EvidenceFollows
  <2> QED BY <1>1, <2>7, <2>10, <2>11, <2>12
          DEF InvestigationInv, Follows, GroupFollows, TraceFollows
<1>7. CASE /\ r.newest /\ r.finding \in ToSet(Occurrences[r.group])
           /\ view' = [done EXCEPT !.finding = r.finding, !.evidence = r.finding,
                                   !.error = FALSE, !.missed = r.group # view.group]
  <2>1. r.finding \in MaybeFinding /\ (r.group # view.group) \in BOOLEAN
    BY <1>4 DEF MaybeFinding
  <2> HIDE DEF done
  <2> QED BY <1>6, <1>7, <2>1
<1>8. CASE r.newest /\ view' = [done EXCEPT !.error = TRUE, !.missed = TRUE]
  <2>1. /\ view.finding \in MaybeFinding /\ view.evidence \in MaybeFinding
        /\ view.evidence # Blank => view.finding = view.evidence
    BY <1>1 DEF Views, EvidenceFollows
  <2>2. view' = [done EXCEPT !.finding = view.finding, !.evidence = view.evidence,
                             !.error = TRUE, !.missed = TRUE]
    <3>1. done \in Views /\ done.finding = view.finding /\ done.evidence = view.evidence
      <4> HIDE DEF reads
      <4> QED BY <1>1, <1>4 DEF Views
    <3> HIDE DEF done
    <3> QED BY <1>8, <3>1 DEF Views
  <2> HIDE DEF done
  <2> QED BY <1>6, <1>8, <2>1, <2>2
<1> QED BY <1>3, <1>5, <1>7, <1>8

LEMMA AnswerTraceFollows ==
  ASSUME InvestigationInv, AnswerTrace
  PROVE  InvestigationInv'
<1>1. /\ view \in Views /\ GroupFollows(view) /\ EvidenceFollows(view) /\ TraceFollows(view)
      /\ candidates' = candidates
  BY DEF InvestigationInv, Follows, AnswerTrace
<1>2. PICK r \in view.traceRequests :
        LET v == [view EXCEPT !.traceRequests = view.traceRequests \ {r}]
            done == [v EXCEPT !.traceLoading = view.traceLoading /\ r.page # "first"]
        IN  \/ ~r.newest /\ view' = v
            \/ /\ r.newest
               /\ view' = [done EXCEPT !.tree = done.tree \cup {[trace |-> r.trace, page |-> r.page]}]
            \/ r.newest /\ view' = [done EXCEPT !.error = TRUE]
  BY <1>1 DEF AnswerTrace, Views
<1> DEFINE reads == view.traceRequests \ {r}
           awaited == view.traceLoading /\ r.page # "first"
           v == [view EXCEPT !.traceRequests = reads]
           done == [v EXCEPT !.traceLoading = awaited]
<1>3. \/ ~r.newest /\ view' = v
      \/ /\ r.newest
         /\ view' = [done EXCEPT !.tree = done.tree \cup {[trace |-> r.trace, page |-> r.page]}]
      \/ r.newest /\ view' = [done EXCEPT !.error = TRUE]
  BY <1>2
<1>4. /\ r \in TraceRequests /\ view.tree \in SUBSET TreePages
      /\ view.error \in BOOLEAN /\ view.traceLoading \in BOOLEAN
      /\ reads \in SUBSET TraceRequests /\ reads \subseteq view.traceRequests
  BY <1>1 DEF Views
<1>5. ASSUME NEW stays \in BOOLEAN, NEW tree \in SUBSET TreePages, NEW error \in BOOLEAN,
             view' = [view EXCEPT !.traceRequests = reads, !.traceLoading = stays,
                                  !.tree = tree, !.error = error],
             \A p \in tree : p.trace = view.identity,
             stays => view.traceLoading /\ ~(r.newest /\ r.page = "first")
      PROVE  InvestigationInv'
  <2>1. \A q \in view.traceRequests : q # r => q \in reads
    OBVIOUS
  <2> HIDE DEF reads
  <2>2. view' \in Views
    <3> DEFINE u == [view EXCEPT !.traceRequests = reads, !.traceLoading = stays]
    <3>1. u \in Views
      BY <1>1, <1>4 DEF Views
    <3>2. view' = [u EXCEPT !.tree = tree, !.error = error]
      BY <1>5
    <3>3. tree \in SUBSET TreePages /\ error \in BOOLEAN
      OBVIOUS
    <3> HIDE DEF u
    <3> QED BY ONLY <3>1, <3>2, <3>3 DEF Views
  <2>3. /\ view'.evidenceLoading = view.evidenceLoading
        /\ view'.evidenceRequests = view.evidenceRequests
        /\ view'.evidence = view.evidence /\ view'.finding = view.finding
        /\ view'.missed = view.missed /\ view'.preview = view.preview
    BY <1>1, <1>5 DEF Views
  <2>4. /\ view'.groupLoading = view.groupLoading /\ view'.groupRequests = view.groupRequests
        /\ view'.target = view.target /\ view'.strayed = view.strayed /\ view'.group = view.group
    BY <1>1, <1>5 DEF Views
  <2>5. /\ view'.identity = view.identity /\ view'.tree = tree
        /\ view'.traceLoading = stays /\ view'.traceRequests = reads
    BY <1>1, <1>5 DEF Views
  <2>6. TraceFollows(view')
    BY <1>1, <1>4, <1>5, <2>1, <2>5 DEF TraceFollows
  <2> QED BY <1>1, <2>2, <2>3, <2>4, <2>6
          DEF InvestigationInv, Follows, GroupFollows, EvidenceFollows
<1>6. CASE ~r.newest /\ view' = v
  <2>1. view' = [view EXCEPT !.traceRequests = reads, !.traceLoading = view.traceLoading,
                             !.tree = view.tree, !.error = view.error]
    <3> HIDE DEF reads
    <3> QED BY <1>1, <1>6 DEF Views
  <2>2. \A p \in view.tree : p.trace = view.identity
    BY <1>1 DEF TraceFollows
  <2>3. view.traceLoading => view.traceLoading /\ ~(r.newest /\ r.page = "first")
    BY <1>6
  <2> HIDE DEF reads
  <2> QED BY <1>4, <1>5, <2>1, <2>2, <2>3
<1>7. CASE /\ r.newest
           /\ view' = [done EXCEPT !.tree = done.tree \cup {[trace |-> r.trace, page |-> r.page]}]
  <2> DEFINE page == [trace |-> r.trace, page |-> r.page]
             tree == view.tree \cup {page}
  <2>1. view' = [view EXCEPT !.traceRequests = reads, !.traceLoading = awaited,
                             !.tree = tree, !.error = view.error]
    <3> HIDE DEF reads, awaited
    <3> QED BY <1>1, <1>7 DEF Views
  <2>2. page \in TreePages /\ page.trace = view.identity
    BY <1>1, <1>4, <1>7 DEF TraceRequests, TreePages, TraceFollows
  <2> HIDE DEF page
  <2>3. tree \in SUBSET TreePages /\ \A p \in tree : p.trace = view.identity
    BY <1>1, <1>4, <2>2 DEF TraceFollows
  <2>4. awaited \in BOOLEAN /\ (awaited => view.traceLoading /\ ~(r.newest /\ r.page = "first"))
    BY <1>4
  <2> HIDE DEF reads, tree, awaited
  <2> QED BY <1>4, <1>5, <2>1, <2>3, <2>4
<1>8. CASE r.newest /\ view' = [done EXCEPT !.error = TRUE]
  <2>1. view' = [view EXCEPT !.traceRequests = reads, !.traceLoading = awaited,
                             !.tree = view.tree, !.error = TRUE]
    <3> HIDE DEF reads, awaited
    <3> QED BY <1>1, <1>8 DEF Views
  <2>2. awaited \in BOOLEAN /\ (awaited => view.traceLoading /\ ~(r.newest /\ r.page = "first"))
    BY <1>4
  <2> HIDE DEF reads, awaited
  <2> QED BY <1>1, <1>4, <1>5, <2>1, <2>2 DEF TraceFollows
<1> QED BY <1>3, <1>6, <1>7, <1>8

LEMMA InvestigationNextKeeps ==
  ASSUME InvestigationInv, [InvestigationNext]_investigationVars
  PROVE  InvestigationInv'
<1>1. CASE \E g \in FailureGroups : ShowInvestigation(g)
  BY <1>1, ShowInvestigationFollows
<1>2. CASE ShowInbox \/ SetQueryScope \/ DismissError
  BY <1>2, LeaveFollows
<1>3. CASE \E f \in Findings : SelectOccurrence(f)
  BY <1>3, SelectFollows
<1>4. CASE \E forward \in BOOLEAN : NavigateOccurrence(forward)
  BY <1>4, NavigateFollows
<1>5. CASE ReviewFinding
  BY <1>5, ReviewFollows
<1>6. CASE CreateCandidate \/ CancelCandidate
  BY <1>6, PreviewFollows
<1>7. CASE ConfirmCandidate
  BY <1>7, ConfirmFollows
<1>8. CASE \/ OpenFullTrace
           \/ \E tab \in TraceTabs : ShowFullTrace(tab)
           \/ ReturnToInvestigation
  BY <1>8, TraceFollowsView
<1>9. CASE LoadTreePage
  BY <1>9, TreePageFollows
<1>10. CASE Retry
  BY <1>10, RetryFollows
<1>11. CASE AnswerGroup
  BY <1>11, AnswerGroupFollows
<1>12. CASE AnswerEvidence
  BY <1>12, AnswerEvidenceFollows
<1>13. CASE AnswerTrace
  BY <1>13, AnswerTraceFollows
<1>14. CASE UNCHANGED investigationVars
  BY <1>14 DEF investigationVars, InvestigationInv
<1> QED BY <1>1, <1>2, <1>3, <1>4, <1>5, <1>6, <1>7, <1>8, <1>9, <1>10, <1>11, <1>12, <1>13,
           <1>14 DEF InvestigationNext

(* In whatever order the answers arrive, fail or are superseded: the group *)
(* on display is that of the editor, the evidence is of that group, every  *)
(* page of the tree is of the trace that is named, and what is shown as    *)
(* loading has a request that will answer it.                              *)
THEOREM InvestigationStaysTrue == InvestigationSpec => []InvestigationIsTrue
<1>1. InvestigationInv => InvestigationIsTrue
  <2> SUFFICES ASSUME InvestigationInv PROVE InvestigationIsTrue
    OBVIOUS
  <2>1. /\ view \in Views /\ GroupFollows(view) /\ EvidenceFollows(view) /\ TraceFollows(view)
        /\ candidates \subseteq [group : FailureGroups, finding : Findings]
    BY DEF InvestigationInv, Follows
  <2>2. InvestigationTypeOK
    <3>1. /\ view.target \in MaybeGroup /\ view.group \in MaybeGroup
          /\ view.finding \in MaybeFinding /\ view.evidence \in MaybeFinding
          /\ view.preview \in MaybeFinding /\ view.occurrences \in Pages
      BY <2>1 DEF Views
    <3> QED BY <2>1, <3>1 DEF InvestigationTypeOK, MaybeGroup, MaybeFinding, Pages
  <2>3. GroupIsTheEditors
    BY <2>1 DEF GroupIsTheEditors, GroupFollows
  <2>4. EvidenceIsOfTheGroup
    BY <2>1 DEF EvidenceIsOfTheGroup, EvidenceFollows
  <2>5. TraceIsTheNamed /\ LoadingIsUnderWay
    BY <2>1 DEF TraceIsTheNamed, LoadingIsUnderWay, GroupFollows, EvidenceFollows, TraceFollows
  <2> QED BY <2>2, <2>3, <2>4, <2>5 DEF InvestigationIsTrue
<1> QED BY InitInvestigation, InvestigationNextKeeps, <1>1, PTL DEF InvestigationSpec

(* Whatever was loading, failed or was superseded before, a candidate is   *)
(* made from the finding whose preview was confirmed, and filed under the  *)
(* group that finding is of, unless the example on display was known to be *)
(* one of another group.                                                   *)
THEOREM CandidatesStayFiled == InvestigationSpec => CandidatesAreFiled
<1> DEFINE Filed(c) == /\ c.finding = view.preview
                       /\ c.finding \in ToSet(Occurrences[c.group]) \/ view.missed
<1>1. ASSUME InvestigationInv, [InvestigationNext]_investigationVars
      PROVE  [\A c \in candidates' \ candidates : Filed(c)]_investigationVars
  <2>1. CASE ConfirmCandidate
    <3>1. SUFFICES ASSUME NEW c \in candidates' \ candidates PROVE Filed(c)
      OBVIOUS
    <3>2. c = [group |-> view.group, finding |-> view.finding]
      BY <2>1, <3>1 DEF ConfirmCandidate
    <3>3. /\ view.evidence # Blank /\ ~view.evidenceLoading /\ view.group # Blank
          /\ view.preview # Blank /\ view.finding # Blank
      BY <2>1 DEF ConfirmCandidate, OnEvidence
    <3>4. /\ view.preview = view.finding /\ view.finding = view.evidence
          /\ ~view.missed => view.evidence \in ToSet(Occurrences[view.group])
      BY <1>1, <3>3 DEF InvestigationInv, Follows, EvidenceFollows
    <3> QED BY <3>2, <3>4
  <2>2. CASE candidates' = candidates
    BY <2>2
  <2>3. ConfirmCandidate \/ candidates' = candidates
    BY <1>1 DEF InvestigationNext, investigationVars, ShowInvestigation, ShowInbox, SetQueryScope,
                SelectOccurrence, NavigateOccurrence, ReviewFinding, CreateCandidate,
                CancelCandidate, OpenFullTrace, ReturnToInvestigation, LoadTreePage,
                ShowFullTrace, Retry, DismissError, AnswerGroup, AnswerEvidence, AnswerTrace
  <2> QED BY <2>1, <2>2, <2>3
<1> QED BY InitInvestigation, InvestigationNextKeeps, <1>1, PTL
        DEF InvestigationSpec, CandidatesAreFiled

-----------------------------------------------------------------------------
(* The workbench.  Of a sequence, retaining some members is taking them in *)
(* the order of their places, in as many steps as one likes.               *)

(* The places of the tabs that stay, in their order.                       *)
CountTo(K, i) == Cardinality({j \in K : j <= i})
Placed(K) == [n \in 1..Cardinality(K) |-> CHOOSE i \in K : CountTo(K, i) = n]

LEMMA CountToGrows ==
  ASSUME NEW L \in Nat, NEW K \in SUBSET (1..L)
  PROVE  /\ IsFiniteSet(K) /\ Cardinality(K) \in Nat /\ Cardinality(K) <= L
         /\ \A i \in K : CountTo(K, i) \in 1..Cardinality(K)
         /\ \A i, k \in K : i < k => CountTo(K, i) < CountTo(K, k)
<1>1. IsFiniteSet(1..L) /\ Cardinality(1..L) = L
  <2>1. 1 \in Int /\ L \in Int
    OBVIOUS
  <2>2. IsFiniteSet(1..L) /\ Cardinality(1..L) = IF 1 > L THEN 0 ELSE L - 1 + 1
    BY <2>1, FS_Interval
  <2> QED  BY <2>2
<1>2. IsFiniteSet(K) /\ Cardinality(K) \in Nat /\ Cardinality(K) <= L
  BY <1>1, FS_Subset, FS_CardinalityType
<1>3. ASSUME NEW i \in K
      PROVE  CountTo(K, i) \in 1..Cardinality(K) /\ IsFiniteSet({j \in K : j <= i})
  <2> DEFINE B == {j \in K : j <= i}
  <2>1. IsFiniteSet(B) /\ Cardinality(B) <= Cardinality(K) /\ Cardinality(B) \in Nat
    BY <1>2, FS_Subset, FS_CardinalityType
  <2>2. i \in B
    OBVIOUS
  <2>3. Cardinality(B) # 0
    BY <2>1, <2>2, FS_EmptySet
  <2> HIDE DEF B
  <2> QED  BY <1>2, <2>1, <2>3 DEF CountTo, B
<1>4. ASSUME NEW i \in K, NEW k \in K, i < k PROVE CountTo(K, i) < CountTo(K, k)
  <2> DEFINE B == {j \in K : j <= i}
             C == {j \in K : j <= k}
  <2>0. \A j \in K : j \in Nat
    OBVIOUS
  <2>1. B \subseteq C /\ k \in C /\ k \notin B
    <3>1. \A j \in K : j <= i => j <= k
      BY <1>4, <2>0
    <3>2. k <= k /\ ~(k <= i)
      BY <1>4, <2>0
    <3> QED  BY <3>1, <3>2
  <2>2. IsFiniteSet(C) /\ IsFiniteSet(B) /\ Cardinality(B) \in Nat /\ Cardinality(C) \in Nat
    BY <1>3, FS_CardinalityType
  <2> HIDE DEF B, C
  <2>3. Cardinality(B) <= Cardinality(C) /\ Cardinality(B) # Cardinality(C)
    BY <2>1, <2>2, FS_Subset
  <2>4. Cardinality(B) < Cardinality(C)
    BY <2>2, <2>3
  <2> QED  BY <2>4 DEF CountTo, B, C
<1> QED  BY <1>2, <1>3, <1>4

LEMMA PlacedIs ==
  ASSUME NEW L \in Nat, NEW K \in SUBSET (1..L)
  PROVE  /\ Placed(K) \in [1..Cardinality(K) -> K]
         /\ \A n \in 1..Cardinality(K) : CountTo(K, Placed(K)[n]) = n
         /\ \A n, o \in 1..Cardinality(K) : n < o => Placed(K)[n] < Placed(K)[o]
         /\ \A i \in K : \E n \in 1..Cardinality(K) : Placed(K)[n] = i
<1> DEFINE m == Cardinality(K)
           c == [i \in K |-> CountTo(K, i)]
<1>1. /\ IsFiniteSet(K) /\ m \in Nat
      /\ \A i \in K : CountTo(K, i) \in 1..m
      /\ \A i, k \in K : i < k => CountTo(K, i) < CountTo(K, k)
  BY CountToGrows
<1>0. \A i \in K : i \in Nat
  OBVIOUS
<1>2. \A i, k \in K : CountTo(K, i) = CountTo(K, k) => i = k
  <2> SUFFICES ASSUME NEW i \in K, NEW k \in K, i # k PROVE CountTo(K, i) # CountTo(K, k)
    OBVIOUS
  <2>1. i < k \/ k < i
    OBVIOUS
  <2>2. CountTo(K, i) \in Nat /\ CountTo(K, k) \in Nat
    BY <1>1
  <2> QED  BY <1>1, <2>1, <2>2
<1>3. c \in Injection(K, 1..m)
  BY <1>1, <1>2 DEF Injection, IsInjective
<1>4. c \in Surjection(K, 1..m)
  <2>1. IsFiniteSet(1..m) /\ Cardinality(1..m) = m
    <3>1. 1 \in Int /\ m \in Int
      BY <1>1
    <3> HIDE DEF m
    <3>2. IsFiniteSet(1..m) /\ Cardinality(1..m) = IF 1 > m THEN 0 ELSE m - 1 + 1
      BY <3>1, FS_Interval
    <3> QED  BY <1>1, <3>2
  <2> HIDE DEF c
  <2>2. Cardinality(K) = Cardinality(1..m)
    BY <2>1
  <2> QED  BY <1>3, <2>1, <2>2, FS_Injection
<1>5. \A n \in 1..m : \E i \in K : CountTo(K, i) = n
  BY <1>4 DEF Surjection
<1>6. Placed(K) \in [1..m -> K] /\ \A n \in 1..m : CountTo(K, Placed(K)[n]) = n
  BY <1>5 DEF Placed
<1> DEFINE f == Placed(K)
<1> HIDE DEF m, f
<1>7. ASSUME NEW n \in 1..m, NEW o \in 1..m, n < o PROVE f[n] < f[o]
  <2>1. f[n] \in K /\ f[o] \in K /\ CountTo(K, f[n]) = n /\ CountTo(K, f[o]) = o
    BY <1>6 DEF f
  <2>2. f[n] # f[o]
    BY <1>7, <2>1
  <2>3. ~(f[o] < f[n])
    <3>1. n \in Nat /\ o \in Nat
      BY <1>1 DEF m
    <3>2. f[o] < f[n] => o < n
      BY <1>1, <2>1
    <3> QED  BY <1>7, <3>1, <3>2
  <2>4. f[n] \in Nat /\ f[o] \in Nat
    BY <1>0, <2>1
  <2> QED  BY <2>2, <2>3, <2>4
<1>8. ASSUME NEW i \in K PROVE \E n \in 1..m : f[n] = i
  <2>1. CountTo(K, i) \in 1..m
    BY <1>1
  <2>2. f[CountTo(K, i)] \in K /\ CountTo(K, f[CountTo(K, i)]) = CountTo(K, i)
    BY <1>6, <2>1 DEF f
  <2>3. f[CountTo(K, i)] = i
    BY <1>2, <2>2
  <2> QED  BY <2>1, <2>3
<1> QED  BY <1>6, <1>7, <1>8 DEF m, f

(* No other sequence names the places in their order.                      *)
LEMMA PlacedIsOnly ==
  ASSUME NEW L \in Nat, NEW K \in SUBSET (1..L), NEW m \in Nat, NEW g \in [1..m -> K],
         \A n, o \in 1..m : n < o => g[n] < g[o],
         \A i \in K : \E n \in 1..m : g[n] = i
  PROVE  m = Cardinality(K) /\ g = Placed(K)
<1>1. IsFiniteSet(1..m) /\ Cardinality(1..m) = m
  <2>1. 1 \in Int /\ m \in Int
    OBVIOUS
  <2>2. IsFiniteSet(1..m) /\ Cardinality(1..m) = IF 1 > m THEN 0 ELSE m - 1 + 1
    BY <2>1, FS_Interval
  <2> QED  BY <2>2
<1>2. \A n \in 1..m : g[n] \in 1..L
  OBVIOUS
<1>3. \A n, o \in 1..m : g[n] = g[o] => n = o
  BY <1>2
<1>4. m = Cardinality(K)
  <2>1. g \in Bijection(1..m, K)
    BY <1>3 DEF Bijection, Injection, Surjection, IsInjective
  <2>2. ExistsBijection(1..m, K)
    BY <2>1 DEF ExistsBijection
  <2> QED  BY <1>1, <2>2, FS_Bijection
<1>5. ASSUME NEW n \in 1..m PROVE CountTo(K, g[n]) = n
  <2> DEFINE B == {j \in K : j <= g[n]}
             h == [k \in 1..n |-> g[k]]
  <2>1. 1..n \subseteq 1..m /\ n \in Nat
    OBVIOUS
  <2>2. h \in [1..n -> B]
    <3>1. ASSUME NEW k \in 1..n PROVE g[k] \in K /\ g[k] <= g[n]
      <4>1. k = n \/ k < n
        OBVIOUS
      <4>2. k < n => g[k] < g[n]
        BY <2>1
      <4>3. g[k] \in 1..L /\ g[n] \in 1..L /\ g[k] \in K
        BY <1>2, <2>1
      <4> QED  BY <4>1, <4>2, <4>3
    <3> QED  BY <3>1
  <2>3. \A j \in B : \E k \in 1..n : h[k] = j
    <3> TAKE j \in B
    <3>1. PICK k \in 1..m : g[k] = j
      OBVIOUS
    <3>2. k <= n
      <4>1. ~(g[n] < g[k])
        <5>1. g[k] <= g[n] /\ g[k] \in 1..L /\ g[n] \in 1..L
          BY <1>2, <3>1
        <5> QED  BY <5>1
      <4> QED  BY <4>1
    <3>3. k \in 1..n
      BY <2>1, <3>2
    <3> QED  BY <3>1, <3>3
  <2>4. \A k, l \in 1..n : h[k] = h[l] => k = l
    BY <1>3, <2>1
  <2>5. h \in Bijection(1..n, B)
    <3> HIDE DEF h, B
    <3> QED  BY <2>2, <2>3, <2>4 DEF Bijection, Injection, Surjection, IsInjective
  <2>6. IsFiniteSet(1..n) /\ Cardinality(1..n) = n
    <3>1. 1 \in Int /\ n \in Int
      BY <2>1
    <3>2. IsFiniteSet(1..n) /\ Cardinality(1..n) = IF 1 > n THEN 0 ELSE n - 1 + 1
      BY <3>1, FS_Interval
    <3> QED  BY <2>1, <3>2
  <2>7. Cardinality(B) = n
    <3> HIDE DEF h, B
    <3>1. ExistsBijection(1..n, B)
      BY <2>5 DEF ExistsBijection
    <3> QED  BY <2>6, <3>1, FS_Bijection
  <2> QED  BY <2>7 DEF CountTo, B
<1>6. ASSUME NEW n \in 1..m PROVE g[n] = Placed(K)[n]
  <2> DEFINE p == Placed(K)[n]
  <2>0. \A i \in K : i \in Nat
    OBVIOUS
  <2>1. p \in K /\ CountTo(K, p) = n
    <3> HIDE DEF p
    <3>1. /\ Placed(K) \in [1..Cardinality(K) -> K]
          /\ \A o \in 1..Cardinality(K) : CountTo(K, Placed(K)[o]) = o
      BY PlacedIs
    <3> QED  BY <1>4, <3>1 DEF p
  <2>2. g[n] \in K /\ CountTo(K, g[n]) = n
    BY <1>5
  <2>3. \A i, k \in K : i < k => CountTo(K, i) < CountTo(K, k)
    BY CountToGrows
  <2> HIDE DEF p
  <2>4. ~(p < g[n]) /\ ~(g[n] < p)
    <3>1. n \in Nat
      OBVIOUS
    <3>2. p < g[n] => CountTo(K, p) < CountTo(K, g[n])
      BY <2>1, <2>2, <2>3
    <3>3. g[n] < p => CountTo(K, g[n]) < CountTo(K, p)
      BY <2>1, <2>2, <2>3
    <3> QED  BY <2>1, <2>2, <3>1, <3>2, <3>3
  <2>5. p \in Nat /\ g[n] \in Nat
    BY <2>0, <2>1, <2>2
  <2>6. p = g[n]
    BY <2>4, <2>5
  <2> QED  BY <2>6 DEF p
<1>7. Placed(K) \in [1..m -> K]
  BY <1>4, PlacedIs
<1> QED  BY <1>4, <1>6, <1>7

Places(s, S) == {i \in DOMAIN s : s[i] \in S}

LEMMA RetainedIs ==
  ASSUME NEW T, NEW s \in Seq(T), NEW S
  PROVE  /\ Retained(s, S) = [n \in 1..Cardinality(Places(s, S)) |-> s[Placed(Places(s, S))[n]]]
         /\ Len(s) \in Nat /\ Places(s, S) \in SUBSET (1..Len(s))
         /\ Retained(s, S) \in Seq(T) /\ Len(Retained(s, S)) = Cardinality(Places(s, S))
         /\ Len(Retained(s, S)) \in Nat /\ Len(Retained(s, S)) <= Len(s)
         /\ DOMAIN Retained(s, S) = 1..Cardinality(Places(s, S))
<1> DEFINE K == Places(s, S)
           m == Cardinality(K)
           a == Retained(s, S)
<1>1. Len(s) \in Nat /\ DOMAIN s = 1..Len(s) /\ \A i \in 1..Len(s) : s[i] \in T
  OBVIOUS
<1>2. K \in SUBSET (1..Len(s))
  BY <1>1 DEF Places
<1>3. a = [n \in 1..m |-> s[Placed(K)[n]]]
  BY DEF Retained, Places, Placed, CountTo
<1> HIDE DEF K, a
<1>4. m \in Nat /\ m <= Len(s) /\ Placed(K) \in [1..m -> K]
  BY <1>1, <1>2, CountToGrows, PlacedIs
<1>5. \A n \in 1..m : a[n] \in T
  BY <1>1, <1>2, <1>3, <1>4
<1>6. DOMAIN a = 1..m /\ a = [n \in 1..m |-> a[n]]
  BY <1>3
<1> HIDE DEF m
<1>7. a \in Seq(T)
  BY <1>4, <1>5, <1>6, IsASeq
<1>8. Len(a) = m
  <2>1. DOMAIN a = 1..Len(a) /\ Len(a) \in Nat
    BY <1>7
  <2> QED  BY <1>4, <1>6, <2>1
<1> QED  BY <1>1, <1>2, <1>3, <1>4, <1>6, <1>7, <1>8 DEF K, m, a

(* What is retained of a sequence, each member at a place of its own.      *)
LEMMA RetainedHas ==
  ASSUME NEW T, NEW s \in Seq(T), NEW S
  PROVE  LET a == Retained(s, S)
         IN  /\ \A n \in DOMAIN a : \E i \in DOMAIN s : a[n] = s[i] /\ s[i] \in S
             /\ \A i \in DOMAIN s : s[i] \in S => \E n \in DOMAIN a : a[n] = s[i]
             /\ \A n, o \in DOMAIN a : n # o =>
                  \E i, j \in DOMAIN s : i # j /\ a[n] = s[i] /\ a[o] = s[j]
<1> DEFINE K == Places(s, S)
           m == Cardinality(K)
           a == Retained(s, S)
           p == Placed(K)
<1>1. /\ a = [n \in 1..m |-> s[p[n]]] /\ K \in SUBSET (1..Len(s)) /\ Len(s) \in Nat
      /\ DOMAIN a = 1..m
  BY RetainedIs
<1>2. \A i : i \in K <=> i \in DOMAIN s /\ s[i] \in S
  BY DEF Places
<1> HIDE DEF K
<1>3. /\ p \in [1..m -> K]
      /\ \A n, o \in 1..m : n < o => p[n] < p[o]
      /\ \A i \in K : \E n \in 1..m : p[n] = i
  BY <1>1, PlacedIs
<1>4. m \in Nat
  BY <1>1, CountToGrows
<1> HIDE DEF m, p, a
<1>5. ASSUME NEW n \in 1..m, NEW o \in 1..m, n # o PROVE p[n] # p[o]
  <2>1. p[n] \in 1..Len(s) /\ p[o] \in 1..Len(s)
    BY <1>1, <1>3
  <2>2. n < o \/ o < n
    BY <1>4, <1>5
  <2> QED  BY <1>1, <1>3, <2>1, <2>2
<1> QED  BY <1>1, <1>2, <1>3, <1>5 DEF a

-----------------------------------------------------------------------------
(* Tabs.                                                                   *)

Shown(s) == {s[i].resource : i \in DOMAIN s}
OneEach(s) == \A i, j \in DOMAIN s : s[i].resource = s[j].resource => i = j
WellFormed(s) == s \in Seq(Tabs) /\ OneEach(s)

LEMMA TabIs ==
  /\ \A r \in Resources, pin \in BOOLEAN :
       Tab(r, pin) \in Tabs /\ Tab(r, pin).resource = r /\ Tab(r, pin).pinned = pin
  /\ \A t \in Tabs : t.resource \in Resources /\ t.pinned \in BOOLEAN
BY DEF Tab, Tabs

LEMMA TabsOf ==
  ASSUME NEW s \in Seq(Tabs)
  PROVE  /\ Len(s) \in Nat /\ DOMAIN s = 1..Len(s) /\ \A i \in DOMAIN s : s[i] \in Tabs
         /\ Shown(s) \subseteq Resources
         /\ Shown(s) = {} <=> s = <<>>
<1>1. Len(s) \in Nat /\ DOMAIN s = 1..Len(s) /\ \A i \in DOMAIN s : s[i] \in Tabs
  OBVIOUS
<1>2. Shown(s) \subseteq Resources
  BY <1>1, TabIs DEF Shown
<1>3. s = <<>> => Shown(s) = {}
  BY DEF Shown
<1>4. ASSUME s # <<>> PROVE Shown(s) # {}
  <2>1. Len(s) # 0
    BY <1>4, EmptySeq
  <2>2. 1 \in DOMAIN s
    BY <1>1, <2>1
  <2> QED  BY <2>2 DEF Shown
<1> QED  BY <1>1, <1>2, <1>3, <1>4

(* Each resource once: as many resources as tabs.                          *)
LEMMA OneEachCounts ==
  ASSUME NEW s \in Seq(Tabs), OneEach(s)
  PROVE  Cardinality(Shown(s)) = Len(s)
<1> DEFINE n == Len(s)
           f == [i \in 1..n |-> s[i].resource]
<1>1. n \in Nat /\ DOMAIN s = 1..n
  OBVIOUS
<1>2. f \in Bijection(1..n, Shown(s))
  BY <1>1 DEF OneEach, Shown, Bijection, Injection, Surjection, IsInjective
<1>3. ExistsBijection(1..n, Shown(s))
  <2> HIDE DEF f, n
  <2> QED  BY <1>2 DEF ExistsBijection
<1>4. IsFiniteSet(1..n) /\ Cardinality(1..n) = n
  <2>1. 1 \in Int /\ n \in Int
    BY <1>1
  <2> HIDE DEF n
  <2>2. IsFiniteSet(1..n) /\ Cardinality(1..n) = IF 1 > n THEN 0 ELSE n - 1 + 1
    BY <2>1, FS_Interval
  <2> QED  BY <1>1, <2>2
<1> HIDE DEF n
<1>5. Cardinality(Shown(s)) = n
  BY <1>3, <1>4, FS_Bijection
<1> QED  BY <1>5 DEF n

LEMMA RetainedKeeps ==
  ASSUME NEW s, WellFormed(s), NEW S
  PROVE  /\ WellFormed(Retained(s, S)) /\ Len(Retained(s, S)) <= Len(s)
         /\ \A r : r \in Shown(Retained(s, S)) <=>
                     \E i \in DOMAIN s : s[i].resource = r /\ s[i] \in S
         /\ \A n \in DOMAIN Retained(s, S) : Retained(s, S)[n] \in S
<1> DEFINE a == Retained(s, S)
<1>1. s \in Seq(Tabs) /\ OneEach(s)
  BY DEF WellFormed
<1>2. a \in Seq(Tabs) /\ Len(a) <= Len(s)
  BY <1>1, RetainedIs
<1>3. /\ \A n \in DOMAIN a : \E i \in DOMAIN s : a[n] = s[i] /\ s[i] \in S
      /\ \A i \in DOMAIN s : s[i] \in S => \E n \in DOMAIN a : a[n] = s[i]
      /\ \A n, o \in DOMAIN a : n # o =>
           \E i, j \in DOMAIN s : i # j /\ a[n] = s[i] /\ a[o] = s[j]
  BY <1>1, RetainedHas
<1> HIDE DEF a
<1>4. ASSUME NEW n \in DOMAIN a, NEW o \in DOMAIN a, a[n].resource = a[o].resource
      PROVE  n = o
  <2> SUFFICES ASSUME n # o PROVE FALSE
    OBVIOUS
  <2>1. PICK i \in DOMAIN s, j \in DOMAIN s : i # j /\ a[n] = s[i] /\ a[o] = s[j]
    BY <1>3
  <2>2. s[i].resource = s[j].resource
    BY <1>4, <2>1
  <2> QED  BY <1>1, <2>1, <2>2 DEF OneEach
<1>6. \A r : r \in Shown(a) <=> \E i \in DOMAIN s : s[i].resource = r /\ s[i] \in S
  BY <1>3 DEF Shown
<1>7. \A n \in DOMAIN a : a[n] \in S
  BY <1>3
<1>8. OneEach(a)
  BY <1>4 DEF OneEach
<1> QED  BY <1>2, <1>6, <1>7, <1>8 DEF WellFormed, a

LEMMA AppendKeeps ==
  ASSUME NEW s, WellFormed(s), NEW t \in Tabs, t.resource \notin Shown(s)
  PROVE  /\ WellFormed(Append(s, t)) /\ Shown(Append(s, t)) = Shown(s) \cup {t.resource}
         /\ Len(Append(s, t)) = Len(s) + 1 /\ Append(s, t) # <<>>
<1> DEFINE a == Append(s, t)
<1>1. s \in Seq(Tabs) /\ OneEach(s)
  BY DEF WellFormed
<1>2. /\ a \in Seq(Tabs) /\ Len(a) = Len(s) + 1 /\ Len(s) \in Nat
      /\ \A i \in 1..Len(s) : a[i] = s[i]
      /\ a[Len(s) + 1] = t
      /\ DOMAIN s = 1..Len(s) /\ DOMAIN a = 1 .. Len(s) + 1
  BY <1>1, AppendProperties
<1> HIDE DEF a
<1>3. DOMAIN a = DOMAIN s \cup {Len(s) + 1} /\ Len(s) + 1 \notin DOMAIN s
  BY <1>2
<1>4. \A i \in DOMAIN a :
        \/ i \in DOMAIN s /\ a[i] = s[i]
        \/ i = Len(s) + 1 /\ a[i] = t
  <2> TAKE i \in DOMAIN a
  <2>1. CASE i \in DOMAIN s
    BY <1>2, <2>1
  <2>2. CASE i = Len(s) + 1
    BY <1>2, <2>2
  <2> QED  BY <1>3, <2>1, <2>2
<1>5. \A i \in DOMAIN s : s[i].resource # t.resource
  BY DEF Shown
<1>6. OneEach(a)
  BY <1>1, <1>4, <1>5 DEF OneEach
<1>8. Shown(a) = Shown(s) \cup {t.resource}
  <2>1. \A r \in Shown(a) : r \in Shown(s) \cup {t.resource}
    BY <1>4 DEF Shown
  <2>2. \A i \in DOMAIN s : s[i].resource \in Shown(a)
    BY <1>2, <1>3 DEF Shown
  <2>3. t.resource \in Shown(a)
    BY <1>2, <1>3 DEF Shown
  <2> QED  BY <2>1, <2>2, <2>3 DEF Shown
<1>9. a # <<>>
  <2>1. Len(a) # 0
    BY <1>2
  <2> QED  BY <2>1
<1> QED  BY <1>2, <1>6, <1>8, <1>9 DEF WellFormed, a

LEMMA ReplaceKeeps ==
  ASSUME NEW s, WellFormed(s), NEW k \in DOMAIN s, NEW t \in Tabs, t.resource \notin Shown(s)
  PROVE  /\ WellFormed([s EXCEPT ![k] = t]) /\ t.resource \in Shown([s EXCEPT ![k] = t])
         /\ [s EXCEPT ![k] = t] # <<>>
<1> DEFINE a == [s EXCEPT ![k] = t]
<1>1. s \in Seq(Tabs) /\ OneEach(s)
  BY DEF WellFormed
<1>2. a \in Seq(Tabs) /\ DOMAIN a = DOMAIN s
      /\ \A i \in DOMAIN s : a[i] = IF i = k THEN t ELSE s[i]
  BY <1>1, ExceptSeq
<1> HIDE DEF a
<1>3. \A i \in DOMAIN s : s[i].resource # t.resource
  BY DEF Shown
<1>4. OneEach(a)
  BY <1>1, <1>2, <1>3 DEF OneEach
<1>6. t.resource \in Shown(a)
  BY <1>2 DEF Shown
<1>7. a # <<>>
  BY <1>2, <1>6 DEF Shown
<1> QED  BY <1>2, <1>4, <1>6, <1>7 DEF WellFormed, a

(* Only the pins change.                                                   *)
LEMMA PinsKeep ==
  ASSUME NEW s, WellFormed(s), NEW a, DOMAIN a = DOMAIN s, a = [i \in DOMAIN s |-> a[i]],
         \A i \in DOMAIN s : a[i] \in Tabs /\ a[i].resource = s[i].resource
  PROVE  WellFormed(a) /\ Shown(a) = Shown(s) /\ Len(a) = Len(s)
<1>1. s \in Seq(Tabs) /\ OneEach(s)
  BY DEF WellFormed
<1>2. Len(s) \in Nat /\ DOMAIN s = 1..Len(s)
  BY <1>1
<1>3. a \in Seq(Tabs)
  <2>1. a = [i \in 1..Len(s) |-> a[i]] /\ \A i \in 1..Len(s) : a[i] \in Tabs
    BY <1>2
  <2> QED  BY <1>2, <2>1, IsASeq
<1>4. OneEach(a)
  BY <1>1 DEF OneEach
<1>5. Shown(a) = Shown(s)
  BY DEF Shown
<1>7. Len(a) = Len(s)
  <2>1. Len(a) \in Nat /\ DOMAIN a = 1..Len(a)
    BY <1>3
  <2> QED  BY <1>2, <2>1
<1> QED  BY <1>3, <1>4, <1>5, <1>7 DEF WellFormed

-----------------------------------------------------------------------------
(* States of the workbench.                                                *)

(* One tab for each resource; and one of them is active, unless all are    *)
(* closed.                                                                 *)
Holds(w) == w \in States /\ WellFormed(w.editors)
Good(w) ==
  Holds(w) /\ (w.active \in Shown(w.editors) \/ (w.active = Nobody /\ w.editors = <<>>))

LEMMA HoldsOf ==
  ASSUME NEW w, Holds(w)
  PROVE  /\ w.editors \in Seq(Tabs) /\ WellFormed(w.editors) /\ Open(w) = Shown(w.editors)
         /\ w.scope \in Owners \cup {AllProjects} /\ w.active \in Resources \cup {Nobody}
         /\ w.activity \in Activities /\ w.contexts \in [Owners -> {Nobody} \cup Contexts]
         /\ Open(w) \subseteq Resources
<1>1. w \in States /\ w.scope \in Owners \cup {AllProjects} /\ WellFormed(w.editors)
  BY DEF Holds, States
<1>2. w.editors \in Seq(Tabs)
  BY <1>1 DEF WellFormed
<1>3. Open(w) = Shown(w.editors)
  BY DEF Open, Shown
<1>4. Shown(w.editors) \subseteq Resources
  BY <1>2, TabsOf
<1> QED  BY <1>1, <1>2, <1>3, <1>4 DEF States

LEMMA EditorsChange ==
  ASSUME NEW w, Holds(w), NEW s, WellFormed(s)
  PROVE  /\ Holds([w EXCEPT !.editors = s])
         /\ [w EXCEPT !.editors = s].editors = s
         /\ [w EXCEPT !.editors = s].scope = w.scope
         /\ [w EXCEPT !.editors = s].active = w.active
         /\ [w EXCEPT !.editors = s].contexts = w.contexts
<1>1. w \in States /\ w.scope \in Owners \cup {AllProjects}
  BY DEF Holds, States
<1>2. s \in Seq(Tabs)
  BY DEF WellFormed
<1> DEFINE v == [w EXCEPT !.editors = s]
<1>3. v \in States /\ v.editors = s /\ v.scope = w.scope /\ v.active = w.active
      /\ v.contexts = w.contexts
  BY <1>1, <1>2 DEF States
<1> HIDE DEF v
<1>4. Holds(v)
  BY <1>1, <1>3 DEF Holds
<1> QED  BY <1>3, <1>4 DEF v

LEMMA ActivatedIs ==
  ASSUME NEW w, Holds(w), NEW r \in Open(w)
  PROVE  /\ Good(Activated(w, r)) /\ Activated(w, r).active = r
         /\ Activated(w, r).scope = w.scope /\ Activated(w, r).editors = w.editors
<1> DEFINE v == [w EXCEPT !.active = r, !.activity = Activity[r]]
<1>1. Activated(w, r) = v
  BY DEF Activated
<1>2. w \in States /\ w.scope \in Owners \cup {AllProjects} /\ WellFormed(w.editors)
  BY DEF Holds, States
<1>3. r \in Resources /\ Activity[r] \in Activities /\ r \in Shown(w.editors)
  BY HoldsOf DEF Activities
<1>4. v \in States /\ v.editors = w.editors /\ v.scope = w.scope /\ v.active = r
  BY <1>2, <1>3 DEF States
<1> HIDE DEF v
<1>5. Good(v)
  BY <1>2, <1>3, <1>4 DEF Good, Holds
<1> QED  BY <1>1, <1>4, <1>5

(* The place of a tab, if there is one.                                    *)
LEMMA FirstPlace ==
  ASSUME NEW I \in SUBSET Nat, I # {}
  PROVE  Min(I) \in I
<1>1. \E x \in I : \A y \in I : x <= y
  BY LeastElement
<1> QED  BY <1>1 DEF Min

-----------------------------------------------------------------------------
(* What actions make of a state.                                           *)

LEMMA OpenedIs ==
  ASSUME NEW w, Good(w), NEW r \in Resources, NEW pin \in BOOLEAN
  PROVE  Good(Opened(w, r, pin)) /\ Opened(w, r, pin).active = r
         /\ Opened(w, r, pin).scope = w.scope
<1> DEFINE s == w.editors
           Is(t) == t.resource = r
           Preview(t) == ~t.pinned
           k == Position(w, Is)
           p == Position(w, Preview)
           tabs == IF r \in Open(w) THEN [s EXCEPT ![k].pinned = @ \/ pin]
                   ELSE IF ~pin /\ p # 0 THEN [s EXCEPT ![p] = Tab(r, FALSE)]
                   ELSE Append(s, Tab(r, pin))
<1>1. Opened(w, r, pin) = Activated([w EXCEPT !.editors = tabs], r)
  BY DEF Opened
<1>2. Holds(w) /\ WellFormed(s) /\ s \in Seq(Tabs) /\ Open(w) = Shown(s)
  BY HoldsOf DEF Good
<1>3. Len(s) \in Nat /\ DOMAIN s = 1..Len(s) /\ \A i \in DOMAIN s : s[i] \in Tabs
  BY <1>2, TabsOf
<1>4. WellFormed(tabs) /\ r \in Shown(tabs)
  <2>1. CASE r \in Open(w)
    <3> DEFINE I == {i \in 1..Len(s) : s[i].resource = r}
               a == [s EXCEPT ![k].pinned = @ \/ pin]
    <3>1. I \in SUBSET Nat /\ I # {}
      BY <1>2, <1>3, <2>1 DEF Shown
    <3>2. k = Min(I)
      BY <3>1 DEF Position, SelectInSeq
    <3> HIDE DEF I
    <3>3. k \in I
      BY <3>1, <3>2, FirstPlace
    <3>4. k \in DOMAIN s
      BY <1>3, <3>3 DEF I
    <3> HIDE DEF k
    <3>5. /\ DOMAIN a = DOMAIN s /\ a = [i \in DOMAIN s |-> a[i]]
          /\ \A i \in DOMAIN s : a[i] = IF i = k THEN [s[k] EXCEPT !.pinned = @ \/ pin] ELSE s[i]
      BY <1>3, <3>4
    <3>6. [s[k] EXCEPT !.pinned = @ \/ pin] \in Tabs
          /\ [s[k] EXCEPT !.pinned = @ \/ pin].resource = s[k].resource
      <4>1. s[k] \in Tabs
        BY <1>3, <3>4
      <4> QED  BY <4>1 DEF Tabs
    <3> HIDE DEF a, s
    <3>7. \A i \in DOMAIN s : a[i] \in Tabs /\ a[i].resource = s[i].resource
      BY <1>3, <3>5, <3>6
    <3>8. WellFormed(a) /\ Shown(a) = Shown(s)
      BY <1>2, <3>5, <3>7, PinsKeep
    <3>9. tabs = a
      BY <2>1 DEF a, s, k
    <3> QED  BY <1>2, <2>1, <3>8, <3>9
  <2>2. CASE r \notin Open(w) /\ ~pin /\ p # 0
    <3> DEFINE I == {i \in 1..Len(s) : ~s[i].pinned}
    <3>1. p = IF I # {} THEN Min(I) ELSE 0
      BY DEF Position, SelectInSeq
    <3>2. I \in SUBSET Nat
      BY <1>3
    <3>3. I # {} /\ p = Min(I)
      BY <2>2, <3>1
    <3> HIDE DEF I
    <3>4. p \in I
      BY <3>2, <3>3, FirstPlace
    <3>5. p \in DOMAIN s
      BY <1>3, <3>4 DEF I
    <3>6. Tab(r, FALSE) \in Tabs /\ Tab(r, FALSE).resource = r
      BY TabIs
    <3>7. tabs = [s EXCEPT ![p] = Tab(r, FALSE)]
      BY <2>2
    <3> DEFINE t == Tab(r, FALSE)
    <3>8. t \in Tabs /\ t.resource \notin Shown(s) /\ t.resource = r
      BY <1>2, <2>2, <3>6
    <3> HIDE DEF p, s, t, tabs
    <3>9. WellFormed([s EXCEPT ![p] = t]) /\ t.resource \in Shown([s EXCEPT ![p] = t])
      BY <1>2, <3>5, <3>8, ReplaceKeeps
    <3>10. tabs = [s EXCEPT ![p] = t]
      BY <3>7 DEF t
    <3> QED  BY <3>8, <3>9, <3>10
  <2>3. CASE r \notin Open(w) /\ ~(~pin /\ p # 0)
    <3>1. Tab(r, pin) \in Tabs /\ Tab(r, pin).resource = r
      BY TabIs
    <3>2. tabs = Append(s, Tab(r, pin))
      BY <2>3
    <3> HIDE DEF p, tabs, s
    <3> QED  BY <1>2, <2>3, <3>1, <3>2, AppendKeeps
  <2> QED  BY <2>1, <2>2, <2>3
<1> HIDE DEF tabs
<1> DEFINE v == [w EXCEPT !.editors = tabs]
<1>5. Holds(v) /\ v.editors = tabs /\ v.scope = w.scope
  BY <1>2, <1>4, EditorsChange
<1> HIDE DEF v
<1>6. r \in Open(v)
  BY <1>4, <1>5, HoldsOf
<1>7. Opened(w, r, pin) = Activated(v, r)
  BY <1>1 DEF v
<1>8. /\ Good(Activated(v, r)) /\ Activated(v, r).active = r
      /\ Activated(v, r).scope = v.scope /\ Activated(v, r).editors = v.editors
  BY <1>5, <1>6, ActivatedIs
<1> QED  BY <1>5, <1>7, <1>8

LEMMA PinnedIs ==
  ASSUME NEW w, Good(w), NEW r \in Resources
  PROVE  Good(Pinned(w, r)) /\ Pinned(w, r).active = w.active /\ Pinned(w, r).scope = w.scope
<1> DEFINE s == w.editors
           a == [i \in DOMAIN s |-> IF s[i].resource = r THEN Tab(r, TRUE) ELSE s[i]]
           v == [w EXCEPT !.editors = a]
<1>1. Holds(w) /\ WellFormed(s) /\ s \in Seq(Tabs)
  BY HoldsOf DEF Good
<1>2. Pinned(w, r) = v
  <2>1. w \in States
    BY <1>1 DEF Holds
  <2> QED  BY <2>1 DEF Pinned, States
<1>3. /\ DOMAIN a = DOMAIN s /\ a = [i \in DOMAIN s |-> a[i]]
      /\ \A i \in DOMAIN s : a[i] \in Tabs /\ a[i].resource = s[i].resource
  <2>1. \A i \in DOMAIN s : s[i] \in Tabs
    BY <1>1, TabsOf
  <2> HIDE DEF s
  <2> QED  BY <2>1, TabIs
<1> HIDE DEF a, s
<1>4. WellFormed(a) /\ Shown(a) = Shown(s) /\ Len(a) = Len(s)
  BY <1>1, <1>3, PinsKeep
<1>5. Holds(v) /\ v.editors = a /\ v.scope = w.scope /\ v.active = w.active
  BY <1>1, <1>4, EditorsChange
<1>6. s = <<>> => a = <<>>
  BY <1>3
<1>7. Good(v)
  BY <1>4, <1>5, <1>6 DEF Good, s
<1> HIDE DEF v
<1> QED  BY <1>2, <1>5, <1>7

LEMMA UnpinnedIs ==
  ASSUME NEW w, Good(w), NEW r \in Open(w)
  PROVE  Good(Unpinned(w, r)) /\ Unpinned(w, r).active = r /\ Unpinned(w, r).scope = w.scope
<1> DEFINE s == w.editors
           S == {t \in ToSet(s) : t.resource = r \/ t.pinned}
           tabs == Retained(s, S)
           a == [i \in DOMAIN tabs |-> IF tabs[i].resource = r THEN Tab(r, FALSE) ELSE tabs[i]]
           v == [w EXCEPT !.editors = a]
<1>1. Unpinned(w, r) = Activated(v, r)
  BY DEF Unpinned
<1>2. Holds(w) /\ WellFormed(s) /\ r \in Shown(s) /\ r \in Resources
  BY HoldsOf DEF Good
<1>3. \E i \in DOMAIN s : s[i].resource = r /\ s[i] \in S
  BY <1>2 DEF Shown, ToSet
<1> HIDE DEF S, s
<1>4. WellFormed(tabs) /\ r \in Shown(tabs)
  BY <1>2, <1>3, RetainedKeeps
<1> HIDE DEF tabs
<1>5. /\ DOMAIN a = DOMAIN tabs /\ a = [i \in DOMAIN tabs |-> a[i]]
      /\ \A i \in DOMAIN tabs : a[i] \in Tabs /\ a[i].resource = tabs[i].resource
  <2>1. \A i \in DOMAIN tabs : tabs[i] \in Tabs
    BY <1>4 DEF WellFormed
  <2> QED  BY <1>2, <2>1, TabIs
<1> HIDE DEF a
<1>6. WellFormed(a) /\ r \in Shown(a)
  BY <1>4, <1>5, PinsKeep
<1>7. Holds(v) /\ v.editors = a /\ v.scope = w.scope
  BY <1>2, <1>6, EditorsChange
<1> HIDE DEF v
<1>8. r \in Open(v)
  BY <1>6, <1>7, HoldsOf
<1> QED  BY <1>1, <1>7, <1>8, ActivatedIs

LEMMA LastOfIs ==
  ASSUME NEW s, WellFormed(s)
  PROVE  /\ s = <<>> => LastOf(s) = Nobody
         /\ s # <<>> => LastOf(s) \in Shown(s) /\ LastOf(s) \in Resources
<1>1. s \in Seq(Tabs) /\ Len(s) \in Nat /\ DOMAIN s = 1..Len(s) /\ Shown(s) \subseteq Resources
  BY TabsOf DEF WellFormed
<1>2. ASSUME s # <<>> PROVE LastOf(s) \in Shown(s)
  <2>1. Len(s) # 0
    BY <1>1, <1>2, EmptySeq
  <2>2. Len(s) \in DOMAIN s
    BY <1>1, <2>1
  <2>3. LastOf(s) = s[Len(s)].resource
    BY <1>2 DEF LastOf, Last
  <2> QED  BY <2>2, <2>3 DEF Shown
<1>3. s = <<>> => LastOf(s) = Nobody
  BY DEF LastOf
<1>4. Shown(s) \subseteq Resources
  BY <1>1
<1> QED  BY ONLY <1>2, <1>3, <1>4

LEMMA WithoutIs ==
  ASSUME NEW w, Good(w), NEW r \in Open(w)
  PROVE  Good(Without(w, r)) /\ Without(w, r).scope = w.scope
<1> DEFINE s == w.editors
           S == Others(s, r)
           tabs == Retained(s, S)
           v == [w EXCEPT !.editors = tabs]
           active == IF w.active = r THEN LastOf(tabs) ELSE w.active
           x == [w EXCEPT !.editors = tabs, !.active = active]
<1>1. Holds(w) /\ WellFormed(s) /\ r \in Shown(s) /\ r \in Resources
      /\ w.active \in Resources \cup {Nobody}
  BY HoldsOf DEF Good
<1>2. w \in States
  BY <1>1 DEF Holds
<1>3. Without(w, r) = x
  BY <1>2 DEF Without, States
<1>4. \A i \in DOMAIN s : s[i] \in S <=> s[i].resource # r
  BY DEF Others, ToSet
<1> HIDE DEF S, s
<1>5. /\ WellFormed(tabs)
      /\ \A u : u \in Shown(tabs) <=> \E i \in DOMAIN s : s[i].resource = u /\ s[i] \in S
  BY <1>1, RetainedKeeps
<1> HIDE DEF tabs
<1>6. \A u : u \in Shown(tabs) <=> u \in Shown(s) /\ u # r
  <2>1. \A u : u \in Shown(s) <=> \E i \in DOMAIN s : s[i].resource = u
    BY DEF Shown
  <2> QED BY ONLY <1>4, <1>5, <2>1
<1>7. Holds(v) /\ v.editors = tabs /\ v.scope = w.scope
  BY <1>1, <1>5, EditorsChange
<1>8. w.active \in Shown(s)
  <2>1. s # <<>>
    BY <1>1 DEF Shown
  <2> QED  BY <2>1 DEF Good, s
<1>9. active \in Shown(tabs) \/ (active = Nobody /\ tabs = <<>>)
  BY <1>5, <1>6, <1>8, LastOfIs
<1>10. active \in Resources \cup {Nobody}
  BY <1>1, <1>5, LastOfIs
<1> HIDE DEF active
<1>11. v \in States /\ x = [v EXCEPT !.active = active]
  BY <1>2, <1>7 DEF Holds, States
<1> HIDE DEF v
<1>12. x \in States /\ x.editors = tabs /\ x.scope = w.scope /\ x.active = active
  BY <1>7, <1>10, <1>11 DEF States
<1> HIDE DEF x
<1>13. Good(x)
  BY <1>5, <1>7, <1>9, <1>12 DEF Good, Holds
<1> QED  BY <1>3, <1>12, <1>13

LEMMA RetainedNone ==
  ASSUME NEW T, NEW s \in Seq(T), NEW S, \A i \in DOMAIN s : s[i] \notin S
  PROVE  Retained(s, S) = <<>>
<1> DEFINE a == Retained(s, S)
<1>1. a \in Seq(T)
  BY RetainedIs
<1>2. \A n \in DOMAIN a : \E i \in DOMAIN s : a[n] = s[i] /\ s[i] \in S
  BY RetainedHas
<1> HIDE DEF a
<1>3. DOMAIN a = {}
  BY <1>2
<1>4. Len(a) \in Nat /\ DOMAIN a = 1..Len(a)
  BY <1>1
<1>5. Len(a) = 0
  BY <1>3, <1>4
<1> QED  BY <1>1, <1>5, EmptySeq DEF a

(* Retaining again what was retained, with other pins, and after one more  *)
(* tab.                                                                    *)
LEMMA RetainedTwice ==
  ASSUME NEW T, NEW s \in Seq(T), NEW S, NEW A, NEW B, NEW a \in Seq(T),
         DOMAIN a = DOMAIN Retained(s, S),
         \A n \in DOMAIN a : a[n] \in B <=> Retained(s, S)[n] \in A,
         \A n \in DOMAIN a : a[n] \in B => a[n] = Retained(s, S)[n],
         \A i \in DOMAIN s : s[i] \in A => s[i] \in S
  PROVE  Retained(a, B) = Retained(s, A)
<1> DEFINE K == Places(s, S)
           p == Placed(K)
           m == Cardinality(K)
           I == Places(a, B)
           q == Placed(I)
           l == Cardinality(I)
           J == Places(s, A)
           g == [n \in 1..l |-> p[q[n]]]
           stay == Retained(s, S)
<1>1. /\ stay = [n \in 1..m |-> s[p[n]]] /\ K \in SUBSET (1..Len(s)) /\ Len(s) \in Nat
      /\ DOMAIN stay = 1..m /\ DOMAIN s = 1..Len(s)
  BY RetainedIs
<1>2. Retained(a, B) = [n \in 1..l |-> a[q[n]]] /\ I \in SUBSET (1..Len(a)) /\ Len(a) \in Nat
  BY RetainedIs
<1>3. Retained(s, A) = [n \in 1..Cardinality(J) |-> s[Placed(J)[n]]] /\ J \in SUBSET (1..Len(s))
  BY RetainedIs
<1>4. /\ \A i : i \in K <=> i \in DOMAIN s /\ s[i] \in S
      /\ \A i : i \in I <=> i \in DOMAIN a /\ a[i] \in B
      /\ \A i : i \in J <=> i \in DOMAIN s /\ s[i] \in A
  BY DEF Places
<1>5. /\ p \in [1..m -> K]
      /\ \A n, o \in 1..m : n < o => p[n] < p[o]
      /\ \A i \in K : \E n \in 1..m : p[n] = i
  <2> HIDE DEF K
  <2> QED  BY <1>1, PlacedIs
<1>6. /\ q \in [1..l -> I] /\ l \in Nat
      /\ \A n, o \in 1..l : n < o => q[n] < q[o]
      /\ \A i \in I : \E n \in 1..l : q[n] = i
  <2> HIDE DEF I
  <2> QED  BY <1>2, PlacedIs, CountToGrows
<1> HIDE DEF K, p, m, I, q, l, J, stay
<1>7. \A n \in I : n \in 1..m /\ stay[n] = s[p[n]] /\ stay[n] \in A /\ a[n] = stay[n]
  BY <1>1, <1>4 DEF stay
<1>8. g \in [1..l -> J]
  <2>1. ASSUME NEW n \in 1..l PROVE p[q[n]] \in J
    <3>1. q[n] \in I
      BY <1>6
    <3>2. p[q[n]] \in K /\ s[p[q[n]]] \in A
      BY <1>5, <1>7, <3>1
    <3> QED  BY <1>4, <3>2
  <2> QED  BY <2>1
<1>9. ASSUME NEW n \in 1..l, NEW o \in 1..l, n < o PROVE g[n] < g[o]
  <2>1. q[n] \in 1..m /\ q[o] \in 1..m /\ q[n] < q[o]
    BY <1>6, <1>7, <1>9
  <2> QED  BY <1>5, <2>1
<1>10. ASSUME NEW i \in J PROVE \E n \in 1..l : g[n] = i
  <2>1. i \in K /\ s[i] \in A
    BY <1>4
  <2>2. PICK n \in 1..m : p[n] = i
    BY <1>5, <2>1
  <2>3. n \in DOMAIN a /\ stay[n] = s[i]
    BY <1>1, <2>2 DEF stay
  <2>4. n \in I
    BY <1>4, <2>1, <2>3 DEF stay
  <2>5. PICK o \in 1..l : q[o] = n
    BY <1>6, <2>4
  <2> QED  BY <2>2, <2>5
<1>11. \A n \in 1..l : g[n] = p[q[n]]
  OBVIOUS
<1> HIDE DEF g
<1>12. l = Cardinality(J) /\ g = Placed(J)
  BY <1>1, <1>3, <1>6, <1>8, <1>9, <1>10, PlacedIsOnly
<1>13. \A n \in 1..l : a[q[n]] = s[g[n]]
  <2> TAKE n \in 1..l
  <2>1. q[n] \in I
    BY <1>6
  <2> QED  BY <1>7, <1>11, <2>1
<1> QED  BY <1>2, <1>3, <1>12, <1>13

LEMMA RetainedAppend ==
  ASSUME NEW T, NEW s \in Seq(T), NEW x \in T, NEW A, NEW B, x \notin B,
         \A i \in DOMAIN s : s[i] \in B <=> s[i] \in A
  PROVE  Retained(Append(s, x), B) = Retained(s, A)
<1> DEFINE a == Append(s, x)
<1>1. /\ a \in Seq(T) /\ Len(s) \in Nat
      /\ \A i \in 1..Len(s) : a[i] = s[i]
      /\ a[Len(s) + 1] = x
      /\ DOMAIN s = 1..Len(s) /\ DOMAIN a = 1 .. Len(s) + 1
  BY AppendProperties
<1> HIDE DEF a
<1>2. DOMAIN a = DOMAIN s \cup {Len(s) + 1}
  BY <1>1
<1>3. ASSUME NEW i PROVE i \in Places(a, B) <=> i \in Places(s, A)
  <2>1. CASE i \in DOMAIN s
    <3>1. a[i] = s[i] /\ i \in DOMAIN a
      BY <1>1, <1>2, <2>1
    <3> QED  BY <2>1, <3>1 DEF Places
  <2>2. CASE i = Len(s) + 1
    <3>1. i \notin DOMAIN s /\ a[i] = x
      BY <1>1, <2>2
    <3> QED  BY <3>1 DEF Places
  <2>3. CASE i \notin DOMAIN a
    BY <1>2, <2>3 DEF Places
  <2> QED  BY <1>2, <2>1, <2>2, <2>3
<1>4. Places(a, B) = Places(s, A)
  BY <1>3
<1> DEFINE K == Places(s, A)
           m == Cardinality(K)
           p == Placed(K)
<1>5. /\ Retained(a, B) = [n \in 1..m |-> a[p[n]]]
      /\ Retained(s, A) = [n \in 1..m |-> s[p[n]]] /\ K \in SUBSET (1..Len(s))
  BY <1>1, <1>4, RetainedIs
<1>6. p \in [1..m -> K]
  <2> HIDE DEF K
  <2> QED  BY <1>1, <1>5, PlacedIs
<1> HIDE DEF K, m, p
<1>7. \A n \in 1..m : a[p[n]] = s[p[n]]
  BY <1>1, <1>5, <1>6
<1> QED  BY <1>5, <1>7 DEF a

-----------------------------------------------------------------------------
(* Changes of the project.                                                 *)

LEMMA InboxIs ==
  /\ FailureInbox \in Destinations /\ Welcome \in Destinations /\ Runs \in Destinations
  /\ Unsaved \subseteq Destinations
  /\ \A d \in Destinations : d \in Resources /\ d # Nobody /\ d \notin Artifacts
  /\ \A r \in Resources : r # Nobody
BY WorkbenchAssumption DEF Resources

(* Besides the tabs there were, the inbox may have got one.                *)
SameTabs(w, v) ==
  \/ v.editors = w.editors
  \/ FailureInbox \notin Open(w) /\ v.editors = Append(w.editors, Tab(FailureInbox, FALSE))

LEMMA WithInboxIs ==
  ASSUME NEW w, Holds(w)
  PROVE  /\ Good(WithInbox(w)) /\ WithInbox(w).active = FailureInbox
         /\ WithInbox(w).scope = w.scope /\ SameTabs(w, WithInbox(w))
<1> DEFINE r == FailureInbox
           tabs == Append(w.editors, Tab(r, FALSE))
           v == IF r \in Open(w) THEN w ELSE [w EXCEPT !.editors = tabs]
<1>1. WithInbox(w) = Activated(v, r)
  <2>1. w \in States
    BY DEF Holds
  <2> QED  BY <2>1 DEF WithInbox, States
<1>2. Holds(v) /\ v.scope = w.scope /\ r \in Open(v) /\ SameTabs(w, v)
  <2>1. CASE r \in Open(w)
    BY <2>1 DEF SameTabs
  <2>2. CASE r \notin Open(w)
    <3>1. WellFormed(w.editors) /\ Open(w) = Shown(w.editors)
      BY HoldsOf
    <3> DEFINE t == Tab(r, FALSE)
    <3>2. t \in Tabs /\ t.resource = r
      BY InboxIs, TabIs
    <3> HIDE DEF t
    <3>3. WellFormed(Append(w.editors, t)) /\ r \in Shown(Append(w.editors, t))
      BY <2>2, <3>1, <3>2, AppendKeeps
    <3>4. WellFormed(tabs) /\ r \in Shown(tabs)
      BY <3>3 DEF t
    <3> HIDE DEF tabs
    <3> DEFINE x == [w EXCEPT !.editors = tabs]
    <3>5. Holds(x) /\ x.editors = tabs /\ x.scope = w.scope
      BY <3>4, EditorsChange
    <3>6. v = x
      BY <2>2
    <3> HIDE DEF x, v
    <3>7. r \in Open(v)
      BY <3>4, <3>5, <3>6, HoldsOf
    <3> QED  BY <2>2, <3>5, <3>6, <3>7 DEF SameTabs, tabs
  <2> QED  BY <2>1, <2>2
<1> HIDE DEF v
<1>3. Good(Activated(v, r)) /\ Activated(v, r).active = r
      /\ Activated(v, r).scope = v.scope /\ Activated(v, r).editors = v.editors
  BY <1>2, ActivatedIs
<1> QED  BY <1>1, <1>2, <1>3 DEF SameTabs

LEMMA LeftIs ==
  ASSUME NEW w, Good(w), NEW s \in Owners \cup {AllProjects}
  PROVE  LET there == [Left(w) EXCEPT !.scope = s]
         IN  /\ Holds(there) /\ there.editors = w.editors /\ there.scope = s
             /\ there.active = w.active
<1> DEFINE l == Left(w)
           there == [l EXCEPT !.scope = s]
<1>1. w \in States /\ w.scope \in Owners \cup {AllProjects} /\ WellFormed(w.editors)
  BY DEF Good, Holds, States
<1>2. l \in States /\ l.editors = w.editors /\ l.active = w.active
  <2>1. CASE w.scope = AllProjects
    BY <1>1, <2>1 DEF Left
  <2>2. CASE w.scope # AllProjects
    <3> DEFINE c == [active |-> w.active, activity |-> w.activity]
               cs == [w.contexts EXCEPT ![w.scope] = c]
    <3>1. l = [w EXCEPT !.contexts = cs]
      BY <1>1, <2>2 DEF Left, States
    <3>2. c \in Contexts /\ w.scope \in Owners
      BY <1>1, <2>2 DEF Contexts, States
    <3>3. cs \in [Owners -> {Nobody} \cup Contexts]
      <4>1. w.contexts \in [Owners -> {Nobody} \cup Contexts]
        BY <1>1 DEF States
      <4> HIDE DEF c
      <4> QED  BY <3>2, <4>1
    <3> HIDE DEF cs, l
    <3> QED  BY <1>1, <3>1, <3>3 DEF States
  <2> QED  BY <2>1, <2>2
<1> HIDE DEF l
<1>3. s \in Owners \cup {AllProjects}
  OBVIOUS
<1>4. there \in States /\ there.editors = w.editors /\ there.scope = s /\ there.active = w.active
  BY <1>2, <1>3 DEF States
<1> HIDE DEF there
<1>5. Holds(there)
  BY <1>1, <1>4 DEF Holds
<1> QED  BY <1>4, <1>5 DEF there, l

LEMMA KeptOrInboxIs ==
  ASSUME NEW w, Holds(w)
  PROVE  /\ Good(KeptOrInbox(w)) /\ KeptOrInbox(w).active \in Destinations
         /\ KeptOrInbox(w).scope = w.scope /\ SameTabs(w, KeptOrInbox(w))
<1>1. CASE w.active \in Open(w) \cap Destinations
  <2>1. KeptOrInbox(w) = w
    BY <1>1 DEF KeptOrInbox
  <2>2. Good(w)
    BY <1>1, HoldsOf DEF Good
  <2> QED  BY <1>1, <2>1, <2>2 DEF SameTabs
<1>2. CASE w.active \notin Open(w) \cap Destinations
  <2>1. KeptOrInbox(w) = WithInbox(w)
    BY <1>2 DEF KeptOrInbox
  <2> QED  BY <2>1, WithInboxIs, InboxIs
<1> QED  BY <1>1, <1>2

(* A change of the project ends with an editor that is seen in it.         *)
LEMMA SwitchedIs ==
  ASSUME NEW w, Good(w), NEW s \in Owners \cup {AllProjects},
         s # w.scope
  PROVE  /\ Good(Switched(w, s)) /\ Switched(w, s).scope = s
         /\ Switched(w, s).active # Nobody /\ VisibleIn(s, Switched(w, s).active)
         /\ SameTabs(w, Switched(w, s))
<1> DEFINE there == [Left(w) EXCEPT !.scope = s]
           v == Switched(w, s)
<1>1. Holds(there) /\ there.editors = w.editors /\ there.scope = s
  BY LeftIs
<1>2. \A x : there.editors = w.editors /\ SameTabs(there, x) => SameTabs(w, x)
  BY DEF SameTabs, Open
<1>3. CASE s = AllProjects \/ w.contexts[s] = Nobody
  <2>1. v = KeptOrInbox(there)
    BY <1>3 DEF Switched
  <2> HIDE DEF there, v
  <2>2. /\ Good(v) /\ v.active \in Destinations /\ v.scope = s /\ SameTabs(w, v)
    BY <1>1, <1>2, <2>1, KeptOrInboxIs
  <2>3. v.active # Nobody /\ VisibleIn(s, v.active)
    BY <2>2, InboxIs DEF VisibleIn
  <2> QED  BY <2>2, <2>3 DEF v
<1>4. CASE ~(s = AllProjects \/ w.contexts[s] = Nobody)
  <2> DEFINE context == w.contexts[s]
             again == [there EXCEPT !.activity = context.activity]
             Similar(t) == Activity[t.resource] = context.activity
                           /\ VisibleIn(s, t.resource)
             i == Position(again, Similar)
  <2>1. v = IF context.active \in Available(again)
            THEN [again EXCEPT !.active = context.active]
            ELSE IF i # 0 THEN Activated(again, again.editors[i].resource)
            ELSE WithInbox(again)
    BY <1>4 DEF Switched
  <2>2. context \in Contexts
    <3>1. w.contexts \in [Owners -> {Nobody} \cup Contexts] /\ s \in Owners
      BY <1>4, HoldsOf DEF Good
    <3> QED  BY <1>4, <3>1
  <2>3. there \in States
    BY <1>1 DEF Holds
  <2>4. context.activity \in Activities
    <3> HIDE DEF context
    <3> QED  BY <2>2 DEF Contexts
  <2> HIDE DEF context, there, v
  <2>5. Holds(again) /\ again.editors = w.editors /\ again.scope = s
    <3>1. again \in States /\ again.editors = there.editors /\ again.scope = there.scope
      BY <2>3, <2>4 DEF States
    <3> HIDE DEF again
    <3> QED  BY <1>1, <3>1 DEF Holds
  <2>6. again.editors = w.editors => \A x : SameTabs(again, x) => SameTabs(w, x)
    <3> HIDE DEF again
    <3> QED  BY DEF SameTabs, Open
  <2>7. CASE context.active \in Available(again)
    <3> DEFINE a == context.active
               x == [again EXCEPT !.active = a]
    <3>1. a \in Open(again) /\ VisibleIn(s, a)
      <4> HIDE DEF again
      <4> QED  BY <2>5, <2>7 DEF Available
    <3>2. again \in States /\ a \in Resources /\ a \in Shown(again.editors) /\ a # Nobody
      <4> HIDE DEF again, a
      <4> QED  BY <2>5, <3>1, HoldsOf, InboxIs DEF Holds
    <3> HIDE DEF again, a
    <3>3. x \in States /\ x.editors = again.editors /\ x.scope = again.scope /\ x.active = a
      BY <3>2 DEF States
    <3>4. v = x
      BY <2>1, <2>7 DEF a
    <3> HIDE DEF x
    <3>5. Good(x)
      BY <2>5, <3>2, <3>3 DEF Good, Holds
    <3> QED  BY <2>5, <3>1, <3>2, <3>3, <3>4, <3>5 DEF SameTabs, v
  <2>8. CASE context.active \notin Available(again) /\ i # 0
    <3> DEFINE e == again.editors
               I == {k \in 1..Len(e) : Similar(e[k])}
    <3>1. i = IF I # {} THEN Min(I) ELSE 0
      BY DEF Position, SelectInSeq
    <3> HIDE DEF i
    <3>2. I \in SUBSET Nat
      <4>1. Len(e) \in Nat
        <5> HIDE DEF again
        <5> QED  BY <2>5, HoldsOf
      <4> HIDE DEF e
      <4> QED  BY <4>1
    <3>3. i \in I
      <4>1. I # {} /\ i = Min(I)
        BY <2>8, <3>1
      <4> HIDE DEF I
      <4> QED  BY <3>2, <4>1, FirstPlace
    <3>4. i \in 1..Len(e) /\ VisibleIn(s, e[i].resource)
      BY <3>3
    <3> HIDE DEF I, again
    <3>5. e[i].resource \in Open(again)
      <4>1. Len(e) \in Nat /\ DOMAIN e = 1..Len(e)
        BY <2>5, HoldsOf
      <4> QED  BY <3>4, <4>1 DEF Open
    <3> DEFINE r == e[i].resource
    <3>6. v = Activated(again, r)
      BY <2>1, <2>8
    <3>7. r \in Open(again) /\ VisibleIn(s, r)
      BY <3>4, <3>5
    <3> HIDE DEF r, e
    <3>8. /\ Good(v) /\ v.active = r /\ v.scope = again.scope /\ v.editors = again.editors
      BY <2>5, <3>6, <3>7, ActivatedIs
    <3>9. r # Nobody
      <4>1. r \in Resources
        BY <2>5, <3>7, HoldsOf
      <4> QED  BY <4>1, InboxIs
    <3> QED  BY <2>5, <3>7, <3>8, <3>9 DEF SameTabs, v
  <2>9. CASE context.active \notin Available(again) /\ i = 0
    <3>1. v = WithInbox(again)
      BY <2>1, <2>9
    <3> HIDE DEF again
    <3>2. /\ Good(v) /\ v.active = FailureInbox /\ v.scope = s /\ SameTabs(w, v)
      BY <2>5, <2>6, <3>1, WithInboxIs
    <3>3. v.active # Nobody /\ VisibleIn(s, v.active)
      BY <3>2, InboxIs DEF VisibleIn
    <3> QED  BY <3>2, <3>3 DEF v
  <2> QED  BY <2>7, <2>8, <2>9
<1> QED  BY <1>3, <1>4

-----------------------------------------------------------------------------
(* Starts of the application.                                              *)

LEMMA InitialIs ==
  ASSUME NEW first \in Destinations
  PROVE  LET w == WithInitialEditor(first)
         IN  /\ Good(w) /\ w.scope = AllProjects /\ w.active = first
             /\ ArtifactTabs(w.editors) = <<>>
<1> DEFINE t == Tab(first, FALSE)
           s == <<t>>
           cs == [p \in Owners |-> Nobody]
           w == WithInitialEditor(first)
<1>1. first \in Resources
  BY InboxIs
<1>2. t \in Tabs /\ t.resource = first
  BY <1>1, TabIs
<1> HIDE DEF t
<1>3. /\ s \in Seq(Tabs) /\ DOMAIN s = {1} /\ s[1] = t
  BY <1>2
<1> HIDE DEF s
<1>9. ArtifactTabs(s) = <<>>
  <2> DEFINE B == {u \in ToSet(s) : u.resource \in Artifacts}
  <2>1. first \notin Artifacts
    BY InboxIs
  <2>2. \A i \in DOMAIN s : s[i] \notin B
    BY <1>2, <1>3, <2>1
  <2>3. s \in Seq(Tabs)
    BY <1>3
  <2> HIDE DEF B
  <2>4. Retained(s, B) = <<>>
    BY <2>2, <2>3, RetainedNone
  <2> QED  BY <2>4 DEF ArtifactTabs, B
<1>4. WellFormed(s) /\ first \in Shown(s)
  BY <1>1, <1>2, <1>3 DEF WellFormed, OneEach, Shown
<1>5. cs \in [Owners -> {Nobody} \cup Contexts] /\ Activity[first] \in Activities
  BY <1>1 DEF Activities
<1>6. w = [scope |-> AllProjects, editors |-> s, active |-> first,
           activity |-> Activity[first], contexts |-> cs]
  BY DEF WithInitialEditor, s, t
<1> HIDE DEF cs
<1>7. w \in States /\ w.editors = s /\ w.scope = AllProjects /\ w.active = first
  BY <1>1, <1>3, <1>5, <1>6 DEF States
<1> HIDE DEF w
<1>8. Good(w)
  BY <1>4, <1>7 DEF Good, Holds
<1> QED  BY <1>7, <1>8, <1>9 DEF w

(* The scope of a state is one there is.                                   *)
InScope(w) == w.scope \in projects \cup {AllProjects}

LEMMA RestoredIs ==
  ASSUME NEW w, Good(w), InScope(w), projects \subseteq Owners, NEW first \in Destinations
  PROVE  LET v == Restored(w, first)
         IN  /\ Good(v) /\ v.active # Nobody
             /\ Lasting(w) = <<>> => v = WithInitialEditor(first)
             /\ Lasting(w) # <<>> =>
                  v.scope = w.scope /\ (Lasts(w, w.active) => v.active = w.active)
             /\ ArtifactTabs(v.editors) = LastingArtifacts(w)
<1> DEFINE s == w.editors
           S == {t \in ToSet(s) : Lasts(w, t.resource)}
           A == {t \in ToSet(s) : t.resource \in Artifacts /\ Lasts(w, t.resource)}
           stay == Retained(s, S)
           tabs == [i \in DOMAIN stay |->
                      IF stay[i].resource \in Destinations THEN Tab(stay[i].resource, FALSE)
                      ELSE stay[i]]
           open == {tabs[i].resource : i \in DOMAIN tabs}
           context(c) == IF c = Nobody \/ c.active \in open THEN c ELSE [c EXCEPT !.active = Nobody]
           scope == IF w.scope \in projects THEN w.scope ELSE AllProjects
           active == IF w.active \in open THEN w.active ELSE LastOf(tabs)
           cs == [p \in Owners |-> IF p \in projects THEN context(w.contexts[p]) ELSE Nobody]
           v == Restored(w, first)
<1>1. v = IF tabs = <<>> THEN WithInitialEditor(first)
          ELSE [scope |-> scope, editors |-> tabs, active |-> active,
                activity |-> Activity[active], contexts |-> cs]
  BY DEF Restored, Lasting
<1>0. Lasting(w) = stay /\ LastingArtifacts(w) = Retained(s, A)
  BY DEF Lasting, LastingArtifacts
<1>2. /\ s \in Seq(Tabs) /\ WellFormed(s) /\ w.scope \in projects \cup {AllProjects}
      /\ w.contexts \in [Owners -> {Nobody} \cup Contexts]
      /\ w.active \in Shown(s) \/ (w.active = Nobody /\ s = <<>>)
  BY HoldsOf DEF Good, InScope
<1>3. \A i \in DOMAIN s : /\ s[i] \in S <=> Lasts(w, s[i].resource)
                          /\ s[i] \in A => s[i] \in S
  BY <1>2 DEF ToSet
<1> HIDE DEF s, S, A
<1>4. /\ WellFormed(stay) /\ \A r : r \in Shown(stay) <=>
                               \E i \in DOMAIN s : s[i].resource = r /\ s[i] \in S
      /\ stay \in Seq(Tabs)
  BY <1>2, RetainedKeeps DEF WellFormed
<1>5. /\ DOMAIN tabs = DOMAIN stay /\ tabs = [i \in DOMAIN stay |-> tabs[i]]
      /\ \A i \in DOMAIN stay : /\ tabs[i] \in Tabs /\ tabs[i].resource = stay[i].resource
                                /\ tabs[i].resource \in Artifacts => tabs[i] = stay[i]
  <2>1. \A i \in DOMAIN stay : stay[i] \in Tabs
    BY <1>4, TabsOf
  <2> HIDE DEF stay
  <2>2. \A i \in DOMAIN stay : stay[i].resource \in Destinations => stay[i].resource \notin Artifacts
    BY InboxIs
  <2> QED  BY <2>1, <2>2, TabIs
<1> HIDE DEF tabs
<1>6. WellFormed(tabs) /\ Shown(tabs) = Shown(stay) /\ tabs \in Seq(Tabs)
  <2> HIDE DEF stay
  <2>1. WellFormed(tabs) /\ Shown(tabs) = Shown(stay)
    BY <1>4, <1>5, PinsKeep
  <2> QED  BY <2>1 DEF WellFormed
<1>7. open = Shown(tabs)
  BY DEF Shown
<1>8. tabs = <<>> <=> stay = <<>>
  <2>1. Shown(stay) = {} <=> stay = <<>>
    BY <1>4, TabsOf
  <2>2. Shown(tabs) = {} <=> tabs = <<>>
    BY <1>6, TabsOf
  <2> QED  BY <1>6, <2>1, <2>2
<1>9. stay # <<>> /\ Lasts(w, w.active) => w.active \in Shown(tabs)
  <2> SUFFICES ASSUME stay # <<>>, Lasts(w, w.active) PROVE w.active \in Shown(tabs)
    OBVIOUS
  <2>1. Shown(stay) # {}
    BY <1>4, TabsOf
  <2>2. s # <<>>
    <3> HIDE DEF stay
    <3> QED  BY <1>4, <2>1
  <2>3. PICK i \in DOMAIN s : s[i].resource = w.active
    BY <1>2, <2>2 DEF Shown
  <2>4. s[i] \in S
    BY <1>3, <2>3
  <2> QED  BY <1>4, <1>6, <2>3, <2>4
<1>10. CASE stay = <<>>
  <2>1. v = WithInitialEditor(first)
    BY <1>1, <1>8, <1>10
  <2>2. \A i \in DOMAIN s : s[i] \notin A
    <3>1. Shown(stay) = {}
      BY <1>4, <1>10, TabsOf
    <3> HIDE DEF stay
    <3>2. \A i \in DOMAIN s : s[i] \notin S
      BY <1>4, <3>1
    <3> QED  BY <1>3, <3>2
  <2>3. Retained(s, A) = <<>>
    BY <1>2, <2>2, RetainedNone
  <2>4. /\ Good(v) /\ v.active = first /\ first # Nobody /\ ArtifactTabs(v.editors) = <<>>
    BY <2>1, InitialIs, InboxIs
  <2> HIDE DEF v, stay
  <2> QED  BY <1>0, <1>10, <2>1, <2>3, <2>4 DEF v
<1>11. CASE stay # <<>>
  <2>1. /\ Lasts(w, w.active) => active = w.active
        /\ active \in Shown(tabs) /\ active \in Resources /\ active # Nobody
    <3>1. Shown(tabs) \subseteq Resources /\ LastOf(tabs) \in Shown(tabs)
      BY <1>6, <1>8, <1>11, LastOfIs, TabsOf
    <3>2. active \in Shown(tabs)
      BY <1>7, <3>1
    <3> QED  BY <1>7, <1>9, <1>11, <3>1, <3>2, InboxIs
  <2>2. scope = w.scope
    BY <1>2
  <2>3. cs \in [Owners -> {Nobody} \cup Contexts]
    <3>1. ASSUME NEW c \in {Nobody} \cup Contexts PROVE context(c) \in {Nobody} \cup Contexts
      <4> HIDE DEF open
      <4> QED  BY <3>1 DEF Contexts
    <3> HIDE DEF context
    <3>2. \A p \in Owners : context(w.contexts[p]) \in {Nobody} \cup Contexts
      BY <1>2, <3>1
    <3> QED  BY <3>2
  <2>4. Activity[active] \in Activities
    BY <2>1 DEF Activities
  <2>5. w.scope \in Owners \cup {AllProjects}
    BY <1>2
  <2>6. v = [scope |-> scope, editors |-> tabs, active |-> active,
             activity |-> Activity[active], contexts |-> cs]
    BY <1>1, <1>8, <1>11
  <2> HIDE DEF active, scope, cs, v
  <2>7. v \in States /\ v.scope = scope /\ v.editors = tabs /\ v.active = active
    BY <1>6, <2>1, <2>2, <2>3, <2>4, <2>5, <2>6 DEF States
  <2>8. Good(v)
    BY <1>2, <1>6, <2>1, <2>2, <2>7 DEF Good, Holds
  <2>9. ArtifactTabs(tabs) = Retained(s, A)
    <3> DEFINE B == {t \in ToSet(tabs) : t.resource \in Artifacts}
    <3>1. \A n \in DOMAIN tabs : tabs[n] \in B <=> tabs[n].resource \in Artifacts
      BY DEF ToSet
    <3>2. \A n \in DOMAIN stay : stay[n] \in A <=> stay[n].resource \in Artifacts
      <4>1. \A n \in DOMAIN stay : stay[n] \in S
        BY <1>2, RetainedKeeps
      <4> HIDE DEF stay
      <4> QED  BY <4>1 DEF S, A
    <3>3. \A i \in DOMAIN s : s[i] \in A => s[i] \in S
      BY <1>3
    <3> HIDE DEF B
    <3>4. \A n \in DOMAIN tabs : tabs[n] \in B <=> stay[n] \in A
      BY <1>5, <3>1, <3>2
    <3>5. \A n \in DOMAIN tabs : tabs[n] \in B => tabs[n] = stay[n]
      BY <1>5, <3>1
    <3>6. Retained(tabs, B) = Retained(s, A)
      BY <1>2, <1>5, <1>6, <3>3, <3>4, <3>5, RetainedTwice
    <3> QED  BY <3>6 DEF ArtifactTabs, B
  <2> HIDE DEF stay
  <2> QED  BY <1>0, <1>11, <2>1, <2>2, <2>7, <2>8, <2>9 DEF v
<1> QED  BY <1>10, <1>11

LEMMA ArtifactTabsStay ==
  ASSUME NEW w, Holds(w), NEW v, SameTabs(w, v)
  PROVE  ArtifactTabs(v.editors) = ArtifactTabs(w.editors)
<1>1. CASE v.editors = w.editors
  BY <1>1
<1>2. CASE v.editors = Append(w.editors, Tab(FailureInbox, FALSE))
  <2> DEFINE s == w.editors
             x == Tab(FailureInbox, FALSE)
             A == {t \in ToSet(s) : t.resource \in Artifacts}
             B == {t \in ToSet(Append(s, x)) : t.resource \in Artifacts}
  <2>1. s \in Seq(Tabs)
    BY HoldsOf
  <2>2. x \in Tabs /\ x.resource \notin Artifacts
    BY TabIs, InboxIs
  <2> HIDE DEF s, x
  <2>3. x \notin B
    BY <2>2
  <2>4. \A i \in DOMAIN s : s[i] \in B <=> s[i] \in A
    <3>1. /\ DOMAIN s = 1..Len(s) /\ DOMAIN Append(s, x) = 1 .. Len(s) + 1 /\ Len(s) \in Nat
          /\ \A i \in 1..Len(s) : Append(s, x)[i] = s[i]
      BY <2>1, <2>2, AppendProperties
    <3>2. \A i \in DOMAIN s : s[i] \in ToSet(Append(s, x)) /\ s[i] \in ToSet(s)
      BY <3>1 DEF ToSet
    <3> QED  BY <3>2
  <2> HIDE DEF A, B
  <2>5. Retained(Append(s, x), B) = Retained(s, A)
    BY <2>1, <2>2, <2>3, <2>4, RetainedAppend
  <2> QED  BY <1>2, <2>5 DEF ArtifactTabs, A, B, s, x
<1> QED  BY <1>1, <1>2 DEF SameTabs

LEMMA LoadedIs ==
  ASSUME projects \subseteq Owners, saved = Nobody \/ (Good(saved) /\ InScope(saved)),
         NEW first \in Destinations
  PROVE  LET l == Loaded(first)
         IN  /\ Good(l) /\ InScope(l) /\ l.active # Nobody
             /\ projects = {} \/ saved = Nobody \/ Lasting(saved) = <<>> =>
                  l.scope = AllProjects /\ l.active = first
             /\ projects # {} /\ saved # Nobody /\ Lasting(saved) # <<>> =>
                  l.scope = saved.scope /\ (Lasts(saved, saved.active) => l.active = saved.active)
             /\ saved # Nobody => ArtifactTabs(l.editors) = LastingArtifacts(saved)
<1> DEFINE i == WithInitialEditor(first)
           r == Restored(saved, first)
<1>1. /\ Good(i) /\ i.scope = AllProjects /\ i.active = first /\ first # Nobody
      /\ ArtifactTabs(i.editors) = <<>>
  BY InitialIs, InboxIs
<1>2. saved # Nobody =>
        /\ Good(r) /\ r.active # Nobody
        /\ Lasting(saved) = <<>> => r = i
        /\ Lasting(saved) # <<>> =>
             r.scope = saved.scope /\ (Lasts(saved, saved.active) => r.active = saved.active)
        /\ ArtifactTabs(r.editors) = LastingArtifacts(saved)
  BY RestoredIs
<1>3. Loaded(first) = IF projects = {} \/ saved = Nobody THEN i ELSE r
  BY DEF Loaded
<1>4. projects = {} /\ saved # Nobody => LastingArtifacts(saved) = <<>>
  <2> SUFFICES ASSUME projects = {}, saved # Nobody PROVE LastingArtifacts(saved) = <<>>
    OBVIOUS
  <2> DEFINE s == saved.editors
             A == {t \in ToSet(s) : t.resource \in Artifacts /\ Lasts(saved, t.resource)}
  <2>1. s \in Seq(Tabs)
    BY HoldsOf DEF Good
  <2>2. \A k \in DOMAIN s : s[k] \notin A
    BY DEF Lasts
  <2> HIDE DEF s, A
  <2>3. Retained(s, A) = <<>>
    BY <2>1, <2>2, RetainedNone
  <2> QED  BY <2>3 DEF LastingArtifacts, s, A
<1> HIDE DEF i, r
<1> QED  BY <1>1, <1>2, <1>3, <1>4 DEF InScope

LEMMA StartedIs ==
  ASSUME projects \in SUBSET Owners, saved = Nobody \/ (Good(saved) /\ InScope(saved)),
         NEW first \in Destinations
  PROVE  LET l == Loaded(first)
             v == Started(first)
         IN  /\ Good(v) /\ InScope(v) /\ v.active # Nobody
             /\ ArtifactTabs(v.editors) = ArtifactTabs(l.editors)
             /\ \/ v = l /\ (l.scope # AllProjects \/ \A p \in Owners : projects # {p})
                \/ /\ l.scope = AllProjects /\ v.scope \in projects /\ projects = {v.scope}
                   /\ VisibleIn(v.scope, v.active)
<1> DEFINE l == Loaded(first)
           v == Started(first)
           p == CHOOSE x \in projects : TRUE
<1>1. Good(l) /\ InScope(l) /\ l.active # Nobody
  BY LoadedIs
<1>2. v = IF Cardinality(projects) = 1 /\ l.scope = AllProjects THEN Switched(l, p) ELSE l
  BY DEF Started
<1> HIDE DEF l, v
<1>3. IsFiniteSet(projects)
  BY WorkbenchAssumption, FS_Subset
<1>4. Cardinality(projects) = 1 <=> \E x : projects = {x}
  BY <1>3, FS_Singleton
<1>5. CASE Cardinality(projects) = 1 /\ l.scope = AllProjects
  <2>1. p \in projects /\ projects = {p} /\ p # l.scope
    BY <1>4, <1>5, WorkbenchAssumption
  <2> HIDE DEF p
  <2>2. v = Switched(l, p) /\ p \in projects \cup {AllProjects}
    BY <1>2, <1>5, <2>1
  <2>3. /\ Good(v) /\ v.scope = p /\ v.active # Nobody /\ VisibleIn(p, v.active) /\ SameTabs(l, v)
    BY <1>1, <2>1, <2>2, SwitchedIs
  <2>4. ArtifactTabs(v.editors) = ArtifactTabs(l.editors)
    BY <1>1, <2>3, ArtifactTabsStay DEF Good
  <2> QED  BY <1>5, <2>1, <2>3, <2>4 DEF l, v, InScope
<1>6. CASE ~(Cardinality(projects) = 1 /\ l.scope = AllProjects)
  <2>1. v = l
    BY <1>2, <1>6
  <2>2. l.scope # AllProjects \/ \A x \in Owners : projects # {x}
    BY <1>4, <1>6
  <2> QED  BY <1>1, <2>1, <2>2 DEF l, v
<1> QED  BY <1>5, <1>6

-----------------------------------------------------------------------------
(* The inductive invariant.                                                *)

(* What is on disk can be of another scope only when the only project was  *)
(* chosen at the start, or nothing of it lasted.                           *)
Behind ==
  saved # Nobody /\ saved.scope # state.scope =>
    \/ saved.scope = AllProjects /\ projects = {state.scope}
    \/ Lasting(saved) = <<>> /\ (state.scope = AllProjects \/ projects = {state.scope})

WorkbenchInv ==
  /\ projects \in SUBSET Owners
  /\ Good(state) /\ InScope(state)
  /\ saved = Nobody \/ (Good(saved) /\ InScope(saved))
  /\ entries \in Seq(Resources) /\ cursor \in 0..Len(entries)
  /\ WellFormed(closed) /\ Len(closed) <= MaxClosed
  /\ display \in [Screens -> Resources]
  /\ unsynced \in BOOLEAN
  /\ ScreenShowsActive
  /\ ~unsaved => saved = state
  /\ Behind

LEMMA ActiveIs ==
  ASSUME NEW w, Good(w)
  PROVE  /\ w.active = Nobody \/ w.active \in Resources
         /\ w.active = Nobody \/ w.active \in Open(w)
<1>1. WellFormed(w.editors) /\ Shown(w.editors) \subseteq Resources /\ Open(w) = Shown(w.editors)
  BY HoldsOf, TabsOf DEF Good
<1> QED  BY <1>1 DEF Good

LEMMA AvailableIs ==
  ASSUME NEW w, Good(w), NEW r \in Available(w)
  PROVE  r \in Open(w) /\ r \in Resources /\ VisibleIn(w.scope, r)
BY HoldsOf DEF Good, Available

(* Nothing of a state depends on the projects there are.                   *)
LEMMA GoodFollows ==
  ASSUME Good(state')
  PROVE  Good(state)'
BY DEF Good, Holds, WellFormed, OneEach, Shown

LEMMA SavedFollows ==
  ASSUME Good(saved')
  PROVE  Good(saved)'
BY DEF Good, Holds, WellFormed, OneEach, Shown

LEMMA ClosedFollows ==
  ASSUME WellFormed(closed')
  PROVE  WellFormed(closed)'
BY DEF WellFormed, OneEach

(* The tabs without the first or without the last.                         *)
LEMMA TailKeeps ==
  ASSUME NEW s, WellFormed(s), s # <<>>
  PROVE  WellFormed(Tail(s)) /\ Len(Tail(s)) = Len(s) - 1
<1> DEFINE a == Tail(s)
<1>1. s \in Seq(Tabs) /\ OneEach(s)
  BY DEF WellFormed
<1>2. /\ a \in Seq(Tabs) /\ Len(a) = Len(s) - 1 /\ \A i \in 1..Len(a) : a[i] = s[i + 1]
      /\ Len(s) \in Nat /\ DOMAIN s = 1..Len(s)
  BY <1>1, HeadTailProperties
<1> HIDE DEF a
<1>3. DOMAIN a = 1..Len(a) /\ \A i \in DOMAIN a : i \in Nat /\ i + 1 \in DOMAIN s
  BY <1>2
<1>4. OneEach(a)
  <2> SUFFICES ASSUME NEW i \in DOMAIN a, NEW j \in DOMAIN a, a[i].resource = a[j].resource
               PROVE  i = j
    BY DEF OneEach
  <2>1. i + 1 = j + 1
    BY <1>1, <1>2, <1>3 DEF OneEach
  <2> QED  BY <1>3, <2>1
<1> QED  BY <1>2, <1>4 DEF WellFormed, a

LEMMA FrontKeeps ==
  ASSUME NEW s, WellFormed(s), s # <<>>
  PROVE  /\ WellFormed(Front(s)) /\ Len(Front(s)) = Len(s) - 1
         /\ Last(s) \in Tabs
<1> DEFINE a == Front(s)
<1>1. s \in Seq(Tabs) /\ OneEach(s)
  BY DEF WellFormed
<1>2. Len(s) \in Nat /\ DOMAIN s = 1..Len(s) /\ Len(s) # 0 /\ \A i \in DOMAIN s : s[i] \in Tabs
  BY <1>1, EmptySeq
<1>3. /\ a \in Seq(Tabs) /\ Len(a) = Len(s) - 1
      /\ \A i \in 1..Len(a) : a[i] = s[i]
  <2> DEFINE n == Len(s) - 1
  <2>1. n \in Nat /\ 1 \in Int /\ n \in Int /\ \A i \in 1..n : s[i] \in Tabs
    BY <1>2
  <2>2. a = SubSeq(s, 1, n)
    BY DEF Front
  <2> HIDE DEF n, a
  <2>3. /\ a \in Seq(Tabs) /\ Len(a) = (IF 1 <= n THEN n - 1 + 1 ELSE 0)
        /\ \A i \in 1 .. n - 1 + 1 : a[i] = s[1 + i - 1]
    BY <2>1, <2>2, SubSeqProperties
  <2>4. Len(a) = n /\ n - 1 + 1 = n
    BY <2>1, <2>3
  <2>5. \A i \in 1..n : 1 + i - 1 = i
    BY <2>1
  <2> QED  BY <2>3, <2>4, <2>5 DEF n
<1> HIDE DEF a
<1>4. DOMAIN a = 1..Len(a) /\ \A i \in DOMAIN a : i \in DOMAIN s /\ a[i] = s[i]
  BY <1>2, <1>3
<1>5. OneEach(a)
  BY <1>1, <1>4 DEF OneEach
<1>7. Last(s) \in Tabs
  BY <1>1, <1>2 DEF Last
<1> QED  BY <1>3, <1>5, <1>7 DEF WellFormed, a

(* The steps but the restart: what is left to show of each.                *)
LEMMA StepKeeps ==
  ASSUME WorkbenchInv,
         projects' \in SUBSET Owners, projects \subseteq projects',
         Good(state'), state'.scope \in projects' \cup {AllProjects},
         Persist \/ (NoPersist /\ projects' = projects /\ state'.scope = state.scope),
         \/ Record
         \/ UNCHANGED <<entries, cursor>>
         \/ entries' = entries /\ cursor' \in 1..Len(entries),
         WellFormed(closed'), Len(closed') <= MaxClosed,
         Sync \/ NoSync
  PROVE  WorkbenchInv'
<1>1. Good(state)' /\ InScope(state)'
  BY GoodFollows DEF InScope
<1>2. /\ saved' = Nobody \/ (Good(saved)' /\ InScope(saved)')
      /\ ~unsaved' => saved' = state'
      /\ Behind'
  <2>1. CASE Persist
    <3>1. saved' = state'
      BY <2>1 DEF Persist
    <3>2. Good(saved)'
      BY <3>1, SavedFollows
    <3>3. ~unsaved' => saved' = state'
      BY <3>1
    <3>4. Behind'
      BY <3>1 DEF Behind
    <3> QED  BY <3>1, <3>2, <3>3, <3>4 DEF InScope
  <2>2. CASE NoPersist /\ projects' = projects /\ state'.scope = state.scope
    <3>1. saved' = saved /\ unsaved' = TRUE
      BY <2>2 DEF NoPersist
    <3>2. /\ saved = Nobody \/ (Good(saved) /\ InScope(saved))
          /\ Behind
      BY DEF WorkbenchInv
    <3>3. Good(saved) => Good(saved)'
      BY <3>1, SavedFollows
    <3>4. InScope(saved) => InScope(saved)'
      BY <2>2, <3>1 DEF InScope
    <3>5. Lasting(saved)' = Lasting(saved)
      BY <2>2, <3>1 DEF Lasting, Lasts
    <3>6. Behind'
      BY <2>2, <3>1, <3>2, <3>5 DEF Behind
    <3> QED  BY <2>2, <3>1, <3>2, <3>3, <3>4, <3>6
  <2> QED  BY <2>1, <2>2
<1>3. state'.active = Nobody \/ state'.active \in Resources
  BY ActiveIs
<1>4. entries' \in Seq(Resources) /\ cursor' \in 0..Len(entries')
  <2>1. entries \in Seq(Resources) /\ cursor \in 0..Len(entries) /\ Len(entries) \in Nat
    BY DEF WorkbenchInv
  <2>2. CASE UNCHANGED <<entries, cursor>>
    BY <2>1, <2>2
  <2>3. CASE entries' = entries /\ cursor' \in 1..Len(entries)
    BY <2>1, <2>3
  <2>4. CASE Record
    <3>1. CASE UNCHANGED <<entries, cursor>>
      BY <2>1, <3>1
    <3>2. CASE ~UNCHANGED <<entries, cursor>>
      <4> DEFINE e == SubSeq(entries, 1, cursor)
                 x == state'.active
      <4>1. x # Nobody /\ entries' = Append(e, x) /\ cursor' = cursor + 1
        BY <2>4, <3>2 DEF Record
      <4>2. x \in Resources
        BY <1>3, <4>1
      <4>3. \A i \in 1..cursor : entries[i] \in Resources
        BY <2>1
      <4>4. cursor \in Nat
        BY <2>1
      <4>5. e \in Seq(Resources) /\ Len(e) = cursor
        <5>1. /\ e \in Seq(Resources)
              /\ Len(e) = IF 1 <= cursor THEN cursor - 1 + 1 ELSE 0
          BY <4>3, <4>4, SubSeqProperties
        <5> QED  BY <4>4, <5>1
      <4> HIDE DEF e, x
      <4>6. entries' \in Seq(Resources) /\ Len(entries') = cursor + 1
        BY <4>1, <4>2, <4>5, AppendProperties
      <4> QED  BY <4>1, <4>4, <4>6
    <3> QED  BY <3>1, <3>2
  <2> QED  BY <2>2, <2>3, <2>4
<1>5. WellFormed(closed)'
  BY ClosedFollows
<1>6. /\ display' \in [Screens -> Resources]
      /\ unsynced' \in BOOLEAN /\ ScreenShowsActive'
  <2>1. /\ display \in [Screens -> Resources]
        /\ unsynced \in BOOLEAN /\ ScreenShowsActive
    BY DEF WorkbenchInv
  <2>2. Screen \in [Resources -> Screens]
    BY WorkbenchAssumption
  <2>3. CASE Sync
    <3>1. display' = Displaying(display, state'.active) /\ unsynced' = FALSE
      BY <2>3 DEF Sync
    <3>2. CASE state'.active = Nobody
      <4>1. display' = display
        BY <3>1, <3>2 DEF Displaying
      <4> QED  BY <2>1, <3>1, <3>2, <4>1 DEF ScreenShowsActive
    <3>3. CASE state'.active # Nobody
      <4> DEFINE r == state'.active
      <4>1. r \in Resources /\ Screen[r] \in Screens
        BY <1>3, <2>2, <3>3
      <4>2. display' = [display EXCEPT ![Screen[r]] = r]
        BY <3>1, <3>3 DEF Displaying
      <4>4. display' \in [Screens -> Resources] /\ display'[Screen[r]] = r
        BY <2>1, <4>1, <4>2
      <4> QED  BY <3>1, <4>4 DEF ScreenShowsActive
    <3> QED  BY <3>2, <3>3
  <2>4. CASE NoSync
    <3>1. display' = display /\ unsynced' = (unsynced \/ state'.active # state.active)
      BY <2>4 DEF NoSync
    <3>3. unsynced' \in BOOLEAN
      BY <3>1
    <3>4. ScreenShowsActive'
      <4>1. CASE state'.active # state.active
        BY <3>1, <4>1 DEF ScreenShowsActive
      <4>2. CASE state'.active = state.active
        BY <2>1, <3>1, <4>2 DEF ScreenShowsActive
      <4> QED  BY <4>1, <4>2
    <3> QED  BY <2>1, <3>1, <3>3, <3>4
  <2> QED  BY <2>3, <2>4
<1> QED  BY <1>1, <1>2, <1>4, <1>5, <1>6 DEF WorkbenchInv

-----------------------------------------------------------------------------
(* The starts.                                                             *)

LEMMA FreshIs ==
  ASSUME NEW r \in Resources
  PROVE  /\ Displaying(Opening, r) \in [Screens -> Resources]
         /\ Displaying(Opening, r)[Screen[r]] = r
         /\ <<r>> \in Seq(Resources) /\ Len(<<r>>) = 1
         /\ WellFormed(<<>>) /\ Len(<<>>) <= MaxClosed
<1>1. Displaying(Opening, r) = [Opening EXCEPT ![Screen[r]] = r]
  BY InboxIs DEF Displaying
<1>2. Screen[r] \in Screens /\ Opening \in [Screens -> Destinations] /\ Destinations \subseteq Resources
  BY WorkbenchAssumption DEF Resources
<1>4. WellFormed(<<>>)
  BY DEF WellFormed, OneEach
<1>5. Len(<<>>) <= MaxClosed
  BY WorkbenchAssumption
<1> QED  BY <1>1, <1>2, <1>4, <1>5

LEMMA WorkbenchStarts ==
  ASSUME WorkbenchInit
  PROVE  WorkbenchInv
<1>1. PICK first \in {Welcome, FailureInbox} : state = Started(first)
  BY DEF WorkbenchInit
<1>2. first \in Destinations /\ projects \in SUBSET Owners /\ saved = Nobody
  BY InboxIs DEF WorkbenchInit
<1>3. Good(state) /\ InScope(state) /\ state.active # Nobody
  BY <1>1, <1>2, StartedIs
<1>4. state.active \in Resources
  BY <1>3, ActiveIs
<1>5. /\ entries = <<state.active>> /\ cursor = 1 /\ closed = <<>>
      /\ display = Displaying(Opening, state.active) /\ unsynced = FALSE /\ unsaved = TRUE
  BY DEF WorkbenchInit
<1> DEFINE r == state.active
<1> HIDE DEF r
<1>6. /\ display \in [Screens -> Resources]
     
      /\ display[Screen[r]] = r
      /\ entries \in Seq(Resources) /\ cursor \in 0..Len(entries)
      /\ WellFormed(closed) /\ Len(closed) <= MaxClosed
  <2>1. r \in Resources
    BY <1>4 DEF r
  <2>2. /\ Displaying(Opening, r) \in [Screens -> Resources]
        /\ Displaying(Opening, r)[Screen[r]] = r
        /\ <<r>> \in Seq(Resources) /\ Len(<<r>>) = 1
        /\ WellFormed(<<>>) /\ Len(<<>>) <= MaxClosed
    BY <2>1, FreshIs
  <2> QED  BY <1>5, <2>2 DEF r
<1>7. ScreenShowsActive
  BY <1>6 DEF ScreenShowsActive, r
<1> QED  BY <1>2, <1>3, <1>5, <1>6, <1>7 DEF WorkbenchInv, Behind

LEMMA RestartKeeps ==
  ASSUME WorkbenchInv, RestartWorkbench
  PROVE  WorkbenchInv'
<1>1. PICK first \in {Welcome, FailureInbox} : state' = Started(first)
  BY DEF RestartWorkbench
<1>2. /\ first \in Destinations /\ projects \in SUBSET Owners
      /\ saved = Nobody \/ (Good(saved) /\ InScope(saved))
  BY InboxIs DEF WorkbenchInv
<1>3. /\ Good(state') /\ InScope(state') /\ state'.active # Nobody
      /\ \/ state' = Loaded(first)
         \/ Loaded(first).scope = AllProjects /\ projects = {state'.scope}
      /\ Loaded(first).scope = AllProjects /\ projects = {} => state'.scope = AllProjects
  <2> DEFINE l == Loaded(first)
             v == Started(first)
  <2>1. /\ Good(v) /\ InScope(v) /\ v.active # Nobody
        /\ \/ v = l /\ (l.scope # AllProjects \/ \A p \in Owners : projects # {p})
           \/ /\ l.scope = AllProjects /\ v.scope \in projects /\ projects = {v.scope}
              /\ VisibleIn(v.scope, v.active)
    BY <1>2, StartedIs
  <2>2. state' = v
    BY <1>1
  <2> HIDE DEF l, v
  <2> QED  BY <2>1, <2>2 DEF l, v
<1>4. state'.active \in Resources
  BY <1>3, ActiveIs
<1>5. /\ entries' = <<state'.active>> /\ cursor' = 1 /\ closed' = <<>>
      /\ display' = Displaying(Opening, state'.active) /\ unsynced' = FALSE
      /\ unsaved' = (state' # saved) /\ projects' = projects /\ saved' = saved
  BY DEF RestartWorkbench
<1>6. PICK r \in Resources : r = state'.active
  BY <1>4
<1>7. /\ display' \in [Screens -> Resources]
      /\ display'[Screen[r]] = r
      /\ entries' \in Seq(Resources) /\ cursor' \in 0..Len(entries')
      /\ WellFormed(closed') /\ Len(closed') <= MaxClosed
  <2>2. /\ Displaying(Opening, r) \in [Screens -> Resources]
        /\ Displaying(Opening, r)[Screen[r]] = r
        /\ <<r>> \in Seq(Resources) /\ Len(<<r>>) = 1
        /\ WellFormed(<<>>) /\ Len(<<>>) <= MaxClosed
    BY FreshIs
  <2> QED  BY <1>5, <1>6, <2>2
<1>8. ScreenShowsActive'
  BY <1>6, <1>7 DEF ScreenShowsActive
<1>9. Good(state)' /\ InScope(state)' /\ WellFormed(closed)'
  <2>1. Good(state)' /\ WellFormed(closed)'
    BY <1>3, <1>5, <1>7, GoodFollows, ClosedFollows
  <2> QED  BY <1>3, <1>5, <2>1 DEF InScope
<1>10. saved' = Nobody \/ (Good(saved)' /\ InScope(saved)')
  <2>1. Good(saved') => Good(saved)'
    BY <1>5, SavedFollows
  <2> QED  BY <1>2, <1>5, <2>1 DEF InScope
<1>11. Behind'
  <2> SUFFICES ASSUME saved # Nobody, saved.scope # state'.scope
               PROVE  \/ saved.scope = AllProjects /\ projects = {state'.scope}
                      \/ Lasting(saved) = <<>>
                         /\ (state'.scope = AllProjects \/ projects = {state'.scope})
    <3>1. Lasting(saved)' = Lasting(saved)
      BY <1>5 DEF Lasting, Lasts
    <3> QED  BY <1>5, <3>1 DEF Behind
  <2>1. CASE projects = {}
    <3>1. saved.scope = AllProjects
      BY <1>2, <2>1 DEF InScope
    <3>2. Loaded(first).scope = AllProjects
      BY <1>2, <2>1, LoadedIs
    <3> QED  BY <1>3, <2>1, <3>1, <3>2
  <2>2. CASE projects # {} /\ Lasting(saved) # <<>>
    <3>1. Loaded(first).scope = saved.scope
      BY <1>2, <2>2, LoadedIs
    <3> QED  BY <1>3, <3>1
  <2>3. CASE Lasting(saved) = <<>>
    <3>1. Loaded(first).scope = AllProjects
      BY <1>2, <2>3, LoadedIs
    <3> QED  BY <1>3, <2>3, <3>1
  <2> QED  BY <2>1, <2>2, <2>3
<1>12. projects' \in SUBSET Owners /\ unsynced' \in BOOLEAN /\ (~unsaved' => saved' = state')
  BY <1>2, <1>5
<1> QED  BY <1>7, <1>8, <1>9, <1>10, <1>11, <1>12 DEF WorkbenchInv

-----------------------------------------------------------------------------
(* The steps.                                                              *)

(* Every step that opens, activates or closes an editor, in what they share*)
LEMMA PlainStepKeeps ==
  ASSUME WorkbenchInv,
         Good(state'), state'.scope = state.scope,
         projects' = projects, Persist \/ NoPersist,
         \/ Record
         \/ UNCHANGED <<entries, cursor>>
         \/ entries' = entries /\ cursor' \in 1..Len(entries),
         closed' = closed \/ (WellFormed(closed') /\ Len(closed') <= MaxClosed),
         Sync \/ NoSync
  PROVE  WorkbenchInv'
<1>1. /\ projects \in SUBSET Owners /\ state.scope \in projects \cup {AllProjects}
      /\ WellFormed(closed) /\ Len(closed) <= MaxClosed
  BY DEF WorkbenchInv, InScope
<1>2. projects' \in SUBSET Owners /\ projects \subseteq projects'
      /\ state'.scope \in projects' \cup {AllProjects}
  BY <1>1
<1>3. WellFormed(closed') /\ Len(closed') <= MaxClosed
  BY <1>1
<1>4. Persist \/ (NoPersist /\ projects' = projects /\ state'.scope = state.scope)
  OBVIOUS
<1> QED  BY <1>2, <1>3, <1>4, StepKeeps

LEMMA OpeningKeeps ==
  ASSUME WorkbenchInv, NEW r \in Resources, NEW pin \in BOOLEAN,
         state' = Opened(state, r, pin), Record, Sync, Persist \/ NoPersist,
         projects' = projects, closed' = closed
  PROVE  WorkbenchInv'
<1>1. Good(state)
  BY DEF WorkbenchInv
<1>2. Good(state') /\ state'.scope = state.scope
  BY <1>1, OpenedIs
<1> QED  BY <1>2, PlainStepKeeps

LEMMA ClosedIs ==
  ASSUME WorkbenchInv, NEW r \in Open(state), CloseEditor(r)
  PROVE  WellFormed(closed') /\ Len(closed') <= MaxClosed
<1> DEFINE tab == state.editors[CHOOSE i \in DOMAIN state.editors : state.editors[i].resource = r]
           a == Retained(closed, Others(closed, r))
           all == Append(a, tab)
<1>1. /\ WellFormed(closed) /\ Len(closed) <= MaxClosed /\ MaxClosed \in Nat
      /\ WellFormed(state.editors) /\ r \in Shown(state.editors)
  BY WorkbenchAssumption, HoldsOf DEF WorkbenchInv, Good
<1>2. tab \in Tabs /\ tab.resource = r
  <2>1. \E i \in DOMAIN state.editors : state.editors[i].resource = r
    BY <1>1 DEF Shown
  <2>2. PICK i \in DOMAIN state.editors : tab = state.editors[i] /\ tab.resource = r
    BY <2>1
  <2> HIDE DEF tab
  <2> QED  BY <1>1, <2>2 DEF WellFormed
<1>3. closed' = IF Len(all) > MaxClosed THEN Tail(all) ELSE all
  BY DEF CloseEditor
<1> HIDE DEF tab
<1>4. WellFormed(a) /\ Len(a) <= Len(closed) /\ r \notin Shown(a)
  <2>1. /\ WellFormed(a) /\ Len(a) <= Len(closed)
        /\ \A n \in DOMAIN a : a[n] \in Others(closed, r)
    BY <1>1, RetainedKeeps
  <2> HIDE DEF a
  <2>2. \A n \in DOMAIN a : a[n].resource # r
    BY <2>1 DEF Others
  <2> QED  BY <2>1, <2>2 DEF Shown
<1> HIDE DEF a
<1>5. WellFormed(all) /\ Len(all) = Len(a) + 1 /\ all # <<>>
  BY <1>2, <1>4, AppendKeeps
<1>6. Len(a) \in Nat /\ Len(closed) \in Nat
  BY <1>1, <1>4, TabsOf DEF WellFormed
<1> HIDE DEF all
<1>7. WellFormed(Tail(all)) /\ Len(Tail(all)) = Len(all) - 1
  BY <1>5, TailKeeps
<1> QED  BY <1>1, <1>3, <1>4, <1>5, <1>6, <1>7

(* The greatest and the least place that can be reached.                   *)
LEMMA BeforeIs ==
  ASSUME entries \in Seq(Resources), NEW c \in Nat
  PROVE  /\ \A i : i \in Before(c) <=>
                     i \in 1..Len(entries) /\ i < c /\ entries[i] \in Available(state)
         /\ Before(c) # {} => Max(Before(c)) \in Before(c) /\ \A i \in Before(c) : i <= Max(Before(c))
<1> DEFINE B == Before(c)
<1>1. Len(entries) \in Nat /\ DOMAIN entries = 1..Len(entries)
  OBVIOUS
<1>2. \A i : i \in B <=> i \in 1..Len(entries) /\ i < c /\ entries[i] \in Available(state)
  BY <1>1 DEF Before, Reached
<1> HIDE DEF B
<1>3. B \in SUBSET Nat /\ \A i \in B : i <= Len(entries)
  BY <1>1, <1>2
<1>4. B # {} => \E n \in B : \A m \in B : m <= n
  BY <1>1, <1>3, GreatestElement
<1>5. \A m, n \in B : m <= n <=> n >= m
  BY <1>3
<1>6. B # {} => Max(B) \in B /\ \A i \in B : i <= Max(B)
  BY <1>4, <1>5 DEF Max
<1> QED  BY <1>2, <1>6 DEF B

LEMMA AfterIs ==
  ASSUME entries \in Seq(Resources), NEW c \in Nat
  PROVE  /\ \A i : i \in After(c) <=>
                     i \in 1..Len(entries) /\ c < i /\ entries[i] \in Available(state)
         /\ After(c) # {} => Min(After(c)) \in After(c) /\ \A i \in After(c) : Min(After(c)) <= i
<1> DEFINE B == After(c)
<1>1. Len(entries) \in Nat /\ DOMAIN entries = 1..Len(entries)
  OBVIOUS
<1>2. \A i : i \in B <=> i \in 1..Len(entries) /\ c < i /\ entries[i] \in Available(state)
  BY <1>1 DEF After, Reached
<1> HIDE DEF B
<1>3. B \in SUBSET Nat
  BY <1>1, <1>2
<1>4. B # {} => \E n \in B : \A m \in B : n <= m
  BY <1>3, LeastElement
<1>5. B # {} => Min(B) \in B /\ \A i \in B : Min(B) <= i
  BY <1>4 DEF Min
<1> QED  BY <1>2, <1>5 DEF B

(* Where back and forward lead.                                            *)
LEMMA NavigateIs ==
  ASSUME WorkbenchInv, NavigateBack \/ NavigateForward
  PROVE  /\ cursor' \in 1..Len(entries) /\ entries[cursor'] \in Available(state)
         /\ state' = Activated(state, entries[cursor'])
         /\ Sync /\ Persist /\ projects' = projects /\ entries' = entries /\ closed' = closed
<1>1. entries \in Seq(Resources) /\ cursor \in Nat
  BY DEF WorkbenchInv
<1>2. CASE NavigateBack
  <2>1. Before(cursor) # {} /\ cursor' = Max(Before(cursor))
    BY <1>2 DEF NavigateBack, Navigate
  <2>2. cursor' \in 1..Len(entries) /\ entries[cursor'] \in Available(state)
    BY <1>1, <2>1, BeforeIs
  <2> QED  BY <1>2, <2>2 DEF NavigateBack, Navigate
<1>3. CASE NavigateForward
  <2>1. After(cursor) # {} /\ cursor' = Min(After(cursor))
    BY <1>3 DEF NavigateForward, Navigate
  <2>2. cursor' \in 1..Len(entries) /\ entries[cursor'] \in Available(state)
    BY <1>1, <2>1, AfterIs
  <2> QED  BY <1>3, <2>2 DEF NavigateForward, Navigate
<1> QED  BY <1>2, <1>3

LEMMA WorkbenchStepKeeps ==
  ASSUME WorkbenchInv, [WorkbenchNext]_workbenchVars
  PROVE  WorkbenchInv'
<1>1. /\ Good(state) /\ InScope(state) /\ projects \in SUBSET Owners
      /\ WellFormed(closed) /\ Len(closed) <= MaxClosed
      /\ display \in [Screens -> Resources]
  BY DEF WorkbenchInv
<1>2. ASSUME NEW d \in Destinations, OpenActivity(d) PROVE WorkbenchInv'
  BY <1>2, OpeningKeeps, InboxIs DEF OpenActivity
<1>3. ASSUME NEW d \in Unsaved, OpenUnsaved(d) PROVE WorkbenchInv'
  BY <1>3, OpeningKeeps, InboxIs DEF OpenUnsaved
<1>4. ASSUME NEW r \in Artifacts, OpenArtifact(r) PROVE WorkbenchInv'
  <2>1. r \in Resources
    BY DEF Resources
  <2> QED  BY <1>4, <2>1, OpeningKeeps DEF OpenArtifact
<1>5. ASSUME NEW r \in Resources, ReturnFromFullTrace(r) PROVE WorkbenchInv'
  BY <1>5, OpeningKeeps DEF ReturnFromFullTrace
<1>6. ASSUME NEW r \in Available(state), ActivateEditor(r) PROVE WorkbenchInv'
  <2>1. r \in Open(state)
    BY <1>1, AvailableIs
  <2>2. Good(state') /\ state'.scope = state.scope
    BY <1>1, <1>6, <2>1, ActivatedIs DEF ActivateEditor, Good
  <2> QED  BY <1>6, <2>2, PlainStepKeeps DEF ActivateEditor
<1>7. ASSUME NEW r \in Available(state), CloseEditor(r) PROVE WorkbenchInv'
  <2>1. r \in Open(state)
    BY <1>1, AvailableIs
  <2>2. Good(state') /\ state'.scope = state.scope
    BY <1>1, <1>7, <2>1, WithoutIs DEF CloseEditor
  <2>3. WellFormed(closed') /\ Len(closed') <= MaxClosed
    BY <1>7, <2>1, ClosedIs
  <2> QED  BY <1>7, <2>2, <2>3, PlainStepKeeps DEF CloseEditor
<1>8. ASSUME NEW r \in Available(state), PinEditor(r) PROVE WorkbenchInv'
  <2>1. r \in Resources
    BY <1>1, AvailableIs
  <2>2. Good(state') /\ state'.scope = state.scope
    BY <1>1, <1>8, <2>1, PinnedIs DEF PinEditor
  <2>3. projects' = projects /\ UNCHANGED <<entries, cursor>> /\ closed' = closed
    BY <1>8 DEF PinEditor, navigation
  <2> QED  BY <1>8, <2>2, <2>3, PlainStepKeeps DEF PinEditor
<1>9. ASSUME NEW r \in Available(state), UnpinEditor(r) PROVE WorkbenchInv'
  <2>1. r \in Open(state)
    BY <1>1, AvailableIs
  <2>2. Good(state') /\ state'.scope = state.scope
    BY <1>1, <1>9, <2>1, UnpinnedIs DEF UnpinEditor
  <2>3. projects' = projects /\ UNCHANGED <<entries, cursor>> /\ closed' = closed
    BY <1>9 DEF UnpinEditor, navigation
  <2> QED  BY <1>9, <2>2, <2>3, PlainStepKeeps DEF UnpinEditor
<1>10. ASSUME ReopenClosedEditor PROVE WorkbenchInv'
  <2> DEFINE t == Last(closed)
  <2>1. closed # <<>> /\ closed' = Front(closed) /\ state' = Opened(state, t.resource, t.pinned)
    BY <1>10 DEF ReopenClosedEditor
  <2>2. /\ WellFormed(closed') /\ Len(closed') = Len(closed) - 1
        /\ t \in Tabs
    BY <1>1, <2>1, FrontKeeps
  <2>3. Len(closed') <= MaxClosed
    <3>1. Len(closed) \in Nat /\ MaxClosed \in Nat
      BY <1>1, WorkbenchAssumption, TabsOf DEF WellFormed
    <3> QED  BY <1>1, <2>2, <3>1
  <2>4. t.resource \in Resources /\ t.pinned \in BOOLEAN
    BY <2>2, TabIs
  <2> HIDE DEF t
  <2>5. Good(state') /\ state'.scope = state.scope
    BY <1>1, <2>1, <2>2, <2>4, OpenedIs
  <2> QED  BY <1>10, <2>2, <2>3, <2>5, PlainStepKeeps DEF ReopenClosedEditor
<1>11. ASSUME NavigateBack \/ NavigateForward PROVE WorkbenchInv'
  <2>1. /\ cursor' \in 1..Len(entries) /\ entries[cursor'] \in Available(state)
        /\ state' = Activated(state, entries[cursor'])
        /\ Sync /\ Persist /\ projects' = projects /\ entries' = entries /\ closed' = closed
    BY <1>11, NavigateIs
  <2>2. entries[cursor'] \in Open(state)
    BY <1>1, <2>1, AvailableIs
  <2>3. Good(state') /\ state'.scope = state.scope
    BY <1>1, <2>1, <2>2, ActivatedIs DEF Good
  <2> QED  BY <2>1, <2>3, PlainStepKeeps
<1>12. ASSUME NEW s \in projects \cup {AllProjects}, SetProjectScope(s) PROVE WorkbenchInv'
  <2>1. s \in Owners \cup {AllProjects} /\ s # state.scope /\ state' = Switched(state, s)
    BY <1>1, <1>12 DEF SetProjectScope
  <2>2. Good(state') /\ state'.scope = s
    BY <1>1, <2>1, SwitchedIs
  <2>3. projects' = projects /\ UNCHANGED <<entries, cursor>> /\ closed' = closed
    BY <1>12 DEF SetProjectScope, navigation
  <2>4. state'.scope \in projects' \cup {AllProjects} /\ projects' \in SUBSET Owners
    BY <1>1, <2>2, <2>3
  <2>5. WellFormed(closed') /\ Len(closed') <= MaxClosed
    BY <1>1, <2>3
  <2> QED  BY <1>12, <2>2, <2>3, <2>4, <2>5, StepKeeps DEF SetProjectScope
<1>13. ASSUME NEW p \in Owners, ProjectCreated(p) PROVE WorkbenchInv'
  <2>1. p \notin projects /\ state' = Switched(state, p) /\ projects' = projects \cup {p}
    BY <1>13 DEF ProjectCreated
  <2>2. p # state.scope
    BY <1>1, <2>1, WorkbenchAssumption DEF InScope
  <2>3. Good(state') /\ state'.scope = p
    BY <1>1, <2>1, <2>2, SwitchedIs
  <2>4. UNCHANGED <<entries, cursor>> /\ closed' = closed
    BY <1>13 DEF ProjectCreated, navigation
  <2>5. /\ state'.scope \in projects' \cup {AllProjects} /\ projects' \in SUBSET Owners
        /\ projects \subseteq projects'
    BY <1>1, <2>1, <2>3
  <2>6. WellFormed(closed') /\ Len(closed') <= MaxClosed
    BY <1>1, <2>4
  <2> QED  BY <1>13, <2>3, <2>4, <2>5, <2>6, StepKeeps DEF ProjectCreated
<1>14. ASSUME UNCHANGED workbenchVars PROVE WorkbenchInv'
  <2>1. UNCHANGED <<projects, state, saved, entries, cursor, closed, display, unsynced, unsaved>>
    BY <1>14 DEF workbenchVars, navigation
  <2>2. Good(state)' /\ InScope(state)' /\ WellFormed(closed)'
    BY <1>1, <2>1, GoodFollows, ClosedFollows DEF InScope
  <2>3. saved' = Nobody \/ (Good(saved)' /\ InScope(saved)')
    <3>1. saved = Nobody \/ (Good(saved) /\ InScope(saved))
      BY DEF WorkbenchInv
    <3>2. Good(saved) => Good(saved)'
      BY <2>1, SavedFollows
    <3> QED  BY <2>1, <3>1, <3>2 DEF InScope
  <2>4. ScreenShowsActive'
    <3>1. ScreenShowsActive
      BY DEF WorkbenchInv
    <3> QED  BY <1>1, <2>1, <3>1 DEF ScreenShowsActive
  <2>5. Behind'
    <3>1. Behind /\ Lasting(saved)' = Lasting(saved)
      BY <2>1 DEF WorkbenchInv, Lasting, Lasts
    <3> QED  BY <2>1, <3>1 DEF Behind
  <2> QED  BY <2>1, <2>2, <2>3, <2>4, <2>5 DEF WorkbenchInv
<1> QED
  BY <1>2, <1>3, <1>4, <1>5, <1>6, <1>7, <1>8, <1>9, <1>10, <1>11, <1>12, <1>13, <1>14, RestartKeeps
     DEF WorkbenchNext

-----------------------------------------------------------------------------
(* What follows.                                                           *)

(* Between the place and the one before it nothing can be reached, so the  *)
(* way forward from there leads back to the place.                         *)
LEMMA HistoryReverses ==
  ASSUME WorkbenchInv
  PROVE  HistoryIsReversible
<1> SUFFICES ASSUME cursor # 0, entries[cursor] \in Available(state)
             PROVE  /\ Before(cursor) # {} => Min(After(Max(Before(cursor)))) = cursor
                    /\ After(cursor) # {} => Max(Before(Min(After(cursor)))) = cursor
  BY DEF HistoryIsReversible
<1>1. entries \in Seq(Resources) /\ cursor \in 1..Len(entries) /\ Len(entries) \in Nat
  BY DEF WorkbenchInv
<1>2. ASSUME Before(cursor) # {} PROVE Min(After(Max(Before(cursor)))) = cursor
  <2>1. PICK m : m = Max(Before(cursor))
    OBVIOUS
  <2>2. m \in Before(cursor) /\ \A i \in Before(cursor) : i <= m
    BY <1>1, <1>2, <2>1, BeforeIs
  <2>3. m \in 1..Len(entries) /\ m < cursor
    BY <1>1, <2>2, BeforeIs
  <2>4. cursor \in After(m)
    BY <1>1, <2>3, AfterIs
  <2>5. ASSUME NEW i \in After(m) PROVE cursor <= i
    <3>1. i \in 1..Len(entries) /\ m < i /\ entries[i] \in Available(state)
      BY <1>1, <2>3, AfterIs
    <3>2. i < cursor => i \in Before(cursor)
      BY <1>1, <3>1, BeforeIs
    <3> QED  BY <1>1, <2>2, <2>3, <3>1, <3>2
  <2>6. Min(After(m)) \in After(m) /\ Min(After(m)) <= cursor
    BY <1>1, <2>3, <2>4, AfterIs
  <2>7. Min(After(m)) \in 1..Len(entries) /\ cursor <= Min(After(m))
    BY <1>1, <2>3, <2>5, <2>6, AfterIs
  <2> QED  BY <1>1, <2>1, <2>6, <2>7
<1>3. ASSUME After(cursor) # {} PROVE Max(Before(Min(After(cursor)))) = cursor
  <2>1. PICK m : m = Min(After(cursor))
    OBVIOUS
  <2>2. m \in After(cursor) /\ \A i \in After(cursor) : m <= i
    BY <1>1, <1>3, <2>1, AfterIs
  <2>3. m \in 1..Len(entries) /\ cursor < m
    BY <1>1, <2>2, AfterIs
  <2>4. cursor \in Before(m)
    BY <1>1, <2>3, BeforeIs
  <2>5. ASSUME NEW i \in Before(m) PROVE i <= cursor
    <3>1. i \in 1..Len(entries) /\ i < m /\ entries[i] \in Available(state)
      BY <1>1, <2>3, BeforeIs
    <3>2. cursor < i => i \in After(cursor)
      BY <1>1, <3>1, AfterIs
    <3> QED  BY <1>1, <2>2, <2>3, <3>1, <3>2
  <2>6. Max(Before(m)) \in Before(m) /\ cursor <= Max(Before(m))
    BY <1>1, <2>3, <2>4, BeforeIs
  <2>7. Max(Before(m)) \in 1..Len(entries) /\ Max(Before(m)) <= cursor
    BY <1>1, <2>3, <2>5, <2>6, BeforeIs
  <2> QED  BY <1>1, <2>1, <2>6, <2>7
<1> QED  BY <1>2, <1>3

LEMMA WorkbenchSounds ==
  ASSUME WorkbenchInv
  PROVE  WorkbenchIsSound
<1>1. /\ Good(state) /\ InScope(state) /\ projects \in SUBSET Owners
      /\ saved = Nobody \/ Good(saved)
      /\ entries \in Seq(Resources) /\ cursor \in 0..Len(entries)
      /\ WellFormed(closed) /\ Len(closed) <= MaxClosed
      /\ display \in [Screens -> Resources]
  BY DEF WorkbenchInv
<1>2. WorkbenchTypeOK
  BY <1>1 DEF WorkbenchTypeOK, Good, Holds, InScope, WellFormed
<1>3. TabsAreOne
  <2>1. /\ state.editors \in Seq(Tabs) /\ OneEach(state.editors) /\ Open(state) = Shown(state.editors)
        /\ closed \in Seq(Tabs) /\ OneEach(closed)
    BY <1>1, HoldsOf DEF Good, WellFormed
  <2>2. Cardinality(Open(state)) = Len(state.editors) /\ Cardinality(Shown(closed)) = Len(closed)
    BY <2>1, OneEachCounts
  <2>3. state.active \in Open(state) \/ (state.active = Nobody /\ state.editors = <<>>)
    BY <1>1, <2>1 DEF Good
  <2> QED  BY <1>1, <2>2, <2>3 DEF TabsAreOne, Shown
<1>4. ScreenShowsActive
  BY DEF WorkbenchInv
<1> QED  BY <1>2, <1>3, <1>4, HistoryReverses DEF WorkbenchIsSound

LEMMA WorkbenchInvariant == WorkbenchSpec => []WorkbenchInv
<1>1. WorkbenchInit => WorkbenchInv
  BY WorkbenchStarts
<1>2. WorkbenchInv /\ [WorkbenchNext]_workbenchVars => WorkbenchInv'
  BY WorkbenchStepKeeps
<1> QED  BY <1>1, <1>2, PTL DEF WorkbenchSpec

(* Every open editor has one tab, the active editor is one of them unless  *)
(* there is none, the closed tabs kept for reopening are distinct and at   *)
(* most as many as fit, back and forward undo each other whatever was      *)
(* closed or hidden since, and a screen that was told of the active editor *)
(* shows it: of any projects, artifacts and screens.                       *)
THEOREM WorkbenchStaysSound == WorkbenchSpec => []WorkbenchIsSound
<1>1. WorkbenchInv => WorkbenchIsSound
  BY WorkbenchSounds
<1> QED  BY <1>1, WorkbenchInvariant, PTL

-----------------------------------------------------------------------------
(* The steps that change the project or the active editor.                 *)

SteppedApart ==
  /\ state'.scope # state.scope => state'.active # Nobody /\ ~Stray'
  /\ ~Stray /\ Stray' =>
       \/ \E r \in Open(state) : CloseEditor(r)
       \/ ReopenClosedEditor \/ RestartWorkbench
       \/ \E r \in Artifacts : OpenArtifact(r) \/ ReturnFromFullTrace(r)

(* Neither is said to change by a step that keeps the scope and makes an   *)
(* editor active that is visible.                                          *)
LEMMA VisibleStep ==
  ASSUME state'.scope = state.scope,
         state'.active = state.active \/ VisibleIn(state.scope, state'.active)
  PROVE  SteppedApart
BY DEF SteppedApart, Stray, VisibleIn

LEMMA RestartApart ==
  ASSUME WorkbenchInv, RestartWorkbench
  PROVE  state'.scope # state.scope => state'.active # Nobody /\ ~Stray'
<1>1. PICK first \in {Welcome, FailureInbox} : state' = Started(first)
  BY DEF RestartWorkbench
<1>2. /\ first \in Destinations /\ projects \in SUBSET Owners
      /\ saved = Nobody \/ (Good(saved) /\ InScope(saved))
      /\ InScope(state)
      /\ saved # Nobody /\ Lasting(saved) # <<>> /\ saved.scope # state.scope =>
           saved.scope = AllProjects /\ projects = {state.scope}
  BY InboxIs DEF WorkbenchInv, Behind
<1> DEFINE l == Loaded(first)
           v == Started(first)
<1>3. /\ v.active # Nobody
      /\ \/ v = l /\ (l.scope # AllProjects \/ \A p \in Owners : projects # {p})
         \/ /\ l.scope = AllProjects /\ v.scope \in projects /\ projects = {v.scope}
            /\ VisibleIn(v.scope, v.active)
  BY <1>2, StartedIs
<1>4. /\ projects = {} \/ saved = Nobody \/ Lasting(saved) = <<>> => l.scope = AllProjects /\ l.active = first
      /\ projects # {} /\ saved # Nobody /\ Lasting(saved) # <<>> => l.scope = saved.scope
  BY <1>2, LoadedIs
<1> HIDE DEF l, v
<1>5. ASSUME v.scope # state.scope PROVE VisibleIn(v.scope, v.active)
  <2>1. CASE v = l /\ (l.scope # AllProjects \/ \A p \in Owners : projects # {p})
    <3>1. CASE projects = {} \/ saved = Nobody \/ Lasting(saved) = <<>>
      BY <1>2, <1>4, <2>1, <3>1 DEF VisibleIn
    <3>2. CASE ~(projects = {} \/ saved = Nobody \/ Lasting(saved) = <<>>)
      <4>1. saved.scope # state.scope
        BY <1>4, <1>5, <2>1, <3>2
      <4>2. l.scope = AllProjects /\ projects = {state.scope}
        BY <1>2, <1>4, <3>2, <4>1
      <4>3. state.scope \in Owners
        BY <1>2, <4>2
      <4> QED  BY <2>1, <4>2, <4>3
    <3> QED  BY <3>1, <3>2
  <2>2. CASE VisibleIn(v.scope, v.active)
    BY <2>2
  <2> QED  BY <1>3, <2>1, <2>2
<1>6. state' = v
  BY <1>1 DEF v
<1> QED  BY <1>3, <1>5, <1>6 DEF Stray, VisibleIn

LEMMA StepsApart ==
  ASSUME WorkbenchInv, [WorkbenchNext]_workbenchVars
  PROVE  SteppedApart
<1>1. Good(state) /\ InScope(state) /\ projects \in SUBSET Owners /\ WellFormed(closed)
  BY DEF WorkbenchInv
<1>2. ASSUME NEW d \in Destinations, state' = Opened(state, d, FALSE) PROVE SteppedApart
  <2>1. state'.active = d /\ state'.scope = state.scope
    BY <1>1, <1>2, OpenedIs, InboxIs
  <2> QED  BY <2>1, VisibleStep DEF VisibleIn
<1>3. ASSUME NEW r \in Artifacts, OpenArtifact(r) PROVE SteppedApart
  <2>1. r \in Resources
    BY DEF Resources
  <2>2. state'.scope = state.scope
    BY <1>1, <1>3, <2>1, OpenedIs DEF OpenArtifact
  <2> QED  BY <1>3, <2>2 DEF SteppedApart
<1>4. ASSUME NEW r \in Resources, ReturnFromFullTrace(r) PROVE SteppedApart
  <2>1. r = Runs \/ r \in Artifacts
    BY <1>4 DEF ReturnFromFullTrace
  <2>2. state' = Opened(state, r, TRUE)
    BY <1>4 DEF ReturnFromFullTrace
  <2>4. state'.scope = state.scope /\ state'.active = r
    BY <1>1, <2>2, OpenedIs
  <2>5. CASE r = Runs
    BY <2>4, <2>5, VisibleStep, InboxIs DEF VisibleIn
  <2>6. CASE r \in Artifacts
    BY <1>4, <2>4, <2>6 DEF SteppedApart
  <2> QED  BY <2>1, <2>5, <2>6
<1>5. ASSUME NEW r \in Available(state), CloseEditor(r) PROVE SteppedApart
  <2>1. r \in Open(state)
    BY <1>1, AvailableIs
  <2>2. state'.scope = state.scope
    BY <1>1, <1>5, <2>1, WithoutIs DEF CloseEditor
  <2> QED  BY <1>5, <2>1, <2>2 DEF SteppedApart
<1>6. ASSUME NEW r \in Available(state), ActivateEditor(r) \/ UnpinEditor(r) \/ PinEditor(r)
      PROVE  SteppedApart
  <2>1. r \in Open(state) /\ r \in Resources /\ VisibleIn(state.scope, r)
    BY <1>1, AvailableIs
  <2>2. CASE ActivateEditor(r)
    <3>1. state'.scope = state.scope /\ state'.active = r
      BY <1>1, <2>1, <2>2, ActivatedIs DEF ActivateEditor, Good
    <3> QED  BY <2>1, <3>1, VisibleStep
  <2>3. CASE UnpinEditor(r)
    <3>1. state'.scope = state.scope /\ state'.active = r
      BY <1>1, <2>1, <2>3, UnpinnedIs DEF UnpinEditor
    <3> QED  BY <2>1, <3>1, VisibleStep
  <2>4. CASE PinEditor(r)
    <3>1. state'.scope = state.scope /\ state'.active = state.active
      BY <1>1, <2>1, <2>4, PinnedIs DEF PinEditor
    <3> QED  BY <3>1, VisibleStep
  <2> QED  BY <1>6, <2>2, <2>3, <2>4
<1>7. ASSUME ReopenClosedEditor PROVE SteppedApart
  <2> DEFINE t == Last(closed)
  <2>1. closed # <<>> /\ state' = Opened(state, t.resource, t.pinned)
    BY <1>7 DEF ReopenClosedEditor
  <2>2. t \in Tabs
    BY <1>1, <2>1, FrontKeeps
  <2>3. t.resource \in Resources /\ t.pinned \in BOOLEAN
    BY <2>2, TabIs
  <2> HIDE DEF t
  <2>4. state'.scope = state.scope
    BY <1>1, <2>1, <2>2, <2>3, OpenedIs
  <2> QED  BY <1>7, <2>4 DEF SteppedApart
<1>8. ASSUME NavigateBack \/ NavigateForward PROVE SteppedApart
  <2>1. entries[cursor'] \in Available(state) /\ state' = Activated(state, entries[cursor'])
    BY <1>8, NavigateIs
  <2>2. PICK r \in Available(state) : state' = Activated(state, r)
    BY <2>1
  <2>3. r \in Open(state) /\ VisibleIn(state.scope, r)
    BY <1>1, AvailableIs
  <2>4. state'.scope = state.scope /\ state'.active = r
    BY <1>1, <2>2, <2>3, ActivatedIs DEF Good
  <2> QED  BY <2>3, <2>4, VisibleStep
<1>9. ASSUME NEW s \in Owners \cup {AllProjects}, s # state.scope, state' = Switched(state, s)
      PROVE  SteppedApart
  <2>1. state'.scope = s /\ state'.active # Nobody /\ VisibleIn(s, state'.active)
    BY <1>1, <1>9, SwitchedIs
  <2>2. ~Stray'
    BY <2>1 DEF Stray, VisibleIn
  <2> QED  BY <2>1, <2>2 DEF SteppedApart
<1>10. ASSUME RestartWorkbench PROVE SteppedApart
  BY <1>10, RestartApart DEF SteppedApart
<1>11. ASSUME UNCHANGED workbenchVars PROVE SteppedApart
  BY <1>11, VisibleStep DEF workbenchVars
<1>12. \A d \in Destinations : OpenActivity(d) => SteppedApart
  BY <1>2 DEF OpenActivity
<1>13. \A d \in Unsaved : OpenUnsaved(d) => SteppedApart
  BY <1>2, InboxIs DEF OpenUnsaved
<1>14. \A s \in projects \cup {AllProjects} : SetProjectScope(s) => SteppedApart
  BY <1>1, <1>9 DEF SetProjectScope
<1>15. \A p \in Owners : ProjectCreated(p) => SteppedApart
  <2>1. \A p \in Owners : p \notin projects => p # state.scope
    BY <1>1, WorkbenchAssumption DEF InScope
  <2> QED  BY <1>9, <2>1 DEF ProjectCreated
<1> QED
  BY <1>3, <1>4, <1>5, <1>6, <1>7, <1>8, <1>10, <1>11, <1>12, <1>13, <1>14, <1>15 DEF WorkbenchNext

(* What a restart brings back.                                             *)
RestartedWhole ==
  RestartWorkbench /\ ~unsaved =>
    /\ ArtifactTabs(state'.editors) = LastingArtifacts(state)
    /\ projects # {} /\ Lasting(state) # <<>> =>
         /\ state.scope # AllProjects => state'.scope = state.scope
         /\ state'.scope = state.scope /\ Lasts(state, state.active) =>
              state'.active = state.active

LEMMA RestartsWhole ==
  ASSUME WorkbenchInv
  PROVE  RestartedWhole
<1> SUFFICES ASSUME RestartWorkbench, ~unsaved
             PROVE  /\ ArtifactTabs(state'.editors) = LastingArtifacts(state)
                    /\ projects # {} /\ Lasting(state) # <<>> =>
                         /\ state.scope # AllProjects => state'.scope = state.scope
                         /\ state'.scope = state.scope /\ Lasts(state, state.active) =>
                              state'.active = state.active
  BY DEF RestartedWhole
<1>1. PICK first \in {Welcome, FailureInbox} : state' = Started(first)
  BY DEF RestartWorkbench
<1>2. /\ first \in Destinations /\ projects \in SUBSET Owners /\ saved = state
      /\ Good(saved) /\ InScope(saved)
  BY InboxIs DEF WorkbenchInv
<1>3. saved # Nobody
  BY <1>2, WorkbenchAssumption DEF Good, Holds
<1> DEFINE l == Loaded(first)
           v == Started(first)
<1>4. /\ ArtifactTabs(v.editors) = ArtifactTabs(l.editors)
      /\ v = l \/ (l.scope = AllProjects /\ v.scope \in projects)
  BY <1>2, StartedIs
<1>5. /\ projects # {} /\ Lasting(saved) # <<>> =>
           l.scope = saved.scope /\ (Lasts(saved, saved.active) => l.active = saved.active)
      /\ ArtifactTabs(l.editors) = LastingArtifacts(saved)
  BY <1>2, <1>3, LoadedIs
<1> HIDE DEF l, v
<1>6. state' = v /\ AllProjects \notin projects
  BY <1>1, <1>2, WorkbenchAssumption DEF v
<1> QED  BY <1>2, <1>4, <1>5, <1>6

(* A change of the project always leaves an editor active that belongs to  *)
(* it or to none, and no other step but those it names makes an editor of  *)
(* another project active; unless the last change was not saved, a restart *)
(* brings back the artifacts that were open of projects of the workspace,  *)
(* with their pins and in order, and no other, and the project and the     *)
(* active editor if they last.                                             *)
THEOREM EditorsAlwaysStay == WorkbenchSpec => EditorsStay
<1>1. WorkbenchInv /\ [WorkbenchNext]_workbenchVars => SteppedApart /\ RestartedWhole
  BY StepsApart, RestartsWhole
<1>2. WorkbenchSpec => [][SteppedApart]_workbenchVars
  BY <1>1, WorkbenchInvariant, PTL DEF WorkbenchSpec
<1>3. WorkbenchSpec => [][RestartedWhole]_workbenchVars
  BY <1>1, WorkbenchInvariant, PTL DEF WorkbenchSpec
<1>4. WorkbenchSpec => ProjectsStayApart
  BY <1>2 DEF SteppedApart, ProjectsStayApart
<1>5. WorkbenchSpec => RestartKeepsWork
  BY <1>3 DEF RestartedWhole, RestartKeepsWork
<1> QED  BY <1>4, <1>5 DEF EditorsStay

=============================================================================

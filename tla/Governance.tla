----------------------------- MODULE Governance -----------------------------
(***************************************************************************)
(* What people approve before an assessment runs, in one project: agent    *)
(* specifications drafted from repository snapshots, the binding of        *)
(* finalized revisions to them, task definitions (the taxonomy), quality   *)
(* checks, and the preview and the start of an assessment run.             *)
(*                                                                         *)
(* Three things go on at once: the specification part of the settings      *)
(* screen, its task-definition part, and the evaluation studio.  Each runs *)
(* one background task at a time; tasks of different screens, and the      *)
(* finalization of traces, interleave between control-store transactions.  *)
(* Releases, rules and bindings are content-addressed: a specification is  *)
(* the number of its release, a binding the number of the release it       *)
(* resolves to (0 when unresolved) and, as a rule is made for each         *)
(* reviewed default, also its rule.  created_at orders rows as commits do. *)
(***************************************************************************)
EXTENDS Integers, FiniteSets, FiniteSetsExt, Sequences, SequencesExt, Functions

CONSTANTS
  Revisions,      \* trace revisions, numbered in the order of their identities
  Contents,       \* contents the repository can have
  NodesOf,        \* the task definitions a specification of each content names
  Names,          \* names of quality checks
  MaxDrafts,      \* bound on the specification drafts
  MaxProposals,   \* bound on the taxonomy drafts
  MaxJobs,        \* bound on the runs, after which the studio rests
  None

Nodes == UNION {NodesOf[c] : c \in Contents}

ASSUME GovernanceAssumption ==
  /\ IsFiniteSet(Revisions) /\ Revisions \subseteq Nat
  /\ DOMAIN NodesOf = Contents /\ \A c \in Contents : NodesOf[c] # {}
  /\ {MaxDrafts, MaxProposals, MaxJobs} \subseteq Nat
  /\ None \notin Names

VARIABLES
  finalized,    \* finalized trace revisions
  snapshots,    \* agent_context_source_snapshots, oldest first
  drafts,       \* agent_context_drafts: the snapshot of each, and if activated
  releases,     \* agent_context_releases: the draft of each
  bindings,     \* trace_context_bindings of each revision, oldest first
  backfill,     \* the binding preview of the settings screen
  proposals,    \* taxonomy_change_drafts
  taxonomies,   \* taxonomy_releases
  active,       \* evaluator_releases: the active one of each name, with its
                \* configuration; nothing reads a release that is not active
  studio,       \* the background task of the evaluation studio
  preview,      \* the assessment preview it shows
  jobs          \* assessment_jobs: the selections that were enqueued

contextVars == <<snapshots, drafts, releases>>
taxonomyVars == <<proposals, taxonomies>>
studioVars == <<studio, preview>>
vars == <<finalized, contextVars, bindings, backfill, taxonomyVars, active, studioVars, jobs>>

Idle == [at |-> "idle"]

Init ==
  /\ finalized = {} /\ snapshots = <<>> /\ drafts = <<>>
  /\ releases = <<>> /\ bindings = [r \in Revisions |-> <<>>] /\ backfill = None
  /\ proposals = <<>> /\ taxonomies = <<>>
  /\ active = [n \in Names |-> None] /\ studio = Idle /\ preview = None /\ jobs = {}

-----------------------------------------------------------------------------
(* The surroundings.                                                       *)

Finalize(r) ==
  /\ r \notin finalized /\ finalized' = finalized \cup {r}
  /\ UNCHANGED <<contextVars, bindings, backfill, taxonomyVars, active, studioVars, jobs>>

(* Previews and running tasks live in the process.                         *)
Restart ==
  /\ studio' = Idle /\ preview' = None /\ backfill' = None
  /\ UNCHANGED <<finalized, contextVars, bindings, taxonomyVars, active, jobs>>

-----------------------------------------------------------------------------
(* Agent specifications.                                                   *)

InReview(rows) == {d \in DOMAIN rows : ~rows[d].activated}
Snapshot(d) == drafts[d].snapshot
Specification(k) == snapshots[Snapshot(releases[k])]

(* record_context_source_snapshot: a content is recorded once.             *)
Recorded(c) == IF c \in Range(snapshots) THEN snapshots ELSE Append(snapshots, c)

(* prepare_agent_context_from_repository: the repository has any content   *)
(* by then, and the process may end before the draft is created.           *)
Prepare(c) ==
  /\ Len(drafts) < MaxDrafts
  /\ snapshots' = Recorded(c)
  /\ \E made \in {drafts, Append(drafts, [snapshot |-> IndexFirstSubSeq(<<c>>, Recorded(c)),
                                          activated |-> FALSE])} : drafts' = made
  /\ UNCHANGED <<finalized, releases, bindings, backfill, taxonomyVars, active,
                 studioVars, jobs>>

(* The snapshot of the draft is the newest one of its repository.          *)
OfNewestSource(d) == Snapshot(d) = Len(snapshots)

(* approve_agent_context_draft on the newest draft in review.              *)
Approve ==
  /\ InReview(drafts) # {}
  /\ LET d == Max(InReview(drafts))
     IN /\ OfNewestSource(d)
        /\ releases' = Append(releases, d)
        /\ drafts' = [drafts EXCEPT ![d].activated = TRUE]
  /\ UNCHANGED <<finalized, snapshots, bindings, backfill, taxonomyVars, active,
                 studioVars, jobs>>

-----------------------------------------------------------------------------
(* Bindings.                                                               *)

(* The newest binding of a revision, made when there is none.              *)
Ensured(r) == IF bindings[r] = <<>> THEN <<0>> ELSE bindings[r]
Newest(r) == Last(Ensured(r))

PreviewDefault ==
  /\ releases # <<>>
  /\ backfill' = [release |-> Len(releases), revisions |-> finalized]
  /\ UNCHANGED <<finalized, contextVars, bindings, taxonomyVars, active, studioVars, jobs>>

(* The selection is still the set of finalized revisions.                  *)
Selected(set) == set = finalized

(* apply_reviewed_default_context_backfill: one rule, one binding for each *)
(* revision that has none under that rule.                                 *)
ApplyDefault ==
  /\ backfill # None /\ Selected(backfill.revisions)
  /\ LET k == backfill.release
     IN bindings' = [r \in Revisions |->
          IF r \in finalized /\ k \notin Range(bindings[r]) THEN Append(bindings[r], k)
          ELSE bindings[r]]
  /\ backfill' = None
  /\ UNCHANGED <<finalized, contextVars, taxonomyVars, active, studioVars, jobs>>

-----------------------------------------------------------------------------
(* Task definitions.                                                       *)

Defined(k) == IF k = 0 THEN {} ELSE taxonomies[k].nodes

(* prepare_taxonomy_from_agent_context adds what the newest specification  *)
(* names to the active release.                                            *)
Propose ==
  /\ releases # <<>> /\ Len(proposals) < MaxProposals
  /\ LET base == Len(taxonomies)
     IN proposals' = Append(proposals,
          [base |-> base, activated |-> FALSE,
           nodes |-> Defined(base) \cup NodesOf[Specification(Len(releases))]])
  /\ UNCHANGED <<finalized, contextVars, bindings, backfill, taxonomies, active, studioVars,
                 jobs>>

(* approve_taxonomy_change_draft on the newest draft in review, whatever   *)
(* release is active by now.                                               *)
ApproveTaxonomy ==
  /\ InReview(proposals) # {}
  /\ LET d == Max(InReview(proposals))
     IN /\ taxonomies' = Append(taxonomies, [base |-> proposals[d].base,
                                             nodes |-> proposals[d].nodes])
        /\ proposals' = [proposals EXCEPT ![d].activated = TRUE]
  /\ UNCHANGED <<finalized, contextVars, bindings, backfill, active, studioVars, jobs>>

-----------------------------------------------------------------------------
(* Quality checks.                                                         *)

(* The studio starts no task before the last one ended.                    *)
Ready == studio = Idle /\ Cardinality(jobs) < MaxJobs

NodesExistOnScreen(nodes, taxonomy) == nodes # {} => taxonomy # 0
(* The definitions a check applies to are those of its taxonomy release.   *)
NodesExist(nodes, taxonomy) == nodes \subseteq Defined(taxonomy)

(* publish_task_completion_quality_check: the definitions are those of the *)
(* release the screen loaded, the specification and the taxonomy release   *)
(* are the newest ones.                                                    *)
Publish(n) ==
  /\ Ready /\ releases # <<>>
  /\ \E loaded \in 0..Len(taxonomies) :
       LET nodes == Defined(loaded)
           taxonomy == IF nodes = {} THEN 0 ELSE Len(taxonomies)
       IN /\ NodesExist(nodes, taxonomy)
          /\ studio' = [at |-> "publishing",
                        check |-> [name |-> n, context |-> Len(releases),
                                   taxonomy |-> taxonomy, nodes |-> nodes]]
  /\ UNCHANGED <<finalized, contextVars, bindings, backfill, taxonomyVars, active, preview,
                 jobs>>

(* activate_evaluator_release_in_transaction.                              *)
ActivateCheck ==
  /\ studio.at = "publishing"
  /\ active' = [active EXCEPT ![studio.check.name] = studio.check]
  /\ studio' = Idle
  /\ UNCHANGED <<finalized, contextVars, bindings, backfill, taxonomyVars, preview, jobs>>

IsActive(check) == active[check.name] = check

-----------------------------------------------------------------------------
(* Preview and start of a run.                                             *)

(* preview_assessment_backfill on all finalized revisions.                 *)
Preview(n) ==
  /\ Ready /\ active[n] # None /\ finalized # {}
  /\ studio' = [at |-> "previewing", check |-> active[n], todo |-> finalized, targets |-> <<>>]
  /\ UNCHANGED <<finalized, contextVars, bindings, backfill, taxonomyVars, active, preview,
                 jobs>>

(* enqueue_assessment_job_from_preview: a repeated call returns the job it *)
(* made; else the selection is prepared again.                             *)
Run ==
  /\ Ready /\ preview # None /\ preview \notin jobs /\ IsActive(preview.check)
  /\ studio' = [at |-> "rechecking", check |-> preview.check,
                todo |-> DOMAIN preview.targets, targets |-> <<>>]
  /\ UNCHANGED <<finalized, contextVars, bindings, backfill, taxonomyVars, active, preview,
                 jobs>>

Selection == [check |-> studio.check, targets |-> studio.targets]

(* prepare_task_completion_backfill takes one transaction for the binding  *)
(* of each revision.                                                       *)
Bind ==
  /\ studio.at \in {"previewing", "rechecking"} /\ studio.todo # {}
  /\ LET r == Min(studio.todo)
         bound == [t \in DOMAIN studio.targets \cup {r} |->
                     IF t = r THEN Newest(r) ELSE studio.targets[t]]
     IN /\ bindings' = [bindings EXCEPT ![r] = Ensured(r)]
        /\ studio' = [studio EXCEPT !.todo = @ \ {r}, !.targets = bound]
  /\ UNCHANGED <<finalized, contextVars, backfill, taxonomyVars, active, preview, jobs>>

Show ==
  /\ studio.at = "previewing" /\ studio.todo = {}
  /\ preview' = Selection /\ studio' = Idle
  /\ UNCHANGED <<finalized, contextVars, bindings, backfill, taxonomyVars, active, jobs>>

AssumedCurrent(job) == TRUE
(* What the transaction checks again: the evaluator and every binding.     *)
Current(job) ==
  /\ IsActive(job.check)
  /\ \A r \in DOMAIN job.targets : r \in finalized /\ Newest(r) = job.targets[r]

(* The selection hash of the preview is compared before the transaction.   *)
Compare ==
  /\ studio.at = "rechecking" /\ studio.todo = {}
  /\ studio' = IF Selection = preview THEN [studio EXCEPT !.at = "enqueuing"] ELSE Idle
  /\ UNCHANGED <<finalized, contextVars, bindings, backfill, taxonomyVars, active, preview,
                 jobs>>

Enqueue ==
  /\ studio.at = "enqueuing"
  /\ jobs' = IF Current(Selection) THEN jobs \cup {Selection} ELSE jobs
  /\ studio' = Idle
  /\ UNCHANGED <<finalized, contextVars, bindings, backfill, taxonomyVars, active, preview>>

-----------------------------------------------------------------------------
Next ==
  \/ \E r \in Revisions : Finalize(r)
  \/ Restart
  \/ \E c \in Contents : Prepare(c)
  \/ Approve \/ PreviewDefault \/ ApplyDefault
  \/ Propose \/ ApproveTaxonomy
  \/ \E n \in Names : Publish(n) \/ Preview(n)
  \/ ActivateCheck \/ Run \/ Bind \/ Show \/ Compare \/ Enqueue

Spec == Init /\ [][Next]_vars

-----------------------------------------------------------------------------
(* Properties.                                                             *)

Checks == [name : Names, context : DOMAIN releases, taxonomy : 0..Len(taxonomies),
           nodes : SUBSET Nodes]

TypeOK ==
  /\ finalized \subseteq Revisions /\ snapshots \in Seq(Contents)
  /\ \A d \in DOMAIN drafts : Snapshot(d) \in DOMAIN snapshots /\ drafts[d].activated \in BOOLEAN
  /\ releases \in Seq(DOMAIN drafts)
  /\ bindings \in [Revisions -> Seq(0..Len(releases))]
  /\ backfill # None => backfill.release \in DOMAIN releases /\ backfill.revisions \subseteq finalized
  /\ \A t \in Range(proposals) \cup Range(taxonomies) :
       t.base \in 0..Len(taxonomies) /\ t.nodes \in SUBSET Nodes
  /\ active \in [Names -> Checks \cup {None}]
  /\ studio.at \in {"idle", "publishing", "previewing", "rechecking", "enqueuing"}
  /\ \A s \in (jobs \cup {preview}) \ {None} :
       s.check \in Checks /\ DOMAIN s.targets \subseteq finalized

(* A specification in use never goes back to an older source: releases     *)
(* follow the order of the snapshots, each of a draft that is then closed. *)
SourcesNeverGoBack ==
  /\ \A j, k \in DOMAIN releases : j < k =>
       releases[j] # releases[k] /\ Snapshot(releases[j]) <= Snapshot(releases[k])
  /\ {d \in DOMAIN drafts : drafts[d].activated} = Range(releases)

(* A revision has one binding for each rule, and is unresolved only before *)
(* any rule applied to it.                                                 *)
OneBindingPerRule ==
  \A r \in Revisions :
    /\ \A i, j \in DOMAIN bindings[r] : i # j => bindings[r][i] # bindings[r][j]
    /\ \A i \in DOMAIN bindings[r] : bindings[r][i] = 0 => i = 1
    /\ r \notin finalized => bindings[r] = <<>>

(* The definitions a published check applies to are definitions of the     *)
(* taxonomy release it names, whatever was activated while it was made.    *)
ChecksApply ==
  \A n \in Names : active[n] # None => active[n].nodes \subseteq Defined(active[n].taxonomy)

(* A definition disappears only when a draft is activated that was made    *)
(* before the release that has it.                                         *)
LossIsAFork ==
  \A k \in DOMAIN taxonomies :
    /\ taxonomies[k].base < k /\ Defined(taxonomies[k].base) \subseteq taxonomies[k].nodes
    /\ ~(Defined(k - 1) \subseteq taxonomies[k].nodes) => taxonomies[k].base < k - 1

GovernanceIsSound ==
  TypeOK /\ SourcesNeverGoBack /\ OneBindingPerRule /\ ChecksApply /\ LossIsAFork

(* A run starts only as somebody saw it previewed, with an evaluator that  *)
(* is active and, for every revision, the binding that is the newest at    *)
(* that moment, however settings and finalizations interleaved.            *)
JobsAreFresh ==
  [][\A job \in jobs' \ jobs :
       /\ job = preview /\ IsActive(job.check)
       /\ \A r \in DOMAIN job.targets : bindings[r] # <<>> /\ Last(bindings[r]) = job.targets[r]]_vars

(* A reviewed default binds the revisions that were previewed, and no      *)
(* other; it is then in force on all of them, and the bindings they had    *)
(* stay.                                                                   *)
BackfillsAreExact ==
  [][/\ \A r \in Revisions : IsPrefix(bindings[r], bindings'[r])
     /\ \A r \in Revisions : bindings'[r] # bindings[r] /\ Last(bindings'[r]) # 0 =>
          backfill # None /\ r \in backfill.revisions
     /\ backfill # None /\ backfill' = None /\ bindings' # bindings =>
          \A r \in backfill.revisions : Last(bindings'[r]) = backfill.release]_vars

(* What was previewed is what is done.                                     *)
StepsAreExact == JobsAreFresh /\ BackfillsAreExact

=============================================================================

------------------------------ MODULE MCDesktop ------------------------------
(* What people do at the desktop application, in behaviours of six kinds    *)
(* that share no state: the reviews of three people with a correction, a    *)
(* fault and one release, those with two releases, those of people who see  *)
(* output that nothing withholds, the editors of two projects, the          *)
(* investigation of two groups, and the model's installation.               *)
EXTENDS MCReviews, Workbench, Investigation, ModelInstall

CONSTANTS p1, p2, group1, trace2, trace3, evals, a1, a2, b1, g1, g2, c1, c2, c3

VARIABLE part

MCOwner == (group1 :> p1) @@ (trace2 :> p2) @@ (trace3 :> Unassigned)
MCDestinations == {FailureInbox, Welcome, Runs, evals}
MCActivity ==
  (FailureInbox :> "failures") @@ (group1 :> "failures") @@ (Runs :> "runs") @@
  (trace2 :> "runs") @@ (trace3 :> "runs") @@ (Welcome :> "sources") @@ (evals :> "evals")
MCScreen == [r \in Resources |-> IF r \in {FailureInbox, group1, trace2, trace3} THEN "failures" ELSE r]
MCScreens == {"failures", Runs, Welcome, evals}
MCOpening == [s \in MCScreens |-> IF s = "failures" THEN FailureInbox ELSE s]

MCOccurrences == (g1 :> <<a1, a2>>) @@ (g2 :> <<b1>>)
MCTraceOf == (a1 :> "t1") @@ (a2 :> "t1") @@ (b1 :> "t2")
MCTraceTabs == {[finding |-> b1, origin |-> FromRuns],
                [finding |-> a1, origin |-> FromGroup(g1, a1, 0)]}

MCVersionOf == (c1 :> "v1") @@ (c2 :> "v1") @@ (c3 :> "v2")

DesktopInit ==
  /\ Init /\ WorkbenchInit /\ InvestigationInit /\ InstallInit
  /\ part \in {"reviews", "releases", "glances", "editors", "investigation", "model"}
  /\ part # "editors" => projects = {} /\ state.active = Welcome

DesktopNext ==
  \/ /\ part \in {"reviews", "releases", "glances"} /\ Next
     /\ part # "releases" => Len(releases') <= 1
     /\ part # "glances" => exposed' = {}
     /\ part # "reviews" => corrections' = 0 /\ faults' = 0
     /\ UNCHANGED <<part, workbenchVars, investigationVars, installVars>>
  \/ /\ part = "editors" /\ WorkbenchNext
     /\ UNCHANGED <<part, vars, investigationVars, installVars>>
  \/ /\ part = "investigation" /\ InvestigationNext
     /\ UNCHANGED <<part, vars, workbenchVars, installVars>>
  \/ /\ part = "model" /\ InstallNext
     /\ UNCHANGED <<part, vars, workbenchVars, investigationVars>>

DesktopSpec ==
  DesktopInit /\ [][DesktopNext]_<<part, vars, workbenchVars, investigationVars, installVars>>

=============================================================================

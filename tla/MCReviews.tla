------------------------------ MODULE MCReviews ------------------------------
(* Reviews with two cases in two sessions, one of them with a copy.        *)
EXTENDS Reviews, TLC

CONSTANTS ann, bob, eve, completed, failed

MCCase == (1 :> "x") @@ (2 :> "x") @@ (3 :> "y")
MCGroup == ("x" :> 2) @@ ("y" :> 1)
MCHashed == (1 :> "calibration") @@ (2 :> "calibration")
MCReviewers == {ann, bob, eve}
MCLabels == {completed, failed}
MCSymmetry == Permutations(MCReviewers) \cup Permutations(MCLabels)

=============================================================================

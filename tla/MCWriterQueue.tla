--------------------------- MODULE MCWriterQueue ---------------------------
(* Model values for WriterQueue, and the behaviours of two kinds that one   *)
(* run looks at.  In one the exporters submit, once the job a former        *)
(* process left is done, and the interface queues one eval batch.  In the   *)
(* other no exporter submits, and the interface queues two batches while    *)
(* the candidate worker executes that job: the first call fills the         *)
(* candidate channel, the second meets it full.                             *)
EXTENDS WriterQueue, TLC

CONSTANTS r1, r2, j1, j2, j3, w1

(* The second request alone exceeds a microbatch, and leaves no budget.    *)
MCSize == (r1 :> 1) @@ (r2 :> 2)

Exporting == \E r \in Requests : request[r] # "new"
Called == {j \in Jobs \ Restored : caller[j] # "new"}
OneOfTheKinds == Exporting => Called \subseteq {j1} /\ pending \cap Restored = {}

MCNext == Next /\ OneOfTheKinds'
MCSpec == Init /\ [][MCNext]_vars /\ Fairness

=============================================================================

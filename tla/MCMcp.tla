-------------------------------- MODULE MCMcp --------------------------------
(* Listings of three rows for an agent: every kind of query, an order of    *)
(* groups that is not the store's, and two sessions of which one has two    *)
(* runs.                                                                    *)
EXTENDS McpSession, TLC

MCListRows == 1..3
MCQueries == {"projects", "runs", "groups", "sessions"}
MCInitially ==
  [q \in MCQueries |-> IF q \in {"projects", "groups"} THEN <<1, 2, 3>> ELSE <<3, 2, 1>>]
MCRank == (1 :> 2) @@ (2 :> 3) @@ (3 :> 1)
MCSessionOf == (1 :> 1) @@ (2 :> 2) @@ (3 :> 1)
MCEndsAt == (1 :> 1) @@ (2 :> 2) @@ (3 :> 3)

==============================================================================

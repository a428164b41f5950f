--------------------------- MODULE MC_AdminSurface ---------------------------
EXTENDS AdminSurface, TLC

CONSTANTS n1, n2, r1, r2

(* Two nodes, one registered under the first role key and one under the   *)
(* last, so that the deletion order matters.                               *)
MCNodes == {n1, n2}
MCRoleOrder == <<"ingestor", "indexer", "querier", "prism">>
MCRoleOf == n1 :> "ingestor" @@ n2 :> "prism"
MCCalls == {r1, r2}
=============================================================================

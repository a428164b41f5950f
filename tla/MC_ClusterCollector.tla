-------------------------- MODULE MC_ClusterCollector --------------------------
(* Two nodes: enough for one node to fail while another succeeds, in each  *)
(* half of the tick and in an info request.                                *)
EXTENDS ClusterCollector
CONSTANTS n1, n2

MCNodes == {n1, n2}
=============================================================================

------------------------------ MODULE MC_FanOut ------------------------------
(* Three ingestors, two concurrent calls: a valid and an invalid          *)
(* broadcast operation name and the three per-ingestor helpers.            *)
EXTENDS FanOut
CONSTANTS p1, p2, p3, c1, c2

MCPeers == {p1, p2, p3}
MCOrder == <<p1, p2, p3>>
MCCalls == {c1, c2}
MCOps == {"add", "bogus", "demo", "stream_delete", "retention"}
MCValidOps == {"add"}
=============================================================================

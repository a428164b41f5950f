------------------------ MODULE MC_QuerierDispatcher ------------------------
(* Instantiates QuerierDispatcher for TLC: three queriers a, b, c that     *)
(* QUERIER_MAP iterates in the order a, b, c (one order a HashMap can      *)
(* have; any other is the same up to renaming), and one or two tasks.     *)
EXTENDS QuerierDispatcher

CONSTANTS a, b, c, r1, r2

MCDomain == {a, b, c}
MCOrder == <<a, b, c>>
MCOneRequest == {r1}
MCTwoRequests == {r1, r2}
=============================================================================

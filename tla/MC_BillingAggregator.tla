------------------------ MODULE MC_BillingAggregator ------------------------
(* Three families with one metric each (events ingested and parquets       *)
(* stored are two simple metrics), one unknown metric, one date, and       *)
(* values in tenths.  The sample set holds every case process_sample       *)
(* distinguishes: each family with all its labels, with a label missing,   *)
(* with an extra label (a second series with the same pivot key), a gauge, *)
(* an unknown metric, a fractional, a negative, a NaN and a saturating     *)
(* value.  A scrape is any list of at most three of them.                 *)
EXTENDS BillingAggregator
CONSTANTS evIngested, parqStored, osCalls, llmIn, uptime, nan

MCSimple == {evIngested, parqStored}
MCObjectStore == {osCalls}
MCLlm == {llmIn}
MCOther == {uptime}
MCLabelNames == {"date", "method", "provider", "model", "stream"}

Smp(m, k, l, v) == [metric |-> m, kind |-> k, labels |-> l, value |-> v]

MCSamples ==
    { Smp(evIngested, "counter", [date |-> "d1"], 50),
      Smp(evIngested, "counter", [date |-> "d1", stream |-> "s2"], 20),
      Smp(parqStored, "counter", [date |-> "d1"], 5),
      Smp(parqStored, "counter", [stream |-> "s1"], 30),
      Smp(parqStored, "gauge", [date |-> "d1"], 70),
      Smp(osCalls, "counter", [method |-> "GET", date |-> "d1"], 999),
      Smp(osCalls, "counter", [date |-> "d1"], 30),
      Smp(llmIn, "counter", [provider |-> "p", model |-> "g", date |-> "d1"], nan),
      Smp(llmIn, "counter", [provider |-> "p", model |-> "g", date |-> "d1"], -10),
      Smp(llmIn, "counter", [provider |-> "p", date |-> "d1"], 40),
      Smp(uptime, "counter", [date |-> "d1"], 40) }

MCInputs == UNION {[1..n -> MCSamples] : n \in 0..3}
=============================================================================

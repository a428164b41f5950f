------------------------- MODULE BillingAggregator -------------------------
(***************************************************************************)
(* The billing aggregator of one node scrape: extract_billing_metrics_from *)
(* _samples folds the Prometheus samples into a BillingMetricsCollector    *)
(* (process_sample and its three process_* helpers), then into_events      *)
(* explodes the collector into BillingMetricEvent rows.                    *)
(*                                                                         *)
(* The collector's twelve nested HashMaps are one partial function from a  *)
(* pivot key [metric, method, provider, model, date] to the stored u64:    *)
(* the code never leaves an empty inner map (or_insert_with is always      *)
(* followed by insert), so the nesting carries nothing the flat key does   *)
(* not.  A metric name stands for its collector field and for the event's  *)
(* metric_type.  The node address, node type and event time are the same   *)
(* for every event of one collector and are left out.                      *)
(***************************************************************************)
EXTENDS Integers, Sequences, FiniteSets

CONSTANTS
    SimpleMetrics,       \* is_simple_metric: the 7 date-keyed families
    ObjectStoreMetrics,  \* is_object_store_metric: method -> date
    LlmMetrics,          \* is_llm_metric: provider -> model -> date
    OtherMetrics,        \* every other metric name a node exports
    LabelNames,          \* label names a sample may carry
    Scale,               \* a sample value v stands for the f64 v / Scale
    NaN,                 \* the f64 NaN
    U64Max,              \* the largest u64, scaled down
    Samples,             \* the samples a node may export
    Inputs,              \* the sample lists a scrape may produce
    None

ASSUME BillingAssumption ==
    /\ Scale \in Nat \ {0}
    /\ U64Max \in Nat
    /\ {"date", "method", "provider", "model"} \subseteq LabelNames
    /\ SimpleMetrics \cap ObjectStoreMetrics = {}
    /\ SimpleMetrics \cap LlmMetrics = {}
    /\ ObjectStoreMetrics \cap LlmMetrics = {}
    /\ OtherMetrics \cap (SimpleMetrics \cup ObjectStoreMetrics \cup LlmMetrics) = {}
    /\ NaN \notin Int
    /\ \A s \in Samples : s.value \in Int \cup {NaN}
    /\ Inputs \subseteq Seq(Samples)

VARIABLES
    samples,    \* the scrape's samples, in exposition order
    i,          \* how many samples the for loop of 1229-1233 has consumed
    pivot,      \* the BillingMetricsCollector, flattened
    events,     \* the result of into_events
    phase       \* "collect" while folding, "done" once into_events returned

vars == <<samples, i, pivot, events, phase>>

-----------------------------------------------------------------------------
(* Samples.                                                                *)

(* The label value of name k, None when the sample has no such label.      *)
Label(s, k) == IF k \in DOMAIN s.labels THEN s.labels[k] ELSE None

(* Mutant: a conversion that does not saturate.                          *)
AsU64Unsaturated(v) ==
    IF v = NaN \/ v <= 0 THEN 0 ELSE v \div Scale

(* `val as u64`: Rust's float-to-int cast truncates toward zero, maps NaN  *)
(* and negatives to 0 and saturates at u64::MAX.                           *)
AsU64(v) ==
    IF v = NaN \/ v <= 0 THEN 0
    ELSE IF v \div Scale > U64Max THEN U64Max ELSE v \div Scale

(* The labels each family requires (the if-let patterns of 1298, 1348 and  *)
(* 1377); a metric of no family has no handler (the `_ => {}` arm).        *)
RequiredLabels(m) ==
    CASE m \in SimpleMetrics      -> {"date"}
      [] m \in ObjectStoreMetrics -> {"method", "date"}
      [] m \in LlmMetrics         -> {"provider", "model", "date"}

KnownMetrics == SimpleMetrics \cup ObjectStoreMetrics \cup LlmMetrics

(* process_sample stores a sample iff it is a counter of a known family    *)
(* that carries every label its family requires.                          *)
Stored(s) ==
    /\ s.kind = "counter"
    /\ s.metric \in KnownMetrics
    /\ RequiredLabels(s.metric) \subseteq DOMAIN s.labels

(* The collector slot a stored sample is written to: the labels its family *)
(* does not use are not part of the key.                                   *)
Key(s) ==
    [metric   |-> s.metric,
     method   |-> IF s.metric \in ObjectStoreMetrics THEN Label(s, "method") ELSE None,
     provider |-> IF s.metric \in LlmMetrics THEN Label(s, "provider") ELSE None,
     model    |-> IF s.metric \in LlmMetrics THEN Label(s, "model") ELSE None,
     date     |-> Label(s, "date")]

(* The collector p after `insert(key, v)`: the slot is created or        *)
(* overwritten, every other slot kept.                                     *)
Insert(p, key, v) ==
    [k \in DOMAIN p \cup {key} |-> IF k = key THEN v ELSE p[k]]

-----------------------------------------------------------------------------
(* Mutant: the collector adds a repeated key's value instead of replacing  *)
(* it.                                                                     *)
ProcessSampleAccumulate ==
    /\ phase = "collect"
    /\ i < Len(samples)
    /\ LET s == samples[i + 1]
       IN  pivot' = IF ~Stored(s) THEN pivot
                    ELSE IF Key(s) \in DOMAIN pivot
                         THEN [pivot EXCEPT ![Key(s)] = @ + AsU64(s.value)]
                         ELSE Insert(pivot, Key(s), AsU64(s.value))
    /\ i' = i + 1
    /\ UNCHANGED <<samples, events, phase>>

(* One iteration of the loop of extract_billing_metrics_from_samples: a    *)
(* counter sample goes through process_sample to the handler of its        *)
(* family, which inserts date -> value (or method -> date -> value, or     *)
(* provider -> model -> date -> value), replacing what an earlier sample   *)
(* with the same key stored; any other sample is skipped.                  *)
ProcessSample ==
    /\ phase = "collect"
    /\ i < Len(samples)
    /\ LET s == samples[i + 1]
       IN  pivot' = IF Stored(s)
                    THEN Insert(pivot, Key(s), AsU64(s.value))
                    ELSE pivot
    /\ i' = i + 1
    /\ UNCHANGED <<samples, events, phase>>

(* The event row of one collector slot.                                    *)
Event(k, v) ==
    [metric |-> k.metric, method |-> k.method, provider |-> k.provider,
     model |-> k.model, date |-> k.date, value |-> v]

(* Mutant: into_events without the `*value > 0` filter.                    *)
ExplodeKeepsZero(p) == {Event(k, p[k]) : k \in DOMAIN p}

(* into_events: add_simple_metrics, add_object_store_metrics and           *)
(* add_llm_metrics walk every non-empty map and emit one row per slot      *)
(* whose value is positive.                                                *)
Explode(p) == {Event(k, p[k]) : k \in {k2 \in DOMAIN p : p[k2] > 0}}

(* The loop is over; the collector is consumed by into_events.            *)
IntoEvents ==
    /\ phase = "collect"
    /\ i = Len(samples)
    /\ events' = Explode(pivot)
    /\ phase' = "done"
    /\ UNCHANGED <<samples, i, pivot>>

(* BillingMetricsCollector::new: every map empty.                          *)
Init ==
    /\ samples \in Inputs
    /\ i = 0
    /\ pivot = <<>>
    /\ events = {}
    /\ phase = "collect"

Next == ProcessSample \/ IntoEvents

Spec == Init /\ [][Next]_vars

-----------------------------------------------------------------------------
(* Properties.                                                             *)

(* The collector's slots hold u64 values, at most one per key.            *)
TypeOK ==
    /\ samples \in Inputs
    /\ i \in 0..Len(samples)
    /\ DOMAIN pivot \subseteq {Key(s) : s \in {samples[j] : j \in 1..Len(samples)}}
    /\ \A k \in DOMAIN pivot : pivot[k] \in 0..U64Max
    /\ phase \in {"collect", "done"}

(* Reference: among the first n samples of seq, sample j is what the     *)
(* collector keeps for its key iff it is stored and no later stored sample *)
(* of those n has the same key.                                            *)
StoredIndices(seq, n) == {j \in 1..n : Stored(seq[j])}

LastOfKey(seq, n, j) ==
    /\ j \in StoredIndices(seq, n)
    /\ \A j2 \in StoredIndices(seq, n) : Key(seq[j2]) = Key(seq[j]) => j2 <= j

(* Reference: the rows a scrape of seq is billed for, defined without the  *)
(* fold: one row per key, carrying the truncated value of the key's last   *)
(* stored sample, when that value is positive.                            *)
BilledRows(seq) ==
    {Event(Key(seq[j]), AsU64(seq[j].value)) :
        j \in {j2 \in 1..Len(seq) : LastOfKey(seq, Len(seq), j2) /\ AsU64(seq[j2].value) > 0}}

(* After the first i samples, the collector holds, for every key seen, the *)
(* truncated value of the last counter sample with that key that carried   *)
(* its family's labels: a later sample with the same key overwrites, a     *)
(* gauge, an unknown metric or a sample missing a label leaves it alone.   *)
PivotIsLastWrite ==
    /\ DOMAIN pivot = {Key(samples[j]) : j \in StoredIndices(samples, i)}
    /\ \A j \in 1..i :
         LastOfKey(samples, i, j) => pivot[Key(samples[j])] = AsU64(samples[j].value)

(* Spec 4.5 and 8.6: the events returned by                                *)
(* extract_billing_metrics_from_samples are exactly the reference rows:    *)
(* no zero row, no row for a skipped sample, one row per key.              *)
EventsAreBilledRows ==
    phase = "done" => events = BilledRows(samples)

=============================================================================

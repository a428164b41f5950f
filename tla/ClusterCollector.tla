-------------------------- MODULE ClusterCollector --------------------------
(***************************************************************************)
(* The cluster-wide collector, the scheduler job that drives it            *)
(* (init_cluster_metrics_schedular), and GET /cluster/info, which walks   *)
(* the same node lists.  Every minute the job runs, in order:             *)
(*   1. fetch_cluster_metrics: get_node_info for the four roles, then      *)
(*      fetch_nodes_metrics / fetch_node_metrics on every node; a          *)
(*      non-empty result is ingested into pmeta;                           *)
(*   2. fetch_cluster_billing_metrics: the same over                       *)
(*      fetch_nodes_billing_metrics / fetch_node_billing_metrics; a        *)
(*      non-empty result is ingested into pbilling.                        *)
(* get_cluster_info runs whenever a client asks, concurrently with the    *)
(* job; it shares no state with it.                                        *)
(*                                                                         *)
(* Each pass loads the four roles' metadata with join4 and fails at the   *)
(* first `?` on an error, so the four results are one boolean: did all of  *)
(* them load.  The nodes are fetched concurrently (buffer_unordered), but  *)
(* the result is a function of the per-node outcomes alone (it is          *)
(* collected into a Vec whose order nothing reads), so each pass is one   *)
(* step that chooses the outcomes.  Metrics, billing rows and ClusterInfo  *)
(* records are abstracted to the nodes they came from.                     *)
(***************************************************************************)
EXTENDS Naturals, FiniteSets

CONSTANTS
    Nodes,      \* every node registered in the metastore
    Faults      \* metastore errors, dead nodes, transport and parse errors

ASSUME CollectorAssumption == Faults \in BOOLEAN

VARIABLES
    phase,      \* "metrics" or "billing": the half the next tick step runs
    mMeta,      \* did every get_node_info of the metrics half succeed
    mScrape,    \* per node: the outcome of fetch_node_metrics
    mSent,      \* the nodes whose metrics went to pmeta ({}: nothing sent)
    bMeta,      \* the same three for the billing half
    bScrape,
    bSent,
    iMeta,      \* the same for the last GET /cluster/info
    about,      \* per node: the outcome of its /about request
    response    \* the answer of the last GET /cluster/info

vars == <<phase, mMeta, mScrape, mSent, bMeta, bScrape, bSent, iMeta, about, response>>

(* fetch_node_metrics: dead (liveness false, Ok(None)), unreachable (send  *)
(* failed, Ok(None)), bad (URL, body read, exposition parse or             *)
(* from_prometheus_samples failed: Err) or ok (Ok(Some(metrics))).         *)
MetricsOutcomes == {"dead", "unreachable", "bad", "ok"}

(* fetch_node_billing_metrics: the same, with ok split by whether the      *)
(* samples held any positive billing counter.                              *)
BillingOutcomes == {"dead", "unreachable", "bad", "rows", "no_rows"}

(* fetch_node_info: the send fails (a ClusterInfo with reachable = false), *)
(* or a response arrives, whatever its status, and its body is read and    *)
(* parsed: either it is JSON with a string field "staging" (reachable =    *)
(* true), or the body read, the JSON parse, the field lookup or the string *)
(* check fails, and the error is returned with `?`.                        *)
AboutOutcomes == {"send_failed", "answered", "malformed"}

MetaOutcomes == IF Faults THEN BOOLEAN ELSE {TRUE}

ScrapeChoices(outcomes) ==
    IF Faults THEN [Nodes -> outcomes]
    ELSE [Nodes -> outcomes \ {"dead", "unreachable", "bad", "send_failed", "malformed"}]

(* A pass that returned Err.                                               *)
Failed == [ok |-> FALSE, nodes |-> {}]

-----------------------------------------------------------------------------
(* fetch_cluster_metrics (1151-1220) over fetch_nodes_metrics (1120-1149): *)
(* a metadata error, then any node's Err, fails the whole pass; Ok(None)   *)
(* nodes are skipped.  A successful pass yields the nodes that returned    *)
(* Some.                                                                   *)
ClusterMetrics(loaded, scrape) ==
    IF ~loaded THEN Failed
    ELSE IF \E n \in Nodes : scrape[n] = "bad" THEN Failed
    ELSE [ok |-> TRUE, nodes |-> {n \in Nodes : scrape[n] = "ok"}]

(* Mutant: fetch_nodes_billing_metrics returns the first node's error, as  *)
(* fetch_nodes_metrics does.                                               *)
ClusterBillingStrict(loaded, scrape) ==
    IF ~loaded THEN Failed
    ELSE IF \E n \in Nodes : scrape[n] = "bad" THEN Failed
    ELSE [ok |-> TRUE, nodes |-> {n \in Nodes : scrape[n] = "rows"}]

(* fetch_cluster_billing_metrics (1489-1554) over                          *)
(* fetch_nodes_billing_metrics (1458-1487): a metadata error fails the     *)
(* pass; a node's Err is logged and skipped; the result is every row of    *)
(* the other nodes.                                                        *)
ClusterBilling(loaded, scrape) ==
    IF ~loaded THEN Failed
    ELSE [ok |-> TRUE, nodes |-> {n \in Nodes : scrape[n] = "rows"}]

(* The ClusterInfo of a node whose fetch_node_info returned Ok.            *)
Info(n, outcome) == [node |-> n, reachable |-> outcome = "answered"]

(* Mutant: fetch_node_info marks a node whose body could not be parsed as  *)
(* reachable instead of failing.                                           *)
ClusterInfoLenient(loaded, a) ==
    IF ~loaded THEN [ok |-> FALSE, infos |-> {}]
    ELSE [ok |-> TRUE,
          infos |-> {[node |-> n, reachable |-> a[n] # "send_failed"] : n \in Nodes}]

(* get_cluster_info (835-893) over fetch_nodes_info (958-978) and          *)
(* fetch_node_info (898-955): a metadata error, then any node's Err, fails *)
(* the request; otherwise every node has its ClusterInfo.                  *)
ClusterInfoResult(loaded, a) ==
    IF ~loaded THEN [ok |-> FALSE, infos |-> {}]
    ELSE IF \E n \in Nodes : a[n] = "malformed" THEN [ok |-> FALSE, infos |-> {}]
    ELSE [ok |-> TRUE, infos |-> {Info(n, a[n]) : n \in Nodes}]

-----------------------------------------------------------------------------
(* Scheduler job, first half (1561-1584): a non-empty Ok result is         *)
(* serialised and handed to ingest_internal_stream("pmeta"); an error or   *)
(* an empty result sends nothing.  The ingest's own result is only logged. *)
MetricsStep ==
    /\ phase = "metrics"
    /\ \E loaded \in MetaOutcomes, scrape \in ScrapeChoices(MetricsOutcomes) :
          LET res == ClusterMetrics(loaded, scrape)
          IN  /\ mMeta' = loaded
              /\ mScrape' = scrape
              /\ mSent' = IF res.ok THEN res.nodes ELSE {}
    /\ phase' = "billing"
    /\ UNCHANGED <<bMeta, bScrape, bSent, iMeta, about, response>>

(* Mutant: the job returns early with `?` when the metrics pass failed, so *)
(* billing is skipped for that tick.                                       *)
BillingStepAfterMetrics ==
    /\ phase = "billing"
    /\ \E loaded \in MetaOutcomes, scrape \in ScrapeChoices(BillingOutcomes) :
          LET res == ClusterBilling(loaded, scrape)
          IN  /\ bMeta' = loaded
              /\ bScrape' = scrape
              /\ bSent' = IF mSent # {} /\ res.ok THEN res.nodes ELSE {}
    /\ phase' = "metrics"
    /\ UNCHANGED <<mMeta, mScrape, mSent, iMeta, about, response>>

(* Scheduler job, second half (1586-1614): a non-empty Ok result goes to   *)
(* ingest_internal_stream("pbilling"); an empty result or an error is      *)
(* logged.  The job then returns Ok whatever happened (1616-1624), and the *)
(* spawned loop (1627-1632) polls again: the next tick starts over.        *)
BillingStep ==
    /\ phase = "billing"
    /\ \E loaded \in MetaOutcomes, scrape \in ScrapeChoices(BillingOutcomes) :
          LET res == ClusterBilling(loaded, scrape)
          IN  /\ bMeta' = loaded
              /\ bScrape' = scrape
              /\ bSent' = IF res.ok THEN res.nodes ELSE {}
    /\ phase' = "metrics"
    /\ UNCHANGED <<mMeta, mScrape, mSent, iMeta, about, response>>

(* One GET /cluster/info request, at any point of the job.                 *)
GetClusterInfo ==
    /\ \E loaded \in MetaOutcomes, a \in ScrapeChoices(AboutOutcomes) :
          /\ iMeta' = loaded
          /\ about' = a
          /\ response' = ClusterInfoResult(loaded, a)
    /\ UNCHANGED <<phase, mMeta, mScrape, mSent, bMeta, bScrape, bSent>>

(* The scheduler is set up and nothing has been collected yet; the last   *)
(* info request found every node answering.                                *)
Init ==
    /\ phase = "metrics"
    /\ mMeta = TRUE /\ bMeta = TRUE /\ iMeta = TRUE
    /\ mScrape = [n \in Nodes |-> "ok"]
    /\ bScrape = [n \in Nodes |-> "no_rows"]
    /\ about = [n \in Nodes |-> "answered"]
    /\ mSent = {} /\ bSent = {}
    /\ response = ClusterInfoResult(TRUE, about)

Next == MetricsStep \/ BillingStep \/ GetClusterInfo

Spec == Init /\ [][Next]_vars

-----------------------------------------------------------------------------
(* Properties, about the tick half that has just completed and the last    *)
(* info request.                                                           *)

(* Spec 4.6, 4.7 and 7: the billing half is independent of the metrics     *)
(* half, and a node whose billing scrape fails is skipped: whenever the    *)
(* metadata loaded, the rows of every node that produced some are sent to  *)
(* pbilling, whatever the metrics half and the other nodes did.            *)
BillingSentFromEveryBilledNode ==
    phase = "metrics" /\ bMeta =>
        bSent = {n \in Nodes : bScrape[n] = "rows"}

(* Spec 4.6 and 7: "scrape errors on individual peers are logged and       *)
(* skipped": whenever the metadata loaded, the metrics of every node that  *)
(* returned some are sent to pmeta.                                        *)
MetricsSentFromEveryScrapedNode ==
    phase = "billing" /\ mMeta =>
        mSent = {n \in Nodes : mScrape[n] = "ok"}

(* Spec 4.9: a node that answers /about is reported reachable and a node   *)
(* whose request fails unreachable: a successful GET /cluster/info lists   *)
(* every registered node once, flagged by whether it answered.             *)
ReachabilityReported ==
    response.ok =>
        response.infos = {[node |-> n, reachable |-> about[n] = "answered"] : n \in Nodes}

(* Spec 4.9: "on any failure, mark unreachable and record error": once the *)
(* metadata has loaded, GET /cluster/info answers with an entry for every  *)
(* node, whatever each node's /about returned.                             *)
EveryNodeListed ==
    iMeta => response.ok /\ {e.node : e \in response.infos} = Nodes

=============================================================================

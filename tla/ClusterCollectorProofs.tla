------------------------ MODULE ClusterCollectorProofs ------------------------
(***************************************************************************)
(* Proofs about ClusterCollector, for every set of nodes, with or without  *)
(* faults.  Both properties are inductive as they stand: each tick half    *)
(* and each info request rewrites together the state the property relates *)
(* (the outcomes it chose and what it sent or answered), and leaves the    *)
(* other half's state alone.                                               *)
(***************************************************************************)
EXTENDS ClusterCollector, TLAPS

LEMMA BillingInit == Init => BillingSentFromEveryBilledNode
BY DEF Init, BillingSentFromEveryBilledNode

(* The billing half sends exactly the rows it collected whenever its       *)
(* metadata loaded; the metrics half and the info request leave the        *)
(* billing state alone and the metrics half leaves phase = "billing".      *)
LEMMA BillingStepInv ==
    BillingSentFromEveryBilledNode /\ [Next]_vars => BillingSentFromEveryBilledNode'
<1> SUFFICES ASSUME BillingSentFromEveryBilledNode, [Next]_vars
             PROVE  BillingSentFromEveryBilledNode'
  OBVIOUS
<1>1. CASE MetricsStep
  BY <1>1 DEF MetricsStep, BillingSentFromEveryBilledNode
<1>2. CASE BillingStep
  <2>1. PICK loaded \in MetaOutcomes, scrape \in ScrapeChoices(BillingOutcomes) :
          /\ bMeta' = loaded
          /\ bScrape' = scrape
          /\ bSent' = IF ClusterBilling(loaded, scrape).ok
                      THEN ClusterBilling(loaded, scrape).nodes ELSE {}
    BY <1>2 DEF BillingStep
  <2>2. ASSUME loaded PROVE bSent' = {n \in Nodes : scrape[n] = "rows"}
    <3>1. loaded = TRUE
      BY <2>2 DEF MetaOutcomes
    <3>2. ClusterBilling(loaded, scrape).ok
          /\ ClusterBilling(loaded, scrape).nodes = {n \in Nodes : scrape[n] = "rows"}
      BY <3>1 DEF ClusterBilling
    <3>3. QED
      BY <2>1, <3>2
  <2>3. QED
    BY <2>1, <2>2 DEF BillingSentFromEveryBilledNode
<1>3. CASE GetClusterInfo
  BY <1>3 DEF GetClusterInfo, BillingSentFromEveryBilledNode
<1>4. CASE UNCHANGED vars
  BY <1>4 DEF vars, BillingSentFromEveryBilledNode
<1>5. QED
  BY <1>1, <1>2, <1>3, <1>4 DEF Next

(* Spec 4.6, 4.7 and 7, for every set of nodes: whenever a billing half    *)
(* loaded its metadata, the rows of every node that produced some went to  *)
(* pbilling, whatever the metrics half of the tick and the other nodes     *)
(* did.                                                                    *)
THEOREM BillingIndependent == Spec => []BillingSentFromEveryBilledNode
BY BillingInit, BillingStepInv, PTL DEF Spec

-----------------------------------------------------------------------------

LEMMA InfoInit == Init => ReachabilityReported
<1> SUFFICES ASSUME Init PROVE ReachabilityReported
  OBVIOUS
<1>1. response = [ok |-> TRUE, infos |-> {Info(n, about[n]) : n \in Nodes}]
  BY DEF Init, ClusterInfoResult
<1>2. QED
  BY <1>1 DEF ReachabilityReported, Info

(* An info request answers from the outcomes it recorded in about; the     *)
(* tick halves leave both alone.                                           *)
LEMMA InfoStepInv == ReachabilityReported /\ [Next]_vars => ReachabilityReported'
<1> SUFFICES ASSUME ReachabilityReported, [Next]_vars
             PROVE  ReachabilityReported'
  OBVIOUS
<1>1. CASE MetricsStep \/ BillingStep
  BY <1>1 DEF MetricsStep, BillingStep, ReachabilityReported
<1>2. CASE GetClusterInfo
  <2>1. PICK loaded \in MetaOutcomes, a \in ScrapeChoices(AboutOutcomes) :
          about' = a /\ response' = ClusterInfoResult(loaded, a)
    BY <1>2 DEF GetClusterInfo
  <2>2. response'.ok => response'.infos = {Info(n, a[n]) : n \in Nodes}
    BY <2>1 DEF ClusterInfoResult
  <2>3. QED
    BY <2>1, <2>2 DEF ReachabilityReported, Info
<1>3. CASE UNCHANGED vars
  BY <1>3 DEF vars, ReachabilityReported
<1>4. QED
  BY <1>1, <1>2, <1>3 DEF Next

(* Spec 4.9, for every set of nodes and every outcome of their /about      *)
(* requests: a successful GET /cluster/info lists every registered node    *)
(* once, reachable exactly when its /about answered.                       *)
THEOREM InfoReportsReachability == Spec => []ReachabilityReported
BY InfoInit, InfoStepInv, PTL DEF Spec

=============================================================================

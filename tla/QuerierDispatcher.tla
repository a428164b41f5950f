-------------------------- MODULE QuerierDispatcher --------------------------
(***************************************************************************)
(* The querier dispatcher of src/handlers/http/cluster/mod.rs: the         *)
(* process-wide QUERIER_MAP (domain -> QuerierStatus) and the              *)
(* LAST_USED_QUERIER round-robin pointer, shared by the concurrent         *)
(* send_query_request tasks.  Each task runs get_available_querier         *)
(* (metadata fetch, write lock, liveness probes, refresh and prune of the  *)
(* map, round-robin pick, LRU fallback), sends the query, and calls        *)
(* mark_querier_available on every path back.                              *)
(*                                                                         *)
(* Data is abstracted to what the selection tells apart: a querier is its  *)
(* domain (a model value), its metadata and token are left out, a query's  *)
(* body and response are reduced to success or failure, and an Instant is  *)
(* a natural number read from a monotonic clock.                           *)
(***************************************************************************)
EXTENDS Naturals, Sequences, FiniteSets

CONSTANTS
    Domain,            \* domain names of the registered queriers
    Order,             \* the iteration order of QUERIER_MAP (a HashMap)
    Request,           \* concurrent send_query_request tasks
    MaxClock,          \* bound on the values Instant::now() returns
    Faults,            \* metastore errors, failed probes, failed sends
    ClientDisconnects, \* the HTTP handler future may be dropped
    None               \* Option::None for the pointer, the lock, a target

ASSUME DomainAssumption ==
    /\ IsFiniteSet(Domain)
    /\ Order \in Seq(Domain)
    /\ \A i, j \in 1..Len(Order) : Order[i] = Order[j] => i = j
    /\ \A d \in Domain : \E i \in 1..Len(Order) : Order[i] = d

ASSUME ConstantAssumption ==
    /\ MaxClock \in Nat \ {0}
    /\ Faults \in BOOLEAN /\ ClientDisconnects \in BOOLEAN
    /\ None \notin Domain /\ None \notin Request

VARIABLES
    qmap,      \* QUERIER_MAP: a function from the domains it holds
    lastUsed,  \* LAST_USED_QUERIER
    lock,      \* the task holding QUERIER_MAP's write lock, or None
    pc,        \* where each task is in send_query_request
    target,    \* the querier a task was given, or None
    result,    \* what the task's last query returned
    clock      \* Instant::now()

vars == <<qmap, lastUsed, lock, pc, target, result, clock>>

(* Instants; last_used = None is NeverUsed, below every instant read.      *)
NeverUsed == 0
Stamp == 0..MaxClock

QuerierStatus == [available : BOOLEAN, last_used : Stamp]

PC == {"idle", "lock_wait", "probing", "querying", "rel_fail", "rel_resp"}

(* The states in which a task holds a querier and must release it.        *)
Dispatched == {"querying", "rel_fail", "rel_resp"}

TypeOK ==
    /\ DOMAIN qmap \subseteq Domain
    /\ qmap \in [DOMAIN qmap -> QuerierStatus]
    /\ lastUsed \in Domain \cup {None}
    /\ lock \in Request \cup {None}
    /\ pc \in [Request -> PC]
    /\ target \in [Request -> Domain \cup {None}]
    /\ \A r \in Request : pc[r] \in Dispatched => target[r] \in Domain
    /\ result \in [Request -> {"none", "ok", "err"}]
    /\ clock \in 1..MaxClock

-----------------------------------------------------------------------------
(* Helpers of get_available_querier.                                       *)

(* Position of a domain in the map's iteration order.                     *)
Pos(d) == CHOOSE i \in 1..Len(Order) : Order[i] = d

(* A liveness probe answers false on any error: with Faults any subset of *)
(* the registered queriers may answer live, otherwise all of them.        *)
ProbeResults == IF Faults THEN SUBSET Domain ELSE {Domain}

(* Mutant: a live querier is re-inserted as new, its status replaced.   *)
RefreshReinsert(m, live) ==
    [d \in live |-> [available |-> TRUE, last_used |-> NeverUsed]]

(* Lines 1680-1707: live entries keep available/last_used, new live        *)
(* queriers are inserted available and never used, the rest are removed. *)
Refresh(m, live) ==
    [d \in live |-> IF d \in DOMAIN m THEN m[d]
                    ELSE [available |-> TRUE, last_used |-> NeverUsed]]

AvailableQueriers(m) == {d \in DOMAIN m : m[d].available}

IsFirst(d, S) == d \in S /\ \A e \in S : Pos(d) <= Pos(e)

(* Mutant: the pointer is never consulted, the first available querier   *)
(* is always taken.                                                       *)
RoundRobinPickFirst(m, last, d) == IsFirst(d, AvailableQueriers(m))

(* select_next_querier: the available querier after the last-used one in  *)
(* iteration order; the first available one when the last-used querier is *)
(* not available, is the last of the list, or was never set.              *)
RoundRobinPick(m, last, d) ==
    LET avail == AvailableQueriers(m)
        after == {e \in avail : last \in avail /\ Pos(e) > Pos(last)}
    IN  IF after # {} THEN IsFirst(d, after) ELSE IsFirst(d, avail)

(* Mutant: the comparison of the third arm reversed.                      *)
LRUScanNewest(m) ==
    LET step[i \in 0..Len(Order)] ==
          IF i = 0 THEN [dom |-> None, oldest |-> None]
          ELSE LET acc == step[i - 1]
                   d   == Order[i]
               IN  CASE d \notin DOMAIN m -> acc
                     [] m[d].last_used = NeverUsed ->
                          [dom |-> d, oldest |-> None]
                     [] acc.oldest = None ->
                          IF acc.dom = None
                          THEN [dom |-> d, oldest |-> m[d].last_used]
                          ELSE acc
                     [] OTHER ->
                          IF m[d].last_used > acc.oldest
                          THEN [dom |-> d, oldest |-> m[d].last_used]
                          ELSE acc
    IN  step[Len(Order)].dom

(* select_least_recently_used_querier: the scan over the map in iteration *)
(* order, with its three match arms; returns None for an empty map.       *)
LRUScan(m) ==
    LET step[i \in 0..Len(Order)] ==
          IF i = 0 THEN [dom |-> None, oldest |-> None]
          ELSE LET acc == step[i - 1]
                   d   == Order[i]
               IN  CASE d \notin DOMAIN m -> acc
                     [] m[d].last_used = NeverUsed ->
                          [dom |-> d, oldest |-> None]
                     [] acc.oldest = None ->
                          IF acc.dom = None
                          THEN [dom |-> d, oldest |-> m[d].last_used]
                          ELSE acc
                     [] OTHER ->
                          IF m[d].last_used < acc.oldest
                          THEN [dom |-> d, oldest |-> m[d].last_used]
                          ELSE acc
    IN  step[Len(Order)].dom

(* Lines 1710-1724: the chosen querier is marked busy and stamped, the    *)
(* lock guard is dropped on return and the task goes on to its query.     *)
Dispatch(r, m, d) ==
    /\ qmap' = [m EXCEPT ![d] = [available |-> FALSE, last_used |-> clock]]
    /\ lock' = None
    /\ pc' = [pc EXCEPT ![r] = "querying"]
    /\ target' = [target EXCEPT ![r] = d]
    /\ UNCHANGED result

-----------------------------------------------------------------------------
(* Actions of a send_query_request task r.                                 *)

(* Line 1646: the querier metadata is read; the task goes on to the lock. *)
GetQuerierInfo(r) ==
    /\ pc[r] = "idle"
    /\ pc' = [pc EXCEPT ![r] = "lock_wait"]
    /\ UNCHANGED <<qmap, lastUsed, lock, target, result, clock>>

(* Lines 1646-1651: a metastore error, or no querier registered, returns  *)
(* an error before the lock is taken.                                     *)
QuerierInfoFailed(r) ==
    /\ pc[r] = "idle"
    /\ Faults \/ Domain = {}
    /\ result' = [result EXCEPT ![r] = "err"]
    /\ UNCHANGED <<qmap, lastUsed, lock, pc, target, clock>>

(* Line 1658: QUERIER_MAP.write() is taken before the probes run.        *)
LockRegistry(r) ==
    /\ pc[r] = "lock_wait"
    /\ lock = None
    /\ lock' = r
    /\ pc' = [pc EXCEPT ![r] = "probing"]
    /\ UNCHANGED <<qmap, lastUsed, target, result, clock>>

(* Mutant: select_next_querier without its `status.available` filter.    *)
AcquireRoundRobinAnyQuerier(r) ==
    /\ pc[r] = "probing"
    /\ \E live \in ProbeResults :
         LET m == Refresh(qmap, live) IN
         \E d \in DOMAIN m :
            /\ lastUsed' = d
            /\ Dispatch(r, m, d)
    /\ UNCHANGED clock

(* Lines 1664-1716: probes answered, map refreshed and pruned, and an     *)
(* available querier chosen round-robin; the pointer is moved to it.      *)
AcquireRoundRobin(r) ==
    /\ pc[r] = "probing"
    /\ \E live \in ProbeResults :
         LET m == Refresh(qmap, live) IN
         \E d \in AvailableQueriers(m) :
            /\ RoundRobinPick(m, lastUsed, d)
            /\ lastUsed' = d
            /\ Dispatch(r, m, d)
    /\ UNCHANGED clock

(* Mutant: the `if let Some(status) = map.get_mut(..)` check dropped.    *)
AcquireLRUUnchecked(r) ==
    /\ pc[r] = "probing"
    /\ \E live \in ProbeResults :
         LET m == Refresh(qmap, live) IN
         /\ AvailableQueriers(m) = {}
         /\ Dispatch(r, m, LRUScan(m))
    /\ UNCHANGED <<lastUsed, clock>>

(* Lines 1718-1725: no querier is available; the least recently used one *)
(* is handed out although it is still serving a query.                    *)
AcquireLeastRecentlyUsed(r) ==
    /\ pc[r] = "probing"
    /\ \E live \in ProbeResults :
         LET m == Refresh(qmap, live) IN
         /\ AvailableQueriers(m) = {}
         /\ LRUScan(m) \in DOMAIN m
         /\ Dispatch(r, m, LRUScan(m))
    /\ UNCHANGED <<lastUsed, clock>>

(* Line 1728: no querier answered the probe: NoAvailableQuerier, with the *)
(* map pruned to nothing and the lock released.                           *)
AcquireNone(r) ==
    /\ pc[r] = "probing"
    /\ \E live \in ProbeResults :
         LET m == Refresh(qmap, live) IN
         /\ AvailableQueriers(m) = {}
         /\ LRUScan(m) \notin DOMAIN m
         /\ qmap' = m
    /\ lock' = None
    /\ pc' = [pc EXCEPT ![r] = "idle"]
    /\ result' = [result EXCEPT ![r] = "err"]
    /\ UNCHANGED <<lastUsed, target, clock>>

(* Mutant: an error path returns without mark_querier_available.          *)
QueryFailedSkipsRelease(r) ==
    /\ pc[r] = "querying"
    /\ Faults
    /\ pc' = [pc EXCEPT ![r] = "idle"]
    /\ target' = [target EXCEPT ![r] = None]
    /\ result' = [result EXCEPT ![r] = "err"]
    /\ UNCHANGED <<qmap, lastUsed, lock, clock>>

(* Lines 1843-1865: the body fails to serialise, or the POST fails or     *)
(* times out after 300 s; either way the querier is to be released.       *)
QueryFailed(r) ==
    /\ pc[r] = "querying"
    /\ Faults
    /\ pc' = [pc EXCEPT ![r] = "rel_fail"]
    /\ UNCHANGED <<qmap, lastUsed, lock, target, result, clock>>

(* Lines 1851-1860: the response headers arrive (any status).             *)
QueryResponded(r) ==
    /\ pc[r] = "querying"
    /\ pc' = [pc EXCEPT ![r] = "rel_resp"]
    /\ UNCHANGED <<qmap, lastUsed, lock, target, result, clock>>

(* mark_querier_available (lines 1822-1828), called at 1846, 1862, 1868:  *)
(* under the write lock the querier, if still in the map, is made         *)
(* available, last_used kept.  After a response the body is read and      *)
(* parsed (1870-1893), which may still fail.                              *)
Release(r) ==
    /\ pc[r] \in {"rel_fail", "rel_resp"}
    /\ lock = None
    /\ qmap' = IF target[r] \in DOMAIN qmap
               THEN [qmap EXCEPT ![target[r]].available = TRUE]
               ELSE qmap
    /\ \E res \in IF pc[r] = "rel_fail" THEN {"err"} ELSE {"ok", "err"} :
         result' = [result EXCEPT ![r] = res]
    /\ pc' = [pc EXCEPT ![r] = "idle"]
    /\ target' = [target EXCEPT ![r] = None]
    /\ UNCHANGED <<lastUsed, lock, clock>>

(* The handler's future is dropped at an await (client disconnect): the   *)
(* write guard, if held, is dropped with it; nothing else runs.           *)
Disconnect(r) ==
    /\ ClientDisconnects
    /\ pc[r] \in {"lock_wait", "probing"} \cup Dispatched
    /\ lock' = IF lock = r THEN None ELSE lock
    /\ pc' = [pc EXCEPT ![r] = "idle"]
    /\ target' = [target EXCEPT ![r] = None]
    /\ UNCHANGED <<qmap, lastUsed, result, clock>>

(* Instant::now() advances.                                               *)
Tick ==
    /\ clock < MaxClock
    /\ clock' = clock + 1
    /\ UNCHANGED <<qmap, lastUsed, lock, pc, target, result>>

-----------------------------------------------------------------------------

Init ==
    /\ qmap = [d \in {} |-> [available |-> TRUE, last_used |-> NeverUsed]]
    /\ lastUsed = None
    /\ lock = None
    /\ pc = [r \in Request |-> "idle"]
    /\ target = [r \in Request |-> None]
    /\ result = [r \in Request |-> "none"]
    /\ clock = 1

Acquire(r) ==
    AcquireRoundRobin(r) \/ AcquireLeastRecentlyUsed(r) \/ AcquireNone(r)

QueryDone(r) == QueryFailed(r) \/ QueryResponded(r)

Next ==
    \/ \E r \in Request :
         \/ GetQuerierInfo(r) \/ QuerierInfoFailed(r) \/ LockRegistry(r)
         \/ Acquire(r) \/ QueryDone(r) \/ Release(r) \/ Disconnect(r)
    \/ Tick

(* Tokio runs every ready task (WF); the write lock of tokio's RwLock is  *)
(* granted in FIFO order, so a waiter that is intermittently able to take *)
(* it does (SF); a query ends within its 300 s timeout (WF).  Clients are *)
(* assumed to keep sending queries (WF on GetQuerierInfo).                *)
Fairness ==
    \A r \in Request :
        /\ WF_vars(GetQuerierInfo(r))
        /\ SF_vars(LockRegistry(r))
        /\ WF_vars(Acquire(r))
        /\ WF_vars(QueryDone(r))
        /\ SF_vars(Release(r))

Spec == Init /\ [][Next]_vars

FairSpec == Spec /\ Fairness

-----------------------------------------------------------------------------
(* Properties.                                                             *)

(* Spec 3 and 8.1: a querier marked unavailable is held by a task that has *)
(* not yet called mark_querier_available; every path of                    *)
(* send_query_request (serialisation error, transport error, timeout, any  *)
(* response) releases the querier it was given.                            *)
UnavailableImpliesDispatched ==
    \A d \in DOMAIN qmap :
        ~qmap[d].available =>
            \E r \in Request : pc[r] \in Dispatched /\ target[r] = d

(* Spec 8.3: in every registry the dispatcher reaches, the scan of        *)
(* select_least_recently_used_querier returns a querier whose last_used is *)
(* minimal, a never-used querier before any used one.                      *)
LRUScanIsLeastRecentlyUsed ==
    DOMAIN qmap # {} =>
        /\ LRUScan(qmap) \in DOMAIN qmap
        /\ \A e \in DOMAIN qmap :
             qmap[LRUScan(qmap)].last_used <= qmap[e].last_used

(* Spec 8.3 and the comment of line 1686 ("preserve last_used"): no step *)
(* moves a querier's last_used back while the querier stays registered:   *)
(* the refresh keeps the stamp of every live entry and a dispatch stamps  *)
(* with an Instant no earlier than any stamp already in the map, so the   *)
(* LRU fallback orders queriers by when they were really last handed out. *)
LastUsedNeverDecreases ==
    [][\A d \in DOMAIN qmap \cap DOMAIN qmap' :
          qmap[d].last_used <= qmap'[d].last_used]_vars

(* Spec 5 and 8.2: round-robin is fair over time: with a fixed live set    *)
(* and clients that keep querying, every querier is handed out again and   *)
(* again.                                                                  *)
QuerierEventuallySelected ==
    \A d \in Domain :
        []<>(\E r \in Request : pc[r] = "querying" /\ target[r] = d)

(* The dispatcher implements DispatcherAbstract: the registry is the map's *)
(* domain, the busy queriers its entries marked unavailable, and a task   *)
(* holds its target from Dispatch until it releases or is dropped.        *)
Abstract == INSTANCE DispatcherAbstract WITH
    reg    <- DOMAIN qmap,
    busy   <- {d \in DOMAIN qmap : ~qmap[d].available},
    holder <- [r \in Request |-> IF pc[r] \in Dispatched THEN target[r] ELSE None]

(* get_available_querier hands out a querier that is available whenever  *)
(* the refreshed map has one, and falls back to a busy one only when none *)
(* is; mark_querier_available frees exactly the querier it is given, and  *)
(* nothing else changes the busy flags.                                    *)
ImplementsDispatcherAbstract == Abstract!Spec

=============================================================================

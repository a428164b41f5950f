----------------------- MODULE QuerierDispatcherProofs -----------------------
(***************************************************************************)
(* Proofs about QuerierDispatcher, for every set of queriers, every        *)
(* iteration order, every number of concurrent tasks and every clock bound *)
(* allowed by the module's assumptions.                                    *)
(***************************************************************************)
EXTENDS QuerierDispatcher, TLAPS

(* Refresh and prune (get_available_querier, lines 1680-1707) produce a    *)
(* map over exactly the probed-live queriers, of well-typed entries.      *)
LEMMA RefreshType ==
    ASSUME NEW m, DOMAIN m \subseteq Domain, m \in [DOMAIN m -> QuerierStatus],
           NEW live \in SUBSET Domain
    PROVE  /\ DOMAIN Refresh(m, live) = live
           /\ Refresh(m, live) \in [live -> QuerierStatus]
<1>1. [available |-> TRUE, last_used |-> NeverUsed] \in QuerierStatus
  BY ConstantAssumption DEF QuerierStatus, Stamp, NeverUsed
<1>2. \A d \in live : Refresh(m, live)[d] \in QuerierStatus
  BY <1>1 DEF Refresh
<1>3. QED
  BY <1>2 DEF Refresh

(* A task given a querier by Dispatch keeps the map well typed.            *)
LEMMA DispatchType ==
    ASSUME TypeOK, NEW r \in Request, NEW live \in SUBSET Domain,
           NEW d \in live,
           Dispatch(r, Refresh(qmap, live), d)
    PROVE  /\ DOMAIN qmap' = live
           /\ qmap' \in [DOMAIN qmap' -> QuerierStatus]
           /\ target' \in [Request -> Domain \cup {None}]
           /\ pc' \in [Request -> PC]
           /\ \A q \in Request : pc'[q] \in Dispatched => target'[q] \in Domain
<1>1. /\ DOMAIN Refresh(qmap, live) = live
      /\ Refresh(qmap, live) \in [live -> QuerierStatus]
  BY RefreshType DEF TypeOK
<1>2. clock \in Stamp
  BY ConstantAssumption DEF TypeOK, Stamp
<1>3. QED
  BY <1>1, <1>2 DEF Dispatch, TypeOK, QuerierStatus, PC, Dispatched

(* The initial state of the handler set is well typed. *)
LEMMA TypeInit == Init => TypeOK
<1> SUFFICES ASSUME Init PROVE TypeOK
  OBVIOUS
<1>1. DOMAIN qmap = {} /\ qmap \in [DOMAIN qmap -> QuerierStatus]
  BY DEF Init
<1>2. clock \in 1..MaxClock
  BY ConstantAssumption DEF Init
<1>3. QED
  BY <1>1, <1>2 DEF Init, TypeOK, PC, Dispatched

(* Every step of every task, and every tick, keeps the state well typed. *)
LEMMA TypeStep == TypeOK /\ [Next]_vars => TypeOK'
<1> SUFFICES ASSUME TypeOK, [Next]_vars PROVE TypeOK'
  OBVIOUS
<1>1. ASSUME NEW r \in Request, GetQuerierInfo(r) PROVE TypeOK'
  BY <1>1 DEF GetQuerierInfo, TypeOK, PC, Dispatched
<1>2. ASSUME NEW r \in Request, QuerierInfoFailed(r) PROVE TypeOK'
  BY <1>2 DEF QuerierInfoFailed, TypeOK
<1>3. ASSUME NEW r \in Request, LockRegistry(r) PROVE TypeOK'
  BY <1>3 DEF LockRegistry, TypeOK, PC, Dispatched
<1>4. ASSUME NEW r \in Request, AcquireRoundRobin(r) PROVE TypeOK'
  <2>1. PICK live \in ProbeResults :
              \E d \in AvailableQueriers(Refresh(qmap, live)) :
                 /\ RoundRobinPick(Refresh(qmap, live), lastUsed, d)
                 /\ lastUsed' = d
                 /\ Dispatch(r, Refresh(qmap, live), d)
    BY <1>4 DEF AcquireRoundRobin
  <2>2. live \in SUBSET Domain
    BY ConstantAssumption DEF ProbeResults
  <2>3. PICK d \in AvailableQueriers(Refresh(qmap, live)) :
              /\ lastUsed' = d
              /\ Dispatch(r, Refresh(qmap, live), d)
    BY <2>1
  <2>4. d \in live
    BY <2>2, <2>3, RefreshType DEF AvailableQueriers, TypeOK
  <2>5. /\ DOMAIN qmap' \subseteq Domain
        /\ qmap' \in [DOMAIN qmap' -> QuerierStatus]
        /\ target' \in [Request -> Domain \cup {None}]
        /\ pc' \in [Request -> PC]
        /\ \A q \in Request : pc'[q] \in Dispatched => target'[q] \in Domain
    BY <2>2, <2>3, <2>4, DispatchType
  <2>6. lastUsed' \in Domain /\ lock' = None
    BY <2>2, <2>3, <2>4 DEF Dispatch
  <2>7. result' = result /\ clock' = clock
    BY <1>4, <2>3 DEF AcquireRoundRobin, Dispatch
  <2>8. QED
    BY <2>5, <2>6, <2>7 DEF TypeOK
<1>5. ASSUME NEW r \in Request, AcquireLeastRecentlyUsed(r) PROVE TypeOK'
  <2>1. PICK live \in ProbeResults :
              /\ LRUScan(Refresh(qmap, live)) \in DOMAIN Refresh(qmap, live)
              /\ Dispatch(r, Refresh(qmap, live), LRUScan(Refresh(qmap, live)))
    BY <1>5 DEF AcquireLeastRecentlyUsed
  <2>2. live \in SUBSET Domain
    BY ConstantAssumption DEF ProbeResults
  <2>3. LRUScan(Refresh(qmap, live)) \in live
    BY <2>1, <2>2, RefreshType DEF TypeOK
  <2>4. /\ DOMAIN qmap' \subseteq Domain
        /\ qmap' \in [DOMAIN qmap' -> QuerierStatus]
        /\ target' \in [Request -> Domain \cup {None}]
        /\ pc' \in [Request -> PC]
        /\ \A q \in Request : pc'[q] \in Dispatched => target'[q] \in Domain
    BY <2>1, <2>2, <2>3, DispatchType
  <2>5. lock' = None /\ result' = result
    BY <2>1 DEF Dispatch
  <2>6. QED
    BY <1>5, <2>4, <2>5 DEF AcquireLeastRecentlyUsed, TypeOK
<1>6. ASSUME NEW r \in Request, AcquireNone(r) PROVE TypeOK'
  <2>1. PICK live \in ProbeResults : qmap' = Refresh(qmap, live)
    BY <1>6 DEF AcquireNone
  <2>2. live \in SUBSET Domain
    BY ConstantAssumption DEF ProbeResults
  <2>3. DOMAIN qmap' \subseteq Domain /\ qmap' \in [DOMAIN qmap' -> QuerierStatus]
    BY <2>1, <2>2, RefreshType DEF TypeOK
  <2>4. QED
    BY <1>6, <2>3 DEF AcquireNone, TypeOK, PC, Dispatched
<1>7. ASSUME NEW r \in Request, QueryDone(r) PROVE TypeOK'
  BY <1>7 DEF QueryDone, QueryFailed, QueryResponded, TypeOK, PC, Dispatched
<1>8. ASSUME NEW r \in Request, Release(r) PROVE TypeOK'
  <2>1. qmap' \in [DOMAIN qmap' -> QuerierStatus] /\ DOMAIN qmap' = DOMAIN qmap
    BY <1>8 DEF Release, TypeOK, QuerierStatus
  <2>2. QED
    BY <1>8, <2>1 DEF Release, TypeOK, PC, Dispatched
<1>9. ASSUME NEW r \in Request, Disconnect(r) PROVE TypeOK'
  BY <1>9 DEF Disconnect, TypeOK, PC, Dispatched
<1>10. CASE Tick
  BY <1>10, ConstantAssumption DEF Tick, TypeOK
<1>11. CASE UNCHANGED vars
  BY <1>11 DEF vars, TypeOK
<1>12. QED
  BY <1>1, <1>2, <1>3, <1>4, <1>5, <1>6, <1>7, <1>8, <1>9, <1>10, <1>11
     DEF Next, Acquire

(* Spec => []TypeOK: every step of every task keeps the state well typed. *)
THEOREM TypeCorrect == Spec => []TypeOK
BY TypeInit, TypeStep, PTL DEF Spec

-----------------------------------------------------------------------------
(* The release invariant.  UnavailableImpliesDispatched is inductive once *)
(* TypeOK is known: a busy entry's witness is a task past acquisition, so *)
(* it is not the task that refreshes the map (that one is probing), and   *)
(* it is not the task that releases another entry (its target differs).   *)

IInv == TypeOK /\ UnavailableImpliesDispatched

(* A step that leaves qmap alone and moves no dispatched task keeps the   *)
(* invariant.                                                             *)
LEMMA QuietStep ==
    ASSUME TypeOK, UnavailableImpliesDispatched, TypeOK',
           qmap' = qmap,
           \A q \in Request : pc[q] \in Dispatched =>
                                 pc'[q] \in Dispatched /\ target'[q] = target[q]
    PROVE  UnavailableImpliesDispatched'
BY DEF UnavailableImpliesDispatched

(* The three acquisitions: the map is refreshed to m, and possibly entry  *)
(* d handed to r.  Entries of m other than d are old entries or new,      *)
(* available ones.                                                        *)
LEMMA RefreshKeepsBusy ==
    ASSUME TypeOK, UnavailableImpliesDispatched,
           NEW r \in Request, pc[r] = "probing",
           NEW live \in SUBSET Domain, NEW e \in live,
           ~Refresh(qmap, live)[e].available
    PROVE  \E q \in Request : q # r /\ pc[q] \in Dispatched /\ target[q] = e
BY DEF Refresh, UnavailableImpliesDispatched, Dispatched

(* Spec 3 and 8.1, for every instance: without dropped futures, a querier *)
(* is unavailable only while a task that was given it has not yet called  *)
(* mark_querier_available.                                                *)
THEOREM ReleaseOnEveryPath ==
    ASSUME ~ClientDisconnects
    PROVE  Spec => []UnavailableImpliesDispatched
<1>1. Init => IInv
  <2> SUFFICES ASSUME Init PROVE IInv
    OBVIOUS
  <2>1. TypeOK
    BY TypeInit
  <2>2. DOMAIN qmap = {}
    BY DEF Init
  <2>3. QED
    BY <2>1, <2>2 DEF IInv, UnavailableImpliesDispatched
<1>2. IInv /\ [Next]_vars => IInv'
  <2> SUFFICES ASSUME TypeOK, UnavailableImpliesDispatched, [Next]_vars
               PROVE  IInv'
    BY DEF IInv
  <2>0. TypeOK'
    BY TypeStep
  <2> USE <2>0 DEF IInv
  <2>1. ASSUME NEW r \in Request,
               GetQuerierInfo(r) \/ QuerierInfoFailed(r) \/ LockRegistry(r)
        PROVE  UnavailableImpliesDispatched'
    <3>1. qmap' = qmap
      BY <2>1 DEF GetQuerierInfo, QuerierInfoFailed, LockRegistry
    <3>2. \A q \in Request : pc[q] \in Dispatched =>
                               pc'[q] \in Dispatched /\ target'[q] = target[q]
      BY <2>1 DEF GetQuerierInfo, QuerierInfoFailed, LockRegistry, Dispatched, TypeOK
    <3>3. QED
      BY <3>1, <3>2, QuietStep
  <2>2. ASSUME NEW r \in Request, AcquireRoundRobin(r) \/ AcquireLeastRecentlyUsed(r)
        PROVE  UnavailableImpliesDispatched'
    <3>1. PICK live \in ProbeResults, d \in Domain :
                /\ pc[r] = "probing"
                /\ d \in DOMAIN Refresh(qmap, live)
                /\ Dispatch(r, Refresh(qmap, live), d)
      BY <2>2 DEF AcquireRoundRobin, AcquireLeastRecentlyUsed,
                  AvailableQueriers, ProbeResults, Refresh
    <3>2. live \in SUBSET Domain
      BY ConstantAssumption DEF ProbeResults
    <3> DEFINE m == Refresh(qmap, live)
    <3>3. DOMAIN m = live /\ d \in live
      BY <3>1, <3>2, RefreshType DEF TypeOK
    <3>4. SUFFICES ASSUME NEW e \in DOMAIN qmap', ~qmap'[e].available
                   PROVE  \E q \in Request : pc'[q] \in Dispatched /\ target'[q] = e
      BY DEF UnavailableImpliesDispatched
    <3>5. CASE e = d
      <4>1. pc'[r] \in Dispatched /\ target'[r] = e
        BY <3>1, <3>5 DEF Dispatch, Dispatched, TypeOK
      <4>2. QED
        BY <4>1
    <3>6. CASE e # d
      <4>1. e \in live /\ ~m[e].available
        BY <3>1, <3>3, <3>4, <3>6 DEF Dispatch
      <4>2. PICK q \in Request : q # r /\ pc[q] \in Dispatched /\ target[q] = e
        BY <3>1, <3>2, <4>1, RefreshKeepsBusy
      <4>3. pc'[q] = pc[q] /\ target'[q] = target[q]
        BY <3>1, <4>2 DEF Dispatch
      <4>4. QED
        BY <4>2, <4>3
    <3>7. QED
      BY <3>5, <3>6
  <2>3. ASSUME NEW r \in Request, AcquireNone(r)
        PROVE  UnavailableImpliesDispatched'
    <3>1. PICK live \in ProbeResults : qmap' = Refresh(qmap, live)
      BY <2>3 DEF AcquireNone
    <3>2. live \in SUBSET Domain
      BY ConstantAssumption DEF ProbeResults
    <3>3. DOMAIN qmap' = live
      BY <3>1, <3>2, RefreshType DEF TypeOK
    <3>4. SUFFICES ASSUME NEW e \in DOMAIN qmap', ~qmap'[e].available
                   PROVE  \E q \in Request : pc'[q] \in Dispatched /\ target'[q] = e
      BY DEF UnavailableImpliesDispatched
    <3>5. PICK q \in Request : q # r /\ pc[q] \in Dispatched /\ target[q] = e
      BY <2>3, <3>1, <3>2, <3>3, <3>4, RefreshKeepsBusy DEF AcquireNone
    <3>6. QED
      BY <2>3, <3>5 DEF AcquireNone
  <2>4. ASSUME NEW r \in Request, QueryDone(r)
        PROVE  UnavailableImpliesDispatched'
    <3>1. qmap' = qmap
      BY <2>4 DEF QueryDone, QueryFailed, QueryResponded
    <3>2. \A q \in Request : pc[q] \in Dispatched =>
                               pc'[q] \in Dispatched /\ target'[q] = target[q]
      BY <2>4 DEF QueryDone, QueryFailed, QueryResponded, Dispatched, TypeOK
    <3>3. QED
      BY <3>1, <3>2, QuietStep
  <2>5. ASSUME NEW r \in Request, Release(r)
        PROVE  UnavailableImpliesDispatched'
    <3>1. SUFFICES ASSUME NEW e \in DOMAIN qmap', ~qmap'[e].available
                   PROVE  \E q \in Request : pc'[q] \in Dispatched /\ target'[q] = e
      BY DEF UnavailableImpliesDispatched
    <3>2. e # target[r] /\ e \in DOMAIN qmap /\ ~qmap[e].available
      BY <2>5, <3>1 DEF Release, TypeOK
    <3>3. PICK q \in Request : pc[q] \in Dispatched /\ target[q] = e
      BY <3>2 DEF UnavailableImpliesDispatched
    <3>4. q # r
      BY <3>2, <3>3
    <3>5. QED
      BY <2>5, <3>3, <3>4 DEF Release
  <2>6. ASSUME NEW r \in Request, Disconnect(r) PROVE FALSE
    BY <2>6 DEF Disconnect
  <2>7. CASE Tick \/ UNCHANGED vars
    <3>1. qmap' = qmap
      BY <2>7 DEF Tick, vars
    <3>2. \A q \in Request : pc[q] \in Dispatched =>
                               pc'[q] \in Dispatched /\ target'[q] = target[q]
      BY <2>7 DEF Tick, vars
    <3>3. QED
      BY <3>1, <3>2, QuietStep
  <2>8. QED
    BY <2>1, <2>2, <2>3, <2>4, <2>5, <2>6, <2>7 DEF Next, Acquire
<1>3. QED
  BY <1>1, <1>2, TypeCorrect, PTL DEF Spec, IInv

-----------------------------------------------------------------------------
(* Refinement.  Under the mapping of QuerierDispatcher!Abstract a step of *)
(* a task is a step of DispatcherAbstract or a stutter: the acquisitions  *)
(* are Acquire or Refuse, Release is Release, a disconnect of a task that *)
(* holds a querier is Drop, and every other step leaves the registry, the *)
(* busy flags and the holders alone.  TypeOK is the only invariant needed. *)

BusyOf(m) == {d \in DOMAIN m : ~m[d].available}

HolderOf(p, t) == [q \in Request |-> IF p[q] \in Dispatched THEN t[q] ELSE None]

(* Refresh keeps the flag of every querier that answered again and adds   *)
(* the new ones available: the busy queriers of the refreshed map are the *)
(* old busy ones that answered.                                           *)
LEMMA RefreshBusy ==
    ASSUME NEW m, NEW live
    PROVE  BusyOf(Refresh(m, live)) = BusyOf(m) \cap live
BY DEF BusyOf, Refresh

(* A step that leaves the map alone and moves no task into or out of the  *)
(* dispatched states, nor changes a dispatched task's target, is an       *)
(* abstract stutter.                                                      *)
LEMMA AbstractStutter ==
    ASSUME qmap' = qmap,
           \A q \in Request : /\ pc'[q] \in Dispatched <=> pc[q] \in Dispatched
                              /\ pc[q] \in Dispatched => target'[q] = target[q]
    PROVE  UNCHANGED Abstract!avars
BY DEF Abstract!avars

(* Spec 5: the dispatcher hands out a free querier whenever the refreshed *)
(* registry has one and frees exactly what mark_querier_available is      *)
(* given, for every set of queriers and every number of tasks.            *)
THEOREM DispatcherRefinement == Spec => ImplementsDispatcherAbstract
<1>1. Init => Abstract!Init
  BY DEF Init, Abstract!Init, Dispatched
<1>2. TypeOK /\ [Next]_vars => [Abstract!Next]_Abstract!avars
  <2> SUFFICES ASSUME TypeOK, [Next]_vars PROVE [Abstract!Next]_Abstract!avars
    OBVIOUS
  <2>1. ASSUME NEW r \in Request,
               \/ GetQuerierInfo(r) \/ QuerierInfoFailed(r) \/ LockRegistry(r)
               \/ QueryDone(r)
        PROVE  UNCHANGED Abstract!avars
    <3>1. qmap' = qmap
      BY <2>1 DEF GetQuerierInfo, QuerierInfoFailed, LockRegistry,
                  QueryDone, QueryFailed, QueryResponded
    <3>2. \A q \in Request : /\ pc'[q] \in Dispatched <=> pc[q] \in Dispatched
                             /\ pc[q] \in Dispatched => target'[q] = target[q]
      BY <2>1 DEF GetQuerierInfo, QuerierInfoFailed, LockRegistry,
                  QueryDone, QueryFailed, QueryResponded, Dispatched, TypeOK
    <3>3. QED
      BY <3>1, <3>2, AbstractStutter
  <2>2. ASSUME NEW r \in Request, AcquireRoundRobin(r) \/ AcquireLeastRecentlyUsed(r)
        PROVE  Abstract!Acquire(r)
    <3>1. PICK live \in ProbeResults, d \in Domain :
                /\ pc[r] = "probing"
                /\ d \in DOMAIN Refresh(qmap, live)
                /\ AvailableQueriers(Refresh(qmap, live)) # {} =>
                      d \in AvailableQueriers(Refresh(qmap, live))
                /\ Dispatch(r, Refresh(qmap, live), d)
      BY <2>2 DEF AcquireRoundRobin, AcquireLeastRecentlyUsed,
                  AvailableQueriers, ProbeResults, Refresh
    <3>2. live \in SUBSET Domain
      BY ConstantAssumption DEF ProbeResults
    <3> DEFINE m == Refresh(qmap, live)
    <3>3. DOMAIN m = live /\ d \in live
      BY <3>1, <3>2, RefreshType DEF TypeOK
    <3>4. BusyOf(m) = BusyOf(qmap) \cap live
      BY RefreshBusy
    <3>5. live \ BusyOf(qmap) # {} => d \notin BusyOf(qmap)
      <4>1. SUFFICES ASSUME NEW e \in live \ BusyOf(qmap) PROVE d \notin BusyOf(qmap)
        OBVIOUS
      <4>2. e \in AvailableQueriers(m)
        BY <3>3, <4>1 DEF AvailableQueriers, Refresh, BusyOf
      <4>3. d \in AvailableQueriers(m)
        BY <3>1, <4>2
      <4>4. QED
        BY <3>3, <4>3 DEF AvailableQueriers, Refresh, BusyOf
    <3>6. DOMAIN qmap' = live
      BY <3>1, <3>3 DEF Dispatch
    <3>7. BusyOf(qmap') = (BusyOf(qmap) \cap live) \cup {d}
      BY <3>1, <3>3, <3>4, <3>6 DEF Dispatch, BusyOf
    <3>8. HolderOf(pc', target') = [HolderOf(pc, target) EXCEPT ![r] = d]
      BY <3>1 DEF Dispatch, HolderOf, Dispatched, TypeOK
    <3>9. HolderOf(pc, target)[r] = None
      BY <3>1 DEF HolderOf, Dispatched
    <3>10. QED
      BY <3>2, <3>3, <3>5, <3>6, <3>7, <3>8, <3>9 DEF Abstract!Acquire, BusyOf, HolderOf
  <2>3. ASSUME NEW r \in Request, AcquireNone(r) PROVE Abstract!Refuse(r)
    <3>1. PICK live \in ProbeResults :
                /\ AvailableQueriers(Refresh(qmap, live)) = {}
                /\ qmap' = Refresh(qmap, live)
      BY <2>3 DEF AcquireNone
    <3>2. live \in SUBSET Domain
      BY ConstantAssumption DEF ProbeResults
    <3>3. DOMAIN qmap' = live
      BY <3>1, <3>2, RefreshType DEF TypeOK
    <3>4. live \subseteq BusyOf(qmap)
      BY <3>1 DEF AvailableQueriers, Refresh, BusyOf
    <3>5. BusyOf(qmap') = live
      BY <3>1, <3>4, RefreshBusy
    <3>6. HolderOf(pc', target') = HolderOf(pc, target)
      BY <2>3 DEF AcquireNone, HolderOf, Dispatched, TypeOK
    <3>7. HolderOf(pc, target)[r] = None
      BY <2>3 DEF AcquireNone, HolderOf, Dispatched
    <3>8. QED
      BY <3>3, <3>4, <3>5, <3>6, <3>7 DEF Abstract!Refuse, BusyOf, HolderOf
  <2>4. ASSUME NEW r \in Request, Release(r) PROVE Abstract!Release(r)
    <3>1. target[r] \in Domain /\ target[r] # None
      BY <2>4, ConstantAssumption DEF Release, TypeOK, Dispatched
    <3>2. DOMAIN qmap' = DOMAIN qmap
      BY <2>4 DEF Release
    <3>3. BusyOf(qmap') = BusyOf(qmap) \ {target[r]}
      BY <2>4 DEF Release, BusyOf, TypeOK, QuerierStatus
    <3>4. HolderOf(pc', target') = [HolderOf(pc, target) EXCEPT ![r] = None]
      BY <2>4 DEF Release, HolderOf, Dispatched, TypeOK
    <3>5. HolderOf(pc, target)[r] = target[r]
      BY <2>4 DEF Release, HolderOf, Dispatched
    <3>6. QED
      BY <3>1, <3>2, <3>3, <3>4, <3>5 DEF Abstract!Release, BusyOf, HolderOf
  <2>5. ASSUME NEW r \in Request, Disconnect(r)
        PROVE  Abstract!Drop(r) \/ UNCHANGED Abstract!avars
    <3>1. CASE pc[r] \in Dispatched
      <4>1. target[r] # None
        BY <3>1, ConstantAssumption DEF TypeOK
      <4>2. HolderOf(pc', target') = [HolderOf(pc, target) EXCEPT ![r] = None]
        BY <2>5 DEF Disconnect, HolderOf, Dispatched, TypeOK
      <4>3. QED
        BY <2>5, <3>1, <4>1, <4>2 DEF Disconnect, Abstract!Drop, HolderOf
    <3>2. CASE pc[r] \notin Dispatched
      <4>1. \A q \in Request : /\ pc'[q] \in Dispatched <=> pc[q] \in Dispatched
                               /\ pc[q] \in Dispatched => target'[q] = target[q]
        BY <2>5, <3>2 DEF Disconnect, Dispatched, TypeOK
      <4>2. QED
        BY <2>5, <4>1, AbstractStutter DEF Disconnect
    <3>3. QED
      BY <3>1, <3>2
  <2>6. CASE Tick \/ UNCHANGED vars
    BY <2>6 DEF Tick, vars, Abstract!avars
  <2>7. QED
    BY <2>1, <2>2, <2>3, <2>4, <2>5, <2>6 DEF Next, Acquire, Abstract!Next
<1>3. QED
  BY <1>1, <1>2, TypeCorrect, PTL DEF Spec, Abstract!Spec, ImplementsDispatcherAbstract



-----------------------------------------------------------------------------
(* Stamps.  LastUsedNeverDecreases is an action property; it follows from *)
(* the state invariant that no stamp in the map is later than the clock:  *)
(* a dispatch stamps with the current Instant, so it never moves a stamp  *)
(* back, and the refresh copies the stamps of the entries it keeps.       *)

StampsBelowClock == \A d \in DOMAIN qmap : qmap[d].last_used <= clock

StampStep ==
    \A d \in DOMAIN qmap \cap DOMAIN qmap' : qmap[d].last_used <= qmap'[d].last_used

(* The refresh keeps the status of every live querier already registered. *)
LEMMA RefreshKeeps ==
    ASSUME NEW m, NEW live, NEW e \in live \cap DOMAIN m
    PROVE  Refresh(m, live)[e] = m[e]
BY DEF Refresh

(* A step whose map is the refreshed one keeps every stamp at or below the *)
(* clock and moves none.                                                   *)
LEMMA RefreshStamps ==
    ASSUME TypeOK, StampsBelowClock, NEW live \in SUBSET Domain,
           qmap' = Refresh(qmap, live), clock' = clock
    PROVE  StampsBelowClock' /\ StampStep
<1>1. \A d \in live : Refresh(qmap, live)[d].last_used <= clock
  <2> SUFFICES ASSUME NEW d \in live PROVE Refresh(qmap, live)[d].last_used <= clock
    OBVIOUS
  <2>1. CASE d \in DOMAIN qmap
    BY <2>1, RefreshKeeps DEF StampsBelowClock
  <2>2. CASE d \notin DOMAIN qmap
    BY <2>2, ConstantAssumption DEF Refresh, NeverUsed, TypeOK
  <2>3. QED
    BY <2>1, <2>2
<1>2. DOMAIN qmap' = live
  BY DEF Refresh
<1>3. QED
  BY <1>1, <1>2, RefreshKeeps DEF StampsBelowClock, StampStep, TypeOK, QuerierStatus, Stamp

(* A dispatch of d from the refreshed map stamps d with the clock, which   *)
(* is no earlier than d's old stamp, and leaves every other entry as the   *)
(* refresh left it.                                                        *)
LEMMA DispatchStamps ==
    ASSUME TypeOK, StampsBelowClock, NEW r \in Request, NEW live \in SUBSET Domain,
           NEW d \in live, Dispatch(r, Refresh(qmap, live), d), clock' = clock
    PROVE  StampsBelowClock' /\ StampStep
<1> DEFINE m == Refresh(qmap, live)
<1>1. qmap' = [m EXCEPT ![d] = [available |-> FALSE, last_used |-> clock]]
  BY DEF Dispatch
<1>2. /\ DOMAIN m = live
      /\ m \in [live -> QuerierStatus]
      /\ \A e \in live : m[e].last_used <= clock
  <2>1. DOMAIN m = live /\ m \in [live -> QuerierStatus]
    BY RefreshType DEF TypeOK
  <2>2. \A e \in live : m[e].last_used <= clock
    <3> SUFFICES ASSUME NEW e \in live PROVE m[e].last_used <= clock
      OBVIOUS
    <3>1. CASE e \in DOMAIN qmap
      BY <3>1, RefreshKeeps DEF StampsBelowClock
    <3>2. CASE e \notin DOMAIN qmap
      BY <3>2, ConstantAssumption DEF Refresh, NeverUsed, TypeOK
    <3>3. QED
      BY <3>1, <3>2
  <2>3. QED
    BY <2>1, <2>2
<1>3. DOMAIN qmap' = live /\ qmap'[d].last_used = clock
      /\ \A e \in live \ {d} : qmap'[e] = m[e]
  BY <1>1, <1>2
<1>4. StampsBelowClock'
  <2> SUFFICES ASSUME NEW e \in live PROVE qmap'[e].last_used <= clock'
    BY <1>3 DEF StampsBelowClock
  <2>1. clock \in Nat
    BY DEF TypeOK
  <2>2. CASE e = d
    BY <2>1, <2>2, <1>3
  <2>3. CASE e # d
    BY <2>1, <2>3, <1>2, <1>3
  <2>4. QED
    BY <2>2, <2>3
<1>5. StampStep
  <2> SUFFICES ASSUME NEW e \in DOMAIN qmap \cap live
               PROVE  qmap[e].last_used <= qmap'[e].last_used
    BY <1>3 DEF StampStep
  <2>1. m[e] = qmap[e]
    BY RefreshKeeps
  <2>2. CASE e = d
    BY <2>2, <1>3 DEF StampsBelowClock
  <2>3. CASE e # d
    <3>1. qmap'[e] = qmap[e]
      BY <2>3, <2>1, <1>3
    <3>2. qmap[e].last_used \in Nat
      BY DEF TypeOK, QuerierStatus, Stamp
    <3>3. QED
      BY <3>1, <3>2
  <2>4. QED
    BY <2>2, <2>3
<1>6. QED
  BY <1>4, <1>5

(* Every step keeps the stamps at or below the clock and moves none back. *)
LEMMA StampsStep ==
    TypeOK /\ StampsBelowClock /\ [Next]_vars => StampsBelowClock' /\ StampStep
<1> SUFFICES ASSUME TypeOK, StampsBelowClock, [Next]_vars
             PROVE  StampsBelowClock' /\ StampStep
  OBVIOUS
<1>0. \A d \in DOMAIN qmap : qmap[d].last_used \in Nat
  BY DEF TypeOK, QuerierStatus, Stamp
<1>1. CASE qmap' = qmap /\ clock' = clock
  BY <1>0, <1>1 DEF StampsBelowClock, StampStep
<1>2. ASSUME NEW r \in Request, AcquireRoundRobin(r) PROVE StampsBelowClock' /\ StampStep
  <2>1. PICK live \in ProbeResults :
              \E d \in AvailableQueriers(Refresh(qmap, live)) :
                 Dispatch(r, Refresh(qmap, live), d)
    BY <1>2 DEF AcquireRoundRobin
  <2>2. live \in SUBSET Domain
    BY ConstantAssumption DEF ProbeResults
  <2>3. PICK d \in AvailableQueriers(Refresh(qmap, live)) : Dispatch(r, Refresh(qmap, live), d)
    BY <2>1
  <2>4. d \in live
    BY <2>2, <2>3, RefreshType DEF AvailableQueriers, TypeOK
  <2>5. clock' = clock
    BY <1>2 DEF AcquireRoundRobin
  <2>6. QED
    BY <2>2, <2>3, <2>4, <2>5, DispatchStamps
<1>3. ASSUME NEW r \in Request, AcquireLeastRecentlyUsed(r) PROVE StampsBelowClock' /\ StampStep
  <2>1. PICK live \in ProbeResults :
              /\ LRUScan(Refresh(qmap, live)) \in DOMAIN Refresh(qmap, live)
              /\ Dispatch(r, Refresh(qmap, live), LRUScan(Refresh(qmap, live)))
    BY <1>3 DEF AcquireLeastRecentlyUsed
  <2>2. live \in SUBSET Domain
    BY ConstantAssumption DEF ProbeResults
  <2>3. LRUScan(Refresh(qmap, live)) \in live
    BY <2>1, <2>2, RefreshType DEF TypeOK
  <2>4. clock' = clock
    BY <1>3 DEF AcquireLeastRecentlyUsed
  <2>5. QED
    BY <2>1, <2>2, <2>3, <2>4, DispatchStamps
<1>4. ASSUME NEW r \in Request, AcquireNone(r) PROVE StampsBelowClock' /\ StampStep
  <2>1. PICK live \in ProbeResults : qmap' = Refresh(qmap, live)
    BY <1>4 DEF AcquireNone
  <2>2. live \in SUBSET Domain
    BY ConstantAssumption DEF ProbeResults
  <2>3. clock' = clock
    BY <1>4 DEF AcquireNone
  <2>4. QED
    BY <2>1, <2>2, <2>3, RefreshStamps
<1>5. ASSUME NEW r \in Request, Release(r) PROVE StampsBelowClock' /\ StampStep
  <2>1. DOMAIN qmap' = DOMAIN qmap /\ clock' = clock
        /\ \A d \in DOMAIN qmap : qmap'[d].last_used = qmap[d].last_used
    BY <1>5 DEF Release, TypeOK, QuerierStatus
  <2>2. QED
    BY <1>0, <2>1 DEF StampsBelowClock, StampStep
<1>6. CASE Tick
  <2>1. qmap' = qmap /\ clock' = clock + 1 /\ clock \in Nat
    BY <1>6 DEF Tick, TypeOK
  <2>2. QED
    BY <1>0, <2>1 DEF StampsBelowClock, StampStep
<1>7. QED
  <2>1. ASSUME NEW r \in Request,
               \/ GetQuerierInfo(r) \/ QuerierInfoFailed(r) \/ LockRegistry(r)
               \/ QueryDone(r) \/ Disconnect(r)
        PROVE  qmap' = qmap /\ clock' = clock
    BY <2>1 DEF GetQuerierInfo, QuerierInfoFailed, LockRegistry, QueryDone,
                QueryFailed, QueryResponded, Disconnect
  <2>2. UNCHANGED vars => qmap' = qmap /\ clock' = clock
    BY DEF vars
  <2>3. QED
    BY <1>1, <1>2, <1>3, <1>4, <1>5, <1>6, <2>1, <2>2 DEF Next, Acquire

LEMMA StampsInvariant == Spec => [](TypeOK /\ StampsBelowClock)
<1>1. Init => StampsBelowClock
  BY DEF Init, StampsBelowClock
<1>2. QED
  BY <1>1, TypeInit, TypeStep, StampsStep, PTL DEF Spec

(* For every instance, disconnects included: no step moves the last_used   *)
(* of a registered querier back, so the LRU fallback of                    *)
(* get_available_querier sees each querier's real last dispatch.          *)
THEOREM StampsMonotonic == Spec => LastUsedNeverDecreases
<1>1. TypeOK /\ StampsBelowClock /\ [Next]_vars => [StampStep]_vars
  BY StampsStep
<1>2. QED
  BY <1>1, StampsInvariant, PTL DEF Spec, LastUsedNeverDecreases, StampStep

=============================================================================

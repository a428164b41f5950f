------------------------- MODULE DispatcherAbstract -------------------------
(***************************************************************************)
(* What the querier dispatcher promises the query handlers, without the    *)
(* lock, the probes one by one, the round-robin pointer or the clock: a    *)
(* registry of queriers, the ones of them that are busy, and the querier   *)
(* each handler holds.                                                     *)
(*                                                                         *)
(*  - a handler that holds nothing refreshes the registry to the queriers  *)
(*    that answered and is handed one of them: a free one whenever one is  *)
(*    free, a busy one otherwise; or, when every answering querier is      *)
(*    busy, it may be refused;                                             *)
(*  - a handler gives its querier back, which makes that querier free     *)
(*    (whoever else was handed it too);                                    *)
(*  - a handler may be dropped while holding a querier, which stays busy.  *)
(***************************************************************************)
CONSTANTS
    Domain,     \* the queriers that may ever register
    Request,    \* the concurrent query handlers
    None        \* a handler that holds no querier

VARIABLES
    reg,        \* the queriers in the registry
    busy,       \* the registered queriers marked busy
    holder      \* the querier each handler holds, or None

avars == <<reg, busy, holder>>

Init ==
    /\ reg = {}
    /\ busy = {}
    /\ holder = [r \in Request |-> None]

(* The registry becomes the answering queriers, each keeping its flag, and *)
(* handler r is given d: a free querier if there is one.                   *)
Acquire(r) ==
    /\ holder[r] = None
    /\ \E live \in SUBSET Domain : \E d \in live :
          /\ live \ busy # {} => d \notin busy
          /\ reg' = live
          /\ busy' = (busy \cap live) \cup {d}
          /\ holder' = [holder EXCEPT ![r] = d]

(* Every answering querier is busy: the registry is refreshed and handler *)
(* r gets nothing.                                                         *)
Refuse(r) ==
    /\ holder[r] = None
    /\ \E live \in SUBSET busy :
          /\ reg' = live
          /\ busy' = live
    /\ UNCHANGED holder

(* Handler r gives its querier back.                                       *)
Release(r) ==
    /\ holder[r] # None
    /\ busy' = busy \ {holder[r]}
    /\ holder' = [holder EXCEPT ![r] = None]
    /\ UNCHANGED reg

(* Handler r is dropped while it holds a querier.                          *)
Drop(r) ==
    /\ holder[r] # None
    /\ holder' = [holder EXCEPT ![r] = None]
    /\ UNCHANGED <<reg, busy>>

Next == \E r \in Request : Acquire(r) \/ Refuse(r) \/ Release(r) \/ Drop(r)

Spec == Init /\ [][Next]_avars

=============================================================================

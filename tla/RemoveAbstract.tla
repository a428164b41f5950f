--------------------------- MODULE RemoveAbstract ---------------------------
(***************************************************************************)
(* What remove_node promises, without the role keys, the deletion order or *)
(* the four metastore calls: each request checks its node and removes its  *)
(* record in one atomic step, and answers afterwards.                      *)
(*                                                                         *)
(*  - a request whose node is running may be refused;                      *)
(*  - a request whose node is down removes the node's record at once, and  *)
(*    remembers whether there was one; when a liveness probe may time out, *)
(*    so may a request whose node is running;                              *)
(*  - it then answers Ok when it found a record, "not found" when it did   *)
(*    not, or, with metastore errors, an error whatever it did;            *)
(*  - with metastore errors a request may also fail before it removed      *)
(*    anything;                                                            *)
(*  - a node may crash at any time, and no record is ever written back.    *)
(***************************************************************************)
CONSTANTS
    Nodes,        \* node domains
    Calls,        \* concurrent remove_node requests
    StoreFaults,  \* a metastore delete may fail
    ProbeFaults   \* a liveness probe of a live node may time out

VARIABLES
    alive,        \* whether each node's process is up
    registered,   \* the nodes that have a record
    target,       \* the node each request was given
    stage,        \* "pending", "removed" or "done"
    found,        \* whether the request's removal found a record
    result        \* "none", "ok", "not_found", "err_live", "err_metastore"

avars == <<alive, registered, target, stage, found, result>>

(* Every node that is up has its record; no request has started.          *)
Init ==
    /\ alive \in [Nodes -> BOOLEAN]
    /\ registered \in SUBSET Nodes
    /\ \A n \in Nodes : alive[n] => n \in registered
    /\ target \in [Calls -> Nodes]
    /\ stage = [c \in Calls |-> "pending"]
    /\ found = [c \in Calls |-> FALSE]
    /\ result = [c \in Calls |-> "none"]

(* The node is running: the request is refused.                            *)
Refuse(c) ==
    /\ stage[c] = "pending"
    /\ alive[target[c]]
    /\ stage' = [stage EXCEPT ![c] = "done"]
    /\ result' = [result EXCEPT ![c] = "err_live"]
    /\ UNCHANGED <<alive, registered, target, found>>

(* A request may go on to remove only a node that is down, or any node    *)
(* when probes may time out.                                               *)
MayRemove(c) == ~alive[target[c]] \/ ProbeFaults

(* The node is found down: its record is removed, if it had one.          *)
Remove(c) ==
    /\ stage[c] = "pending"
    /\ MayRemove(c)
    /\ registered' = registered \ {target[c]}
    /\ found' = [found EXCEPT ![c] = target[c] \in registered]
    /\ stage' = [stage EXCEPT ![c] = "removed"]
    /\ UNCHANGED <<alive, target, result>>

(* A metastore error before anything of the node was removed.             *)
Fail(c) ==
    /\ StoreFaults
    /\ stage[c] = "pending"
    /\ MayRemove(c)
    /\ stage' = [stage EXCEPT ![c] = "done"]
    /\ result' = [result EXCEPT ![c] = "err_metastore"]
    /\ UNCHANGED <<alive, registered, target, found>>

(* The answer of a request that removed: what it found, or an error.      *)
Answer(c) ==
    /\ stage[c] = "removed"
    /\ \E res \in {IF found[c] THEN "ok" ELSE "not_found"}
                  \cup (IF StoreFaults THEN {"err_metastore"} ELSE {}) :
          result' = [result EXCEPT ![c] = res]
    /\ stage' = [stage EXCEPT ![c] = "done"]
    /\ UNCHANGED <<alive, registered, target, found>>

(* A node process stops; records are never written back.                   *)
Crash(n) ==
    /\ alive[n]
    /\ alive' = [alive EXCEPT ![n] = FALSE]
    /\ UNCHANGED <<registered, target, stage, found, result>>

Next ==
    \/ \E c \in Calls : Refuse(c) \/ Remove(c) \/ Fail(c) \/ Answer(c)
    \/ \E n \in Nodes : Crash(n)

Spec == Init /\ [][Next]_avars

=============================================================================

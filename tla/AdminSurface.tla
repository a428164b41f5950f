---------------------------- MODULE AdminSurface ----------------------------
(***************************************************************************)
(* remove_node against the nodes it removes and the metastore it writes.  *)
(* Each element of Calls is one remove_node request, possibly concurrent   *)
(* with the others; each node may crash at any time.  A node's start,     *)
(* which writes its record, is in the node's startup outside this file,   *)
(* so restarts are left out; check_liveness answers for a dead node and,  *)
(* when its probe may time out, may report a live node dead.  The node    *)
(* records are abstracted to the set of role keys                         *)
(* a domain is stored under.                                               *)
(* URL normalisation (to_url_string) and the response texts are left out. *)
(***************************************************************************)
EXTENDS Naturals, Sequences

CONSTANTS
    Nodes,      \* node domains
    RoleOf,     \* the role each node registers under
    RoleOrder,  \* Ingestor, Indexer, Querier, Prism: the deletion order
    Calls,      \* concurrent remove_node requests
    StoreFaults,  \* a metastore delete may fail
    ProbeFaults   \* a liveness probe of a live node may time out

ASSUME AdminAssumption ==
    /\ RoleOrder \in Seq(STRING)
    /\ RoleOf \in [Nodes -> {RoleOrder[k] : k \in 1..Len(RoleOrder)}]
    /\ StoreFaults \in BOOLEAN
    /\ ProbeFaults \in BOOLEAN

VARIABLES
    alive,      \* whether each node's process is up
    meta,       \* the role keys each domain has a record under
    target,     \* the domain each call was given
    pc,         \* "start", "deleting" or "done"
    k,          \* the next delete_node_metadata of the call, in RoleOrder
    removed,    \* the roles whose delete reported a removal for this call
    result      \* "none", "ok", "not_found", "err_live", "err_metastore"

vars == <<alive, meta, target, pc, k, removed, result>>

Roles == {RoleOrder[j] : j \in 1..Len(RoleOrder)}

-----------------------------------------------------------------------------
(* utils::check_liveness of node n (spec 4.1): a dead node never answers; *)
(* a live one answers unless the probe times out, which reads as dead.    *)
ProbeAnswers(n) ==
    IF alive[n] /\ ProbeFaults THEN BOOLEAN ELSE {alive[n]}

(* Lines 1019-1023: check_liveness of the target.  A node the probe finds *)
(* live is refused; one it finds dead goes on to the deletions.           *)
CheckLiveness(c) ==
    /\ pc[c] = "start"
    /\ \E live \in ProbeAnswers(target[c]) :
       IF live
       THEN /\ pc' = [pc EXCEPT ![c] = "done"]
            /\ result' = [result EXCEPT ![c] = "err_live"]
       ELSE /\ pc' = [pc EXCEPT ![c] = "deleting"]
            /\ UNCHANGED result
    /\ UNCHANGED <<alive, meta, target, k, removed>>

(* Mutant: a delete that returns Ok is taken for a removal, whether or not *)
(* a record was there.                                                     *)
DeleteRoleAssumesRemoved(c) ==
    /\ pc[c] = "deleting"
    /\ k[c] <= Len(RoleOrder)
    /\ LET n == target[c]
           r == RoleOrder[k[c]]
       IN  \/ /\ meta' = [meta EXCEPT ![n] = @ \ {r}]
              /\ removed' = [removed EXCEPT ![c] = @ \cup {r}]
              /\ k' = [k EXCEPT ![c] = @ + 1]
              /\ UNCHANGED <<pc, result>>
           \/ /\ StoreFaults
              /\ pc' = [pc EXCEPT ![c] = "done"]
              /\ result' = [result EXCEPT ![c] = "err_metastore"]
              /\ UNCHANGED <<meta, removed, k>>
    /\ UNCHANGED <<alive, target>>

(* Lines 1026-1048: delete_node_metadata under the next role key; it      *)
(* reports whether a record was there.  A metastore error returns at once  *)
(* through `?`, after the deletions already done.                          *)
DeleteRole(c) ==
    /\ pc[c] = "deleting"
    /\ k[c] <= Len(RoleOrder)
    /\ LET n == target[c]
           r == RoleOrder[k[c]]
       IN  \/ /\ meta' = [meta EXCEPT ![n] = @ \ {r}]
              /\ removed' = [removed EXCEPT ![c] =
                               IF r \in meta[n] THEN @ \cup {r} ELSE @]
              /\ k' = [k EXCEPT ![c] = @ + 1]
              /\ UNCHANGED <<pc, result>>
           \/ /\ StoreFaults
              /\ pc' = [pc EXCEPT ![c] = "done"]
              /\ result' = [result EXCEPT ![c] = "err_metastore"]
              /\ UNCHANGED <<meta, removed, k>>
    /\ UNCHANGED <<alive, target>>

(* Mutant: the Prism key is never deleted (the deletion list stops one    *)
(* role short).                                                            *)
FinishEarly(c) ==
    /\ pc[c] = "deleting"
    /\ k[c] = Len(RoleOrder)
    /\ pc' = [pc EXCEPT ![c] = "done"]
    /\ result' = [result EXCEPT ![c] = IF removed[c] # {} THEN "ok" ELSE "not_found"]
    /\ UNCHANGED <<alive, meta, target, k, removed>>

(* Lines 1050-1059: Ok when any of the four deletes removed a record,      *)
(* "not found" otherwise.                                                  *)
Finish(c) ==
    /\ pc[c] = "deleting"
    /\ k[c] = Len(RoleOrder) + 1
    /\ pc' = [pc EXCEPT ![c] = "done"]
    /\ result' = [result EXCEPT ![c] = IF removed[c] # {} THEN "ok" ELSE "not_found"]
    /\ UNCHANGED <<alive, meta, target, k, removed>>

(* A node process stops; its record stays in the metastore.                *)
Crash(n) ==
    /\ alive[n]
    /\ alive' = [alive EXCEPT ![n] = FALSE]
    /\ UNCHANGED <<meta, target, pc, k, removed, result>>

(* Every registered node is up or down; a node that is up has its record.  *)
Init ==
    /\ alive \in [Nodes -> BOOLEAN]
    /\ meta \in {m \in [Nodes -> SUBSET Roles] :
                   \A n \in Nodes : m[n] \in {{}, {RoleOf[n]}} /\ (alive[n] => m[n] # {})}
    /\ target \in [Calls -> Nodes]
    /\ pc = [c \in Calls |-> "start"]
    /\ k = [c \in Calls |-> 1]
    /\ removed = [c \in Calls |-> {}]
    /\ result = [c \in Calls |-> "none"]

Next ==
    \/ \E c \in Calls : CheckLiveness(c) \/ DeleteRole(c) \/ Finish(c)
    \/ \E n \in Nodes : Crash(n)

Spec == Init /\ [][Next]_vars

-----------------------------------------------------------------------------
(* Properties.                                                             *)

(* Spec 4.9: a remove_node that answers Ok or "not found" leaves no      *)
(* record of the node under any of the four role keys.                  *)
NodeGoneAfterRemoval ==
    \A c \in Calls : result[c] \in {"ok", "not_found"} => meta[target[c]] = {}

(* Request c has deleted its node's role key: the record is gone from the *)
(* metastore as far as this request is concerned.                          *)
Deleted(c) == \E j \in 1..(k[c] - 1) : RoleOrder[j] = RoleOf[target[c]]

(* remove_node implements RemoveAbstract: a node has a record when it has *)
(* one under some role key; a request is pending until it has deleted its *)
(* node's role key, at which point it removes atomically, and has found a *)
(* record when one of its deletes reported a removal.                      *)
Abstract == INSTANCE RemoveAbstract WITH
    registered <- {n \in Nodes : meta[n] # {}},
    stage      <- [c \in Calls |-> IF pc[c] = "done" THEN "done"
                                   ELSE IF pc[c] = "deleting" /\ Deleted(c)
                                   THEN "removed" ELSE "pending"],
    found      <- [c \in Calls |-> removed[c] # {}]

(* Spec 4.9: remove_node is linearizable.  Its liveness check and its four *)
(* deletes, interleaved with other requests and crashes, behave as one     *)
(* check-and-remove of the node's record followed by the answer, which is  *)
(* Ok exactly when that removal found a record (or a metastore error).     *)
ImplementsRemoveAbstract == Abstract!Spec

=============================================================================

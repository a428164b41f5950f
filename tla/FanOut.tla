------------------------------- MODULE FanOut -------------------------------
(***************************************************************************)
(* for_each_live_ingestor and the sync broadcasts built on it              *)
(* (sync_streams_with_ingestors, sync_users_with_roles_with_ingestors,     *)
(* sync_user_deletion/creation, sync_password_reset, sync_role_update).    *)
(*                                                                         *)
(* Each element of Calls is one broadcast in progress, possibly concurrent *)
(* with the others.  A call validates its operation, loads the ingestor   *)
(* metadata, probes every ingestor in metadata order, then runs one task   *)
(* per live ingestor (join_all) and finally walks the results in           *)
(* live-list order, returning the first error (`result?`).  An ingestor   *)
(* may crash or come back at any time, a probe may time out on a live     *)
(* ingestor, and a response may be lost after the ingestor applied the    *)
(* request.  URL and body construction, headers and logging are left out.  *)
(*                                                                         *)
(* Three per-ingestor helpers are calls of the same kind, told apart by    *)
(* their op: "demo" (get_demo_data_from_ingestor: probe in order, stop at  *)
(* the first live ingestor, one GET), "stream_delete"                      *)
(* (send_stream_delete_request: probe the ingestor its caller passes,     *)
(* skip it if dead, else one DELETE) and "retention"                       *)
(* (send_retention_cleanup_request: one POST, no probe).  The demo fetch   *)
(* and the retention cleanup turn a non-2xx answer into an error; the      *)
(* broadcasts and the stream delete only log it.                           *)
(***************************************************************************)
EXTENDS Naturals, Sequences, FiniteSets

(* The elements of a sequence, as SequencesExt's ToSet; defined here so   *)
(* that FanOutProofs need not load SequencesExt and its folds.             *)
ToSet(s) == {s[i] : i \in DOMAIN s}

CONSTANTS
    Peers,      \* the ingestors registered in the metastore
    Order,      \* the order get_node_info returns them in
    Calls,      \* concurrent broadcast calls
    Ops,        \* operation names a caller may pass
    ValidOps,   \* the ones the broadcast accepts (no helper among them)
    Faults      \* metastore errors, crashes, probe timeouts, lost responses

ASSUME FanOutAssumption ==
    /\ Order \in Seq(Peers) /\ ToSet(Order) = Peers
    /\ \A j, k \in 1..Len(Order) : Order[j] = Order[k] => j = k
    /\ ValidOps \subseteq Ops
    /\ ValidOps \cap {"demo", "stream_delete", "retention"} = {}
    /\ Faults \in BOOLEAN

VARIABLES
    alive,      \* whether each ingestor is up
    op,         \* the operation each call was given
    pc,         \* where each call is
    probed,     \* how many ingestors the call's probe loop has visited
    live,       \* the call's live_ingestors, in metadata order
    task,       \* the per-ingestor task of each call
    received,   \* the ingestors that have applied each call's request
    accepted,   \* the ingestors whose 2xx answer each call has read
    result      \* what each call returned

vars == <<alive, op, pc, probed, live, task, received, accepted, result>>

Results == {"none", "ok", "err_invalid", "err_metadata", "err_no_live",
            "err_network"}

TaskStates == {"none", "pending", "ok", "err"}

TypeOK ==
    /\ alive \in [Peers -> BOOLEAN]
    /\ op \in [Calls -> Ops]
    /\ pc \in [Calls -> {"start", "probing", "joining", "done"}]
    /\ probed \in [Calls -> 0..Len(Order)]
    /\ live \in [Calls -> Seq(Peers)]
    /\ \A c \in Calls : Len(live[c]) <= Len(Order)
    /\ task \in [Calls -> [Peers -> TaskStates]]
    /\ received \in [Calls -> SUBSET Peers]
    /\ accepted \in [Calls -> SUBSET Peers]
    /\ result \in [Calls -> Results]

-----------------------------------------------------------------------------
(* sync_users_with_roles_with_ingestors, lines 436-439: an operation other *)
(* than add or remove is rejected before anything is sent.                *)
RejectOperation(c) ==
    /\ pc[c] = "start"
    /\ op[c] \notin ValidOps \cup {"demo", "stream_delete", "retention"}
    /\ pc' = [pc EXCEPT ![c] = "done"]
    /\ result' = [result EXCEPT ![c] = "err_invalid"]
    /\ UNCHANGED <<alive, op, probed, live, task, received, accepted>>

(* Lines 288-292 (and 376-380 for the demo fetch): get_node_info fails;   *)
(* the error is returned at once.                                          *)
MetadataFailed(c) ==
    /\ pc[c] = "start"
    /\ op[c] \in ValidOps \cup {"demo"}
    /\ Faults
    /\ pc' = [pc EXCEPT ![c] = "done"]
    /\ result' = [result EXCEPT ![c] = "err_metadata"]
    /\ UNCHANGED <<alive, op, probed, live, task, received, accepted>>

(* Lines 288-294 (376-383): the ingestor list is loaded and the probe    *)
(* loop starts.                                                            *)
LoadIngestors(c) ==
    /\ pc[c] = "start"
    /\ op[c] \in ValidOps \cup {"demo"}
    /\ pc' = [pc EXCEPT ![c] = "probing"]
    /\ UNCHANGED <<alive, op, probed, live, task, received, accepted, result>>

(* utils::check_liveness on ingestor p: a live ingestor answers, unless    *)
(* the probe times out; a dead one never does.                             *)
ProbeAnswers(p) ==
    IF alive[p] /\ ~Faults THEN {TRUE} ELSE IF alive[p] THEN BOOLEAN ELSE {FALSE}

(* Lines 384-388: the demo fetch breaks out of its probe loop at the       *)
(* first live ingestor.                                                    *)
StopsAtFirstLive(c) == op[c] = "demo" /\ live[c] # <<>>

(* Mutant: the probe loop pushes a live ingestor without moving on.       *)
ProbeStalls(c) ==
    /\ pc[c] = "probing"
    /\ probed[c] < Len(Order)
    /\ LET p == Order[probed[c] + 1]
       IN  IF alive[p]
           THEN /\ live' = [live EXCEPT ![c] = Append(@, p)]
                /\ UNCHANGED probed
           ELSE /\ probed' = [probed EXCEPT ![c] = @ + 1]
                /\ UNCHANGED live
    /\ UNCHANGED <<alive, op, pc, task, received, accepted, result>>

(* Lines 295-301 (383-389): one check_liveness per ingestor, in order; a   *)
(* live one is pushed, a dead one (or one whose probe times out) is        *)
(* skipped.                                                                *)
Probe(c) ==
    /\ pc[c] = "probing"
    /\ probed[c] < Len(Order)
    /\ ~StopsAtFirstLive(c)
    /\ LET p == Order[probed[c] + 1]
       IN  \E isLive \in ProbeAnswers(p) :
             live' = [live EXCEPT ![c] = IF isLive THEN Append(@, p) ELSE @]
    /\ probed' = [probed EXCEPT ![c] = @ + 1]
    /\ UNCHANGED <<alive, op, pc, task, received, accepted, result>>

(* Mutant: the demo fetch goes on to its GET when no ingestor answered,    *)
(* its request then reaching nobody.                                       *)
NoLiveIngestorSkipped(c) ==
    /\ pc[c] = "probing"
    /\ op[c] = "demo"
    /\ probed[c] = Len(Order) /\ live[c] = <<>>
    /\ pc' = [pc EXCEPT ![c] = "joining"]
    /\ UNCHANGED <<alive, op, probed, live, task, received, accepted, result>>

(* Lines 391-395: no ingestor answered the demo fetch's probes.            *)
NoLiveIngestor(c) ==
    /\ pc[c] = "probing"
    /\ op[c] = "demo"
    /\ probed[c] = Len(Order) /\ live[c] = <<>>
    /\ pc' = [pc EXCEPT ![c] = "done"]
    /\ result' = [result EXCEPT ![c] = "err_no_live"]
    /\ UNCHANGED <<alive, op, probed, live, task, received, accepted>>

(* Lines 303-308: join_all starts one task per live ingestor (for the demo *)
(* fetch, lines 397-417: the one GET to the first live ingestor).          *)
Launch(c) ==
    /\ pc[c] = "probing"
    /\ probed[c] = Len(Order) \/ StopsAtFirstLive(c)
    /\ op[c] = "demo" => live[c] # <<>>
    /\ task' = [task EXCEPT ![c] = [p \in Peers |-> IF p \in ToSet(live[c])
                                                   THEN "pending" ELSE "none"]]
    /\ pc' = [pc EXCEPT ![c] = "joining"]
    /\ UNCHANGED <<alive, op, probed, live, received, accepted, result>>

(* send_stream_delete_request, lines 760-767, for the ingestor p its       *)
(* caller passes: a dead ingestor (or a timed-out probe) is skipped with   *)
(* Ok, a live one gets the DELETE.                                         *)
StreamDeleteStart(c) ==
    /\ pc[c] = "start"
    /\ op[c] = "stream_delete"
    /\ \E p \in Peers, isLive \in BOOLEAN :
          /\ isLive \in ProbeAnswers(p)
          /\ probed' = [probed EXCEPT ![c] = 1]
          /\ IF isLive
             THEN /\ live' = [live EXCEPT ![c] = <<p>>]
                  /\ task' = [task EXCEPT ![c][p] = "pending"]
                  /\ pc' = [pc EXCEPT ![c] = "joining"]
                  /\ UNCHANGED result
             ELSE /\ pc' = [pc EXCEPT ![c] = "done"]
                  /\ result' = [result EXCEPT ![c] = "ok"]
                  /\ UNCHANGED <<live, task>>
    /\ UNCHANGED <<alive, op, received, accepted>>

(* send_retention_cleanup_request, lines 796-808: the POST goes to the     *)
(* ingestor p its caller passes, with no liveness probe.                   *)
RetentionStart(c) ==
    /\ pc[c] = "start"
    /\ op[c] = "retention"
    /\ \E p \in Peers :
          /\ live' = [live EXCEPT ![c] = <<p>>]
          /\ task' = [task EXCEPT ![c][p] = "pending"]
    /\ pc' = [pc EXCEPT ![c] = "joining"]
    /\ UNCHANGED <<alive, op, probed, received, accepted, result>>

(* Lines 418-424 and 820-831: the demo fetch and the retention cleanup     *)
(* return an error on a non-2xx answer; lines 473-482 and 784-791: the     *)
(* broadcasts and the stream delete log it and go on.                      *)
Propagates(o) == o \in {"demo", "retention"}

(* Mutant: a transport error is logged and swallowed like a non-2xx        *)
(* response.                                                               *)
SendSwallowsError(c, p) ==
    /\ pc[c] = "joining"
    /\ task[c][p] = "pending"
    /\ task' = [task EXCEPT ![c][p] = "ok"]
    /\ received' = [received EXCEPT ![c] = IF alive[p] THEN @ \cup {p} ELSE @]
    /\ accepted' = [accepted EXCEPT ![c] = IF alive[p] THEN @ \cup {p} ELSE @]
    /\ UNCHANGED <<alive, op, pc, probed, live, result>>

(* Mutant: every kind only logs a non-2xx answer, as the broadcasts do.   *)
SendLogsRejection(c, p) ==
    /\ pc[c] = "joining"
    /\ task[c][p] = "pending"
    /\ \/ /\ alive[p]
          /\ task' = [task EXCEPT ![c][p] = "ok"]
          /\ received' = [received EXCEPT ![c] = @ \cup {p}]
          /\ accepted' = [accepted EXCEPT ![c] = @ \cup {p}]
       \/ /\ alive[p] /\ Faults
          /\ task' = [task EXCEPT ![c][p] = "ok"]
          /\ received' = [received EXCEPT ![c] = @ \cup {p}]
          /\ UNCHANGED accepted
       \/ /\ alive[p] /\ Faults
          /\ task' = [task EXCEPT ![c][p] = "err"]
          /\ received' = [received EXCEPT ![c] = @ \cup {p}]
          /\ UNCHANGED accepted
       \/ /\ ~alive[p]
          /\ task' = [task EXCEPT ![c][p] = "err"]
          /\ UNCHANGED <<received, accepted>>
    /\ UNCHANGED <<alive, op, pc, probed, live, result>>

(* The per-ingestor request (e.g. lines 459-488, 405-426, 768-793,        *)
(* 801-832).  It reaches a live ingestor, which handles it: the answer is  *)
(* a 2xx, or a non-2xx (the ingestor refused it), or it is lost; a dead    *)
(* ingestor gives a transport error.  A 2xx gives Ok, a lost answer an     *)
(* error, and a non-2xx an error only for the kinds that Propagate it.     *)
Send(c, p) ==
    /\ pc[c] = "joining"
    /\ task[c][p] = "pending"
    /\ \/ /\ alive[p]
          /\ task' = [task EXCEPT ![c][p] = "ok"]
          /\ received' = [received EXCEPT ![c] = @ \cup {p}]
          /\ accepted' = [accepted EXCEPT ![c] = @ \cup {p}]
       \/ /\ alive[p] /\ Faults
          /\ task' = [task EXCEPT ![c][p] = IF Propagates(op[c]) THEN "err"
                                                                ELSE "ok"]
          /\ received' = [received EXCEPT ![c] = @ \cup {p}]
          /\ UNCHANGED accepted
       \/ /\ alive[p] /\ Faults
          /\ task' = [task EXCEPT ![c][p] = "err"]
          /\ received' = [received EXCEPT ![c] = @ \cup {p}]
          /\ UNCHANGED accepted
       \/ /\ ~alive[p]
          /\ task' = [task EXCEPT ![c][p] = "err"]
          /\ UNCHANGED <<received, accepted>>
    /\ UNCHANGED <<alive, op, pc, probed, live, result>>

(* Mutant: the results are awaited with a short-circuiting join, which     *)
(* returns at the first failed task and drops the others.                 *)
JoinFirstError(c) ==
    /\ pc[c] = "joining"
    /\ \/ /\ \A p \in ToSet(live[c]) : task[c][p] # "pending"
          /\ result' = [result EXCEPT ![c] =
                          IF \E p \in ToSet(live[c]) : task[c][p] = "err"
                          THEN "err_network" ELSE "ok"]
       \/ /\ \E p \in ToSet(live[c]) : task[c][p] = "err"
          /\ result' = [result EXCEPT ![c] = "err_network"]
    /\ pc' = [pc EXCEPT ![c] = "done"]
    /\ UNCHANGED <<alive, op, probed, live, task, received, accepted>>

(* Lines 303-317: join_all waits for every task; the loop over the results *)
(* then returns the first error in live-list order, or Ok.                 *)
Join(c) ==
    /\ pc[c] = "joining"
    /\ \A p \in ToSet(live[c]) : task[c][p] # "pending"
    /\ result' = [result EXCEPT ![c] =
                    IF \E p \in ToSet(live[c]) : task[c][p] = "err"
                    THEN "err_network" ELSE "ok"]
    /\ pc' = [pc EXCEPT ![c] = "done"]
    /\ UNCHANGED <<alive, op, probed, live, task, received, accepted>>

(* An ingestor process stops, or comes back.                               *)
Crash(p) ==
    /\ Faults /\ alive[p]
    /\ alive' = [alive EXCEPT ![p] = FALSE]
    /\ UNCHANGED <<op, pc, probed, live, task, received, accepted, result>>

Recover(p) ==
    /\ Faults /\ ~alive[p]
    /\ alive' = [alive EXCEPT ![p] = TRUE]
    /\ UNCHANGED <<op, pc, probed, live, task, received, accepted, result>>

Init ==
    /\ alive \in [Peers -> BOOLEAN]
    /\ op \in [Calls -> Ops]
    /\ pc = [c \in Calls |-> "start"]
    /\ probed = [c \in Calls |-> 0]
    /\ live = [c \in Calls |-> <<>>]
    /\ task = [c \in Calls |-> [p \in Peers |-> "none"]]
    /\ received = [c \in Calls |-> {}]
    /\ accepted = [c \in Calls |-> {}]
    /\ result = [c \in Calls |-> "none"]

Next ==
    \/ \E c \in Calls :
          \/ RejectOperation(c) \/ MetadataFailed(c) \/ LoadIngestors(c)
          \/ Probe(c) \/ NoLiveIngestor(c) \/ Launch(c) \/ Join(c)
          \/ StreamDeleteStart(c) \/ RetentionStart(c)
          \/ \E p \in Peers : Send(c, p)
    \/ \E p \in Peers : Crash(p) \/ Recover(p)

Spec == Init /\ [][Next]_vars

-----------------------------------------------------------------------------
(* Properties.                                                             *)

(* Spec 4.2 and 8.8: best effort.  When a broadcast returns, even with an  *)
(* error, every ingestor it found live has had its request attempted: one  *)
(* failing ingestor does not stop the others from being updated.          *)
BestEffortToEveryLivePeer ==
    \A c \in Calls :
        pc[c] = "done" =>
            \A p \in ToSet(live[c]) : task[c][p] \in {"ok", "err"}

(* Spec 4.2 and 7: a broadcast that returns Ok has reached every ingestor  *)
(* it found live; a transport failure on any of them surfaces as an error. *)
OkReachedEveryLivePeer ==
    \A c \in Calls :
        result[c] = "ok" => ToSet(live[c]) \subseteq received[c]

(* Spec 3 (table) and 7: the demo-data fetch and the retention cleanup     *)
(* propagate errors, the demo fetch failing when no ingestor is live: an   *)
(* Ok from either means the ingestor it went to answered 2xx.              *)
PropagatedOkMeansAccepted ==
    \A c \in Calls :
        Propagates(op[c]) /\ result[c] = "ok" =>
            live[c] # <<>> /\ ToSet(live[c]) \subseteq accepted[c]

=============================================================================

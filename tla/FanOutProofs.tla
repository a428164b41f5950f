---------------------------- MODULE FanOutProofs ----------------------------
(***************************************************************************)
(* Proofs about FanOut, for every set of ingestors, every metadata order,  *)
(* every number of concurrent calls and every set of operations the        *)
(* module's assumption allows, with or without faults.                     *)
(***************************************************************************)
EXTENDS FanOut, TLAPS

(* The inductive invariant.  No property is inductive by itself: a call   *)
(* that reaches "done" must have had a task launched for every ingestor   *)
(* of its live list (Launch and the helpers' first steps set them         *)
(* pending, a task never goes back to none), a task that answered Ok must *)
(* have reached its ingestor (and, for the kinds that propagate a non-2xx, *)
(* have read a 2xx), a returned call must be frozen, which holds because  *)
(* every step of a call is guarded by a pc other than "done", and a demo   *)
(* fetch or retention cleanup that is joining has an ingestor to wait on:  *)
(* only the broadcasts and the demo fetch probe, and the demo fetch       *)
(* launches only once an ingestor answered.  The probe loop never pushes  *)
(* more ingestors than it has visited, which bounds the live list.        *)
CallInv(c) ==
    /\ pc[c] = "start" => live[c] = <<>>
    /\ pc[c] = "probing" => Len(live[c]) <= probed[c]
    /\ pc[c] = "probing" => op[c] \in ValidOps \cup {"demo"}
    /\ result[c] # "none" => pc[c] = "done"
    /\ pc[c] \in {"joining", "done"} => \A p \in ToSet(live[c]) : task[c][p] # "none"
    /\ pc[c] = "done" => \A p \in ToSet(live[c]) : task[c][p] # "pending"
    /\ \A p \in Peers : task[c][p] = "ok" => p \in received[c]
    /\ \A p \in Peers : task[c][p] = "ok" /\ Propagates(op[c]) => p \in accepted[c]
    /\ pc[c] = "joining" /\ Propagates(op[c]) => live[c] # <<>>
    /\ result[c] = "ok" => \A p \in ToSet(live[c]) : task[c][p] = "ok"
    /\ result[c] = "ok" /\ Propagates(op[c]) => live[c] # <<>>

IInv == TypeOK /\ \A c \in Calls : CallInv(c)

-----------------------------------------------------------------------------
(* Facts about the constants and the live lists.                           *)

(* A registered ingestor is in the metadata list, which is then not empty. *)
LEMMA OrderNotEmpty ==
    ASSUME NEW p \in Peers PROVE Len(Order) >= 1
BY FanOutAssumption DEF ToSet

(* The live list of a call holds registered ingestors only.              *)
LEMMA LiveInPeers ==
    ASSUME TypeOK, NEW c \in Calls
    PROVE  ToSet(live[c]) \subseteq Peers
BY DEF TypeOK, ToSet

-----------------------------------------------------------------------------
(* Type correctness.                                                       *)

LEMMA TypeInit == Init => TypeOK
BY DEF Init, TypeOK, Results, TaskStates

(* Every step keeps the state well typed; the probe loop only ever reads  *)
(* Order at positions 1..Len(Order), the live list grows by at most one   *)
(* ingestor per probe, and a helper's list is one registered ingestor.    *)
LEMMA TypeStep == IInv /\ [Next]_vars => TypeOK'
<1> SUFFICES ASSUME TypeOK, \A c \in Calls : CallInv(c), [Next]_vars
             PROVE TypeOK'
  BY DEF IInv
<1>1. ASSUME NEW c \in Calls,
             \/ RejectOperation(c) \/ MetadataFailed(c) \/ LoadIngestors(c)
             \/ NoLiveIngestor(c)
      PROVE  TypeOK'
  BY <1>1 DEF RejectOperation, MetadataFailed, LoadIngestors, NoLiveIngestor,
              TypeOK, Results
<1>2. ASSUME NEW c \in Calls, Probe(c) PROVE TypeOK'
  <2>1. Order[probed[c] + 1] \in Peers
    BY <1>2, FanOutAssumption DEF Probe, TypeOK
  <2>2. probed'[c] \in 0..Len(Order) /\ probed'[c] = probed[c] + 1
    BY <1>2 DEF Probe, TypeOK
  <2>3. Len(live[c]) <= probed[c]
    BY <1>2 DEF Probe, CallInv
  <2>4. live'[c] \in Seq(Peers) /\ Len(live'[c]) <= probed'[c]
    BY <1>2, <2>1, <2>2, <2>3 DEF Probe, TypeOK
  <2>5. live' \in [Calls -> Seq(Peers)]
    BY <1>2, <2>4 DEF Probe, TypeOK
  <2>6. QED
    BY <1>2, <2>2, <2>4, <2>5 DEF Probe, TypeOK
<1>3. ASSUME NEW c \in Calls, Launch(c) PROVE TypeOK'
  <2>1. task' \in [Calls -> [Peers -> TaskStates]]
    BY <1>3 DEF Launch, TypeOK, TaskStates
  <2>2. QED
    BY <1>3, <2>1 DEF Launch, TypeOK
<1>4. ASSUME NEW c \in Calls, Join(c) PROVE TypeOK'
  <2>1. result' \in [Calls -> Results]
    BY <1>4 DEF Join, TypeOK, Results
  <2>2. pc' \in [Calls -> {"start", "probing", "joining", "done"}]
    BY <1>4 DEF Join, TypeOK
  <2>3. QED
    BY <1>4, <2>1, <2>2 DEF Join, TypeOK
<1>9. ASSUME NEW c \in Calls, StreamDeleteStart(c) \/ RetentionStart(c)
      PROVE  TypeOK'
  <2>1. PICK p \in Peers :
           /\ live' = live \/ live' = [live EXCEPT ![c] = <<p>>]
           /\ task' = task \/ task' = [task EXCEPT ![c][p] = "pending"]
    BY <1>9 DEF StreamDeleteStart, RetentionStart
  <2>2. Len(Order) >= 1
    BY OrderNotEmpty
  <2>3. live' \in [Calls -> Seq(Peers)] /\ \A d \in Calls : Len(live'[d]) <= Len(Order)
    <3>1. CASE live' = live
      BY <3>1 DEF TypeOK
    <3>2. CASE live' = [live EXCEPT ![c] = <<p>>]
      BY <2>2, <3>2 DEF TypeOK
    <3>3. QED
      BY <2>1, <3>1, <3>2
  <2>4. task' \in [Calls -> [Peers -> TaskStates]]
    <3>1. CASE task' = task
      BY <3>1 DEF TypeOK
    <3>2. CASE task' = [task EXCEPT ![c][p] = "pending"]
      BY <3>2 DEF TypeOK, TaskStates
    <3>3. QED
      BY <2>1, <3>1, <3>2
  <2>5. probed' \in [Calls -> 0..Len(Order)]
    BY <1>9, <2>2 DEF StreamDeleteStart, RetentionStart, TypeOK
  <2>6. pc' \in [Calls -> {"start", "probing", "joining", "done"}]
        /\ result' \in [Calls -> Results]
    BY <1>9 DEF StreamDeleteStart, RetentionStart, TypeOK, Results
  <2>7. QED
    BY <1>9, <2>3, <2>4, <2>5, <2>6 DEF StreamDeleteStart, RetentionStart, TypeOK
<1>8. ASSUME NEW c \in Calls, NEW p \in Peers, Send(c, p) PROVE TypeOK'
  <2>0. PICK v \in {"ok", "err"} : task' = [task EXCEPT ![c][p] = v]
    BY <1>8 DEF Send
  <2>1. task' \in [Calls -> [Peers -> TaskStates]]
    BY <2>0 DEF TypeOK, TaskStates
  <2>2. \/ received' = received
        \/ received' = [received EXCEPT ![c] = received[c] \cup {p}]
    BY <1>8 DEF Send
  <2>5. \/ accepted' = accepted
        \/ accepted' = [accepted EXCEPT ![c] = accepted[c] \cup {p}]
    BY <1>8 DEF Send
  <2>6. received' \in [Calls -> SUBSET Peers]
    <3>1. CASE received' = received
      BY <3>1 DEF TypeOK
    <3>2. CASE received' = [received EXCEPT ![c] = received[c] \cup {p}]
      <4>1. received[c] \cup {p} \in SUBSET Peers
        BY DEF TypeOK
      <4>2. QED
        BY <3>2, <4>1 DEF TypeOK
    <3>3. QED
      BY <2>2, <3>1, <3>2
  <2>7. accepted' \in [Calls -> SUBSET Peers]
    <3>1. CASE accepted' = accepted
      BY <3>1 DEF TypeOK
    <3>2. CASE accepted' = [accepted EXCEPT ![c] = accepted[c] \cup {p}]
      <4>1. accepted[c] \cup {p} \in SUBSET Peers
        BY DEF TypeOK
      <4>2. QED
        BY <3>2, <4>1 DEF TypeOK
    <3>3. QED
      BY <2>5, <3>1, <3>2
  <2>4. received' \in [Calls -> SUBSET Peers] /\ accepted' \in [Calls -> SUBSET Peers]
    BY <2>6, <2>7
  <2>3. QED
    BY <1>8, <2>1, <2>4 DEF Send, TypeOK
<1>5. ASSUME NEW p \in Peers, Crash(p) \/ Recover(p) PROVE TypeOK'
  BY <1>5 DEF Crash, Recover, TypeOK
<1>6. CASE UNCHANGED vars
  BY <1>6 DEF vars, TypeOK
<1>7. QED
  BY <1>1, <1>2, <1>3, <1>4, <1>5, <1>6, <1>8, <1>9 DEF Next

-----------------------------------------------------------------------------
(* The call invariants.                                                    *)

(* A step that leaves call d's state alone keeps d's invariant.            *)
LEMMA CallFrame ==
    ASSUME NEW d, CallInv(d), op' = op,
           pc'[d] = pc[d], live'[d] = live[d], task'[d] = task[d],
           probed'[d] = probed[d], received'[d] = received[d],
           accepted'[d] = accepted[d], result'[d] = result[d]
    PROVE  CallInv(d)'
BY DEF CallInv, ToSet, Propagates

LEMMA InvInit == Init => IInv
BY TypeInit DEF Init, IInv, CallInv

(* Every step keeps every call's invariant: the acting call's by the case *)
(* of its action, the other calls' by CallFrame.                           *)
LEMMA InvStep == IInv /\ [Next]_vars => IInv'
<1> SUFFICES ASSUME TypeOK, \A c \in Calls : CallInv(c), [Next]_vars,
                    NEW d \in Calls
             PROVE  CallInv(d)'
  BY TypeStep DEF IInv
<1>0. CallInv(d) /\ op' = op
  BY DEF Next, vars, RejectOperation, MetadataFailed, LoadIngestors, Probe,
         NoLiveIngestor, Launch, StreamDeleteStart, RetentionStart, Send, Join,
         Crash, Recover
<1>1. ASSUME NEW c \in Calls,
             RejectOperation(c) \/ MetadataFailed(c) \/ NoLiveIngestor(c)
      PROVE  CallInv(d)'
  <2>1. CASE c = d
    <3>1. live[d] = <<>> /\ live'[d] = <<>> /\ pc'[d] = "done"
          /\ result'[d] \notin {"ok", "none"}
      BY <1>0, <1>1, <2>1
         DEF RejectOperation, MetadataFailed, NoLiveIngestor, CallInv, TypeOK
    <3>2. QED
      BY <1>0, <1>1, <2>1, <3>1
         DEF RejectOperation, MetadataFailed, NoLiveIngestor, CallInv, ToSet
  <2>2. CASE c # d
    BY <1>0, <1>1, <2>2, CallFrame
       DEF RejectOperation, MetadataFailed, NoLiveIngestor, TypeOK
  <2>3. QED
    BY <2>1, <2>2
<1>2. ASSUME NEW c \in Calls, LoadIngestors(c) \/ Probe(c)
      PROVE  CallInv(d)'
  <2>1. CASE c = d
    <3>1. pc[d] \in {"start", "probing"} /\ pc'[d] = "probing"
      BY <1>2, <2>1 DEF LoadIngestors, Probe, TypeOK
    <3>2. result[d] = "none" /\ op[d] \in ValidOps \cup {"demo"}
      BY <1>0, <1>2, <2>1, <3>1 DEF LoadIngestors, Probe, CallInv
    <3>3. task'[d] = task[d] /\ received'[d] = received[d]
          /\ accepted'[d] = accepted[d] /\ result'[d] = result[d]
      BY <1>2 DEF LoadIngestors, Probe
    <3>4. Len(live'[d]) <= probed'[d]
      <4>1. CASE LoadIngestors(c)
        BY <1>0, <2>1, <4>1 DEF LoadIngestors, CallInv, TypeOK
      <4>2. CASE Probe(c)
        <5>1. Len(live[d]) <= probed[d] /\ probed'[d] = probed[d] + 1
          BY <1>0, <2>1, <4>2 DEF Probe, CallInv, TypeOK
        <5>2. live'[d] = live[d] \/ live'[d] = Append(live[d], Order[probed[d] + 1])
          BY <2>1, <4>2 DEF Probe, TypeOK
        <5>3. QED
          BY <5>1, <5>2 DEF TypeOK
      <4>3. QED
        BY <1>2, <4>1, <4>2
    <3>5. QED
      BY <1>0, <3>1, <3>2, <3>3, <3>4 DEF CallInv
  <2>2. CASE c # d
    <3>1. pc'[d] = pc[d] /\ live'[d] = live[d] /\ probed'[d] = probed[d]
      BY <1>2, <2>2 DEF LoadIngestors, Probe, TypeOK
    <3>2. task'[d] = task[d] /\ received'[d] = received[d]
          /\ accepted'[d] = accepted[d] /\ result'[d] = result[d]
      BY <1>2 DEF LoadIngestors, Probe
    <3>3. QED
      BY <1>0, <3>1, <3>2, CallFrame
  <2>3. QED
    BY <2>1, <2>2
<1>3. ASSUME NEW c \in Calls, Launch(c) PROVE CallInv(d)'
  <2>1. CASE c = d
    <3>1. pc[d] = "probing" /\ pc'[d] = "joining" /\ result[d] = "none"
      BY <1>0, <1>3, <2>1 DEF Launch, CallInv, TypeOK
    <3>2. task'[d] = [p \in Peers |-> IF p \in ToSet(live[d]) THEN "pending" ELSE "none"]
      BY <1>3, <2>1 DEF Launch, TypeOK
    <3>3. \A p \in ToSet(live[d]) : p \in Peers
      BY DEF TypeOK, ToSet
    <3>4. Propagates(op[d]) => live[d] # <<>>
      <4>1. op[d] \in ValidOps \cup {"demo"}
        BY <1>0, <3>1 DEF CallInv
      <4>2. Propagates(op[d]) => op[d] = "demo"
        BY <4>1, FanOutAssumption DEF Propagates
      <4>3. QED
        BY <1>3, <2>1, <4>2 DEF Launch
    <3>5. QED
      BY <1>0, <1>3, <2>1, <3>1, <3>2, <3>3, <3>4 DEF Launch, CallInv
  <2>2. CASE c # d
    BY <1>0, <1>3, <2>2, CallFrame DEF Launch, TypeOK
  <2>3. QED
    BY <2>1, <2>2
<1>9. ASSUME NEW c \in Calls, StreamDeleteStart(c) \/ RetentionStart(c)
      PROVE  CallInv(d)'
  <2>1. CASE c = d
    <3>1. pc[d] = "start" /\ result[d] = "none" /\ live[d] = <<>>
      BY <1>0, <1>9, <2>1 DEF StreamDeleteStart, RetentionStart, CallInv, TypeOK
    <3>2. received'[d] = received[d] /\ accepted'[d] = accepted[d]
      BY <1>9 DEF StreamDeleteStart, RetentionStart
    <3>3. CASE RetentionStart(c)
      <4>1. PICK p \in Peers : /\ live' = [live EXCEPT ![d] = <<p>>]
                               /\ task' = [task EXCEPT ![d][p] = "pending"]
        BY <2>1, <3>3 DEF RetentionStart
      <4>2. live'[d] = <<p>> /\ ToSet(live'[d]) = {p}
        BY <4>1 DEF TypeOK, ToSet
      <4>3. \A q \in Peers : task'[d][q] = IF q = p THEN "pending" ELSE task[d][q]
        BY <4>1 DEF TypeOK
      <4>4. pc'[d] = "joining" /\ result'[d] = "none"
        BY <2>1, <3>1, <3>3 DEF RetentionStart, TypeOK
      <4>5. QED
        BY <1>0, <3>2, <4>2, <4>3, <4>4 DEF CallInv
    <3>4. CASE StreamDeleteStart(c)
      <4>1. ~Propagates(op[d])
        BY <2>1, <3>4 DEF StreamDeleteStart, Propagates
      <4>2. PICK p \in Peers, isLive \in BOOLEAN :
              IF isLive
              THEN /\ live' = [live EXCEPT ![d] = <<p>>]
                   /\ task' = [task EXCEPT ![d][p] = "pending"]
                   /\ pc' = [pc EXCEPT ![d] = "joining"]
                   /\ result' = result
              ELSE /\ pc' = [pc EXCEPT ![d] = "done"]
                   /\ result' = [result EXCEPT ![d] = "ok"]
                   /\ live' = live /\ task' = task
        BY <2>1, <3>4 DEF StreamDeleteStart
      <4>3. CASE isLive
        <5>1. live'[d] = <<p>> /\ ToSet(live'[d]) = {p}
          BY <4>2, <4>3 DEF TypeOK, ToSet
        <5>2. \A q \in Peers : task'[d][q] = IF q = p THEN "pending" ELSE task[d][q]
          BY <4>2, <4>3 DEF TypeOK
        <5>3. pc'[d] = "joining" /\ result'[d] = "none"
          BY <3>1, <4>2, <4>3 DEF TypeOK
        <5>4. QED
          BY <1>0, <3>2, <4>1, <5>1, <5>2, <5>3 DEF CallInv
      <4>4. CASE ~isLive
        <5>1. live'[d] = <<>> /\ task'[d] = task[d] /\ pc'[d] = "done"
              /\ result'[d] = "ok"
          BY <3>1, <4>2, <4>4 DEF TypeOK
        <5>2. ToSet(<<>>) = {}
          BY DEF ToSet
        <5>3. QED
          BY <1>0, <3>2, <4>1, <5>1, <5>2 DEF CallInv
      <4>5. QED
        BY <4>3, <4>4
    <3>5. QED
      BY <1>9, <3>3, <3>4
  <2>2. CASE c # d
    <3>1. pc'[d] = pc[d] /\ live'[d] = live[d] /\ task'[d] = task[d]
          /\ probed'[d] = probed[d] /\ result'[d] = result[d]
      BY <1>9, <2>2 DEF StreamDeleteStart, RetentionStart, TypeOK
    <3>2. received'[d] = received[d] /\ accepted'[d] = accepted[d]
      BY <1>9 DEF StreamDeleteStart, RetentionStart
    <3>3. QED
      BY <1>0, <3>1, <3>2, CallFrame
  <2>3. QED
    BY <2>1, <2>2
<1>4. ASSUME NEW c \in Calls, NEW q \in Peers, Send(c, q) PROVE CallInv(d)'
  <2>1. CASE c = d
    <3>1. pc[d] = "joining" /\ pc'[d] = "joining"
      BY <1>4, <2>1 DEF Send
    <3>2. result[d] = "none" /\ result'[d] = "none"
      BY <1>0, <1>4, <3>1 DEF Send, CallInv
    <3>3. PICK v \in {"ok", "err"} :
              /\ task' = [task EXCEPT ![d][q] = v]
              /\ v = "ok" => q \in received'[d]
              /\ v = "ok" /\ Propagates(op[d]) => q \in accepted'[d]
              /\ received[d] \subseteq received'[d]
              /\ accepted[d] \subseteq accepted'[d]
      BY <1>4, <2>1 DEF Send, TypeOK
    <3>4. \A p \in Peers : task'[d][p] = IF p = q THEN v ELSE task[d][p]
      BY <3>3 DEF TypeOK
    <3>5. live'[d] = live[d] /\ probed'[d] = probed[d]
      BY <1>4 DEF Send
    <3>6. \A p \in ToSet(live'[d]) : task'[d][p] # "none"
      <4> SUFFICES ASSUME NEW p \in ToSet(live[d]) PROVE task'[d][p] # "none"
        BY <3>5
      <4>1. p \in Peers
        BY LiveInPeers
      <4>2. task[d][p] # "none"
        BY <1>0, <3>1 DEF CallInv
      <4>3. QED
        BY <3>4, <4>1, <4>2
    <3>7. \A p \in Peers : task'[d][p] = "ok" => p \in received'[d]
      BY <1>0, <3>3, <3>4 DEF CallInv
    <3>8. \A p \in Peers : task'[d][p] = "ok" /\ Propagates(op'[d]) => p \in accepted'[d]
      BY <1>0, <3>3, <3>4 DEF CallInv
    <3>9. QED
      BY <1>0, <3>1, <3>2, <3>5, <3>6, <3>7, <3>8 DEF CallInv
  <2>2. CASE c # d
    BY <1>0, <1>4, <2>2, CallFrame DEF Send, TypeOK
  <2>3. QED
    BY <2>1, <2>2
<1>5. ASSUME NEW c \in Calls, Join(c) PROVE CallInv(d)'
  <2>1. CASE c = d
    <3>0. pc[d] = "joining" /\ \A p \in ToSet(live[d]) : task[d][p] # "pending"
      BY <1>5, <2>1 DEF Join
    <3>1. \A p \in ToSet(live[d]) : task[d][p] \in {"ok", "err"}
      BY <1>0, <3>0, LiveInPeers DEF CallInv, TypeOK, TaskStates
    <3>2. result'[d] = "ok" => \A p \in ToSet(live[d]) : task[d][p] = "ok"
      BY <1>5, <2>1, <3>1 DEF Join, TypeOK
    <3>3. pc'[d] = "done" /\ live'[d] = live[d] /\ task'[d] = task[d]
          /\ received'[d] = received[d] /\ accepted'[d] = accepted[d]
      BY <1>5, <2>1 DEF Join, TypeOK
    <3>4. Propagates(op[d]) => live[d] # <<>>
      BY <1>0, <3>0 DEF CallInv
    <3>5. QED
      BY <1>0, <3>1, <3>2, <3>3, <3>4 DEF CallInv
  <2>2. CASE c # d
    BY <1>0, <1>5, <2>2, CallFrame DEF Join, TypeOK
  <2>3. QED
    BY <2>1, <2>2
<1>6. ASSUME NEW p \in Peers, Crash(p) \/ Recover(p) PROVE CallInv(d)'
  BY <1>0, <1>6, CallFrame DEF Crash, Recover
<1>7. CASE UNCHANGED vars
  BY <1>0, <1>7, CallFrame DEF vars
<1>8. QED
  BY <1>1, <1>2, <1>3, <1>4, <1>5, <1>6, <1>7, <1>9 DEF Next

(* Spec 4.2: every broadcast and helper call keeps its state well typed.   *)
THEOREM FanOutTypeCorrect == Spec => []TypeOK
<1>1. IInv => TypeOK
  BY DEF IInv
<1>2. QED
  BY <1>1, InvInit, InvStep, PTL DEF Spec

(* Spec 4.2 and 8.8, for every instance: a broadcast that returns, with   *)
(* Ok or with the first error, has attempted its request on every         *)
(* ingestor it found live; one failure does not cancel the other tasks.   *)
THEOREM BestEffort == Spec => []BestEffortToEveryLivePeer
<1>1. IInv => BestEffortToEveryLivePeer
  <2> SUFFICES ASSUME IInv, NEW c \in Calls, pc[c] = "done",
                      NEW p \in ToSet(live[c])
               PROVE  task[c][p] \in {"ok", "err"}
    BY DEF BestEffortToEveryLivePeer
  <2>1. p \in Peers /\ CallInv(c) /\ TypeOK
    BY LiveInPeers DEF IInv
  <2>2. QED
    BY <2>1 DEF CallInv, TypeOK, TaskStates
<1>2. QED
  BY <1>1, InvInit, InvStep, PTL DEF Spec

(* Spec 4.2 and 7, for every instance: a call returns Ok only when every  *)
(* ingestor it found live has been reached by the request.                *)
THEOREM OkMeansReached == Spec => []OkReachedEveryLivePeer
<1>1. IInv => OkReachedEveryLivePeer
  BY DEF IInv, CallInv, OkReachedEveryLivePeer, TypeOK, ToSet
<1>2. QED
  BY <1>1, InvInit, InvStep, PTL DEF Spec

(* Spec 3 and 7, for every instance: a demo-data fetch or a retention     *)
(* cleanup returns Ok only after its ingestor answered 2xx; a demo fetch  *)
(* that found no live ingestor, or a refused request, is an error.        *)
THEOREM PropagatedOk == Spec => []PropagatedOkMeansAccepted
<1>1. IInv => PropagatedOkMeansAccepted
  <2> SUFFICES ASSUME IInv, NEW c \in Calls, Propagates(op[c]), result[c] = "ok"
               PROVE  live[c] # <<>> /\ ToSet(live[c]) \subseteq accepted[c]
    BY DEF PropagatedOkMeansAccepted
  <2>1. CallInv(c) /\ ToSet(live[c]) \subseteq Peers
    BY LiveInPeers DEF IInv
  <2>2. QED
    BY <2>1 DEF CallInv
<1>2. QED
  BY <1>1, InvInit, InvStep, PTL DEF Spec

=============================================================================

------------------------- MODULE AdminSurfaceProofs -------------------------
(***************************************************************************)
(* Proofs about AdminSurface, for every set of nodes, every role order,    *)
(* every number of concurrent remove_node requests, with or without       *)
(* metastore errors.                                                       *)
(***************************************************************************)
EXTENDS AdminSurface, TLAPS

Results == {"none", "ok", "not_found", "err_live", "err_metastore"}

TypeOK ==
    /\ alive \in [Nodes -> BOOLEAN]
    /\ meta \in [Nodes -> SUBSET Roles]
    /\ target \in [Calls -> Nodes]
    /\ pc \in [Calls -> {"start", "deleting", "done"}]
    /\ k \in [Calls -> 1..Len(RoleOrder) + 1]
    /\ result \in [Calls -> Results]

(* The inductive invariant.  A request that is deleting found its target *)
(* dead, so the target is dead (its restart being outside the model) or   *)
(* the probe may have timed out.  NodeGoneAfterRemoval is not inductive   *)
(* alone: it needs the deletes a request has done: every role             *)
(* key before k[c] is gone for its target, since nothing writes a record   *)
(* back.                                                                   *)
CallInv(c) ==
    /\ pc[c] = "deleting" => ~alive[target[c]] \/ ProbeFaults
    /\ \A j \in 1..(k[c] - 1) : RoleOrder[j] \notin meta[target[c]]
    /\ result[c] \in {"ok", "not_found"} => meta[target[c]] = {}

IInv == TypeOK /\ \A c \in Calls : CallInv(c)


(* What the refinement needs besides IInv.  A node has a record under its *)
(* own role key only; a request that has not started has not deleted; and *)
(* a request that has not yet deleted its node's role key has seen no     *)
(* removal, so the removal it reports is the one of that key.             *)
RefCall(c) ==
    /\ removed[c] \subseteq {RoleOf[target[c]]}
    /\ pc[c] = "start" => k[c] = 1
    /\ ~Deleted(c) => removed[c] = {}

RInv ==
    /\ IInv
    /\ removed \in [Calls -> SUBSET Roles]
    /\ \A n \in Nodes : meta[n] \subseteq {RoleOf[n]}
    /\ \A c \in Calls : RefCall(c)

-----------------------------------------------------------------------------

LEMMA InvInit == Init => IInv
<1> SUFFICES ASSUME Init PROVE IInv
  OBVIOUS
<1>1. TypeOK
  <2>1. Len(RoleOrder) \in Nat
    BY AdminAssumption
  <2>2. QED
    BY <2>1 DEF Init, TypeOK, Results
<1>2. \A c \in Calls : CallInv(c)
  BY DEF Init, CallInv
<1>3. QED
  BY <1>1, <1>2 DEF IInv

(* A step that leaves meta and alive alone and does not move request c   *)
(* keeps c's invariant; so does one that only removes records.            *)
LEMMA CallFrame ==
    ASSUME TypeOK, NEW c \in Calls, CallInv(c),
           alive' = alive, target' = target, pc'[c] = pc[c], k'[c] = k[c],
           result'[c] = result[c],
           \A n \in Nodes : meta'[n] \subseteq meta[n]
    PROVE  CallInv(c)'
BY DEF CallInv, TypeOK

(* Every step keeps the invariant: CheckLiveness lets a request go on to *)
(* the deletes only when its probe found the target dead, a delete only   *)
(* removes records, Finish answers Ok or "not found" only after the   *)
(* last role key, and a crash only makes a node dead.                     *)
LEMMA InvStep == IInv /\ [Next]_vars => IInv'
<1> SUFFICES ASSUME TypeOK, \A c \in Calls : CallInv(c),
                    [Next]_vars
             PROVE  IInv'
  BY DEF IInv
<1>0. Len(RoleOrder) \in Nat
  BY AdminAssumption
<1>1. ASSUME NEW c \in Calls, CheckLiveness(c) PROVE IInv'
  <2>1. TypeOK'
    BY <1>1 DEF CheckLiveness, TypeOK, Results
  <2>2. PICK live \in ProbeAnswers(target[c]) :
              IF live
              THEN /\ pc' = [pc EXCEPT ![c] = "done"]
                   /\ result' = [result EXCEPT ![c] = "err_live"]
              ELSE /\ pc' = [pc EXCEPT ![c] = "deleting"]
                   /\ UNCHANGED result
    BY <1>1 DEF CheckLiveness
  <2>3. ~live => ~alive[target[c]] \/ ProbeFaults
    BY DEF ProbeAnswers
  <2>4. \A d \in Calls : CallInv(d)'
    BY <1>1, <2>1, <2>2, <2>3 DEF CheckLiveness, CallInv, TypeOK
  <2>5. QED
    BY <2>1, <2>4 DEF IInv
<1>2. ASSUME NEW c \in Calls, DeleteRole(c) PROVE IInv'
  <2> DEFINE n == target[c]
             r == RoleOrder[k[c]]
  <2>1. n \in Nodes /\ k[c] \in 1..Len(RoleOrder)
    BY <1>2 DEF DeleteRole, TypeOK
  <2>2. r \in Roles
    BY <2>1 DEF Roles
  <2>3. CASE /\ meta' = [meta EXCEPT ![n] = @ \ {r}]
             /\ k' = [k EXCEPT ![c] = @ + 1]
             /\ UNCHANGED <<pc, result, alive, target>>
    <3>1. TypeOK'
      BY <1>0, <2>1, <2>3 DEF TypeOK
    <3>3. \A n2 \in Nodes : meta'[n2] \subseteq meta[n2]
      BY <2>3 DEF TypeOK
    <3>4. CallInv(c)'
      <4>1. \A j \in 1..(k'[c] - 1) : RoleOrder[j] \notin meta'[n]
        <5>1. meta'[n] = meta[n] \ {r} /\ k'[c] = k[c] + 1
          BY <2>1, <2>3 DEF TypeOK
        <5>2. \A j \in 1..(k[c] - 1) : RoleOrder[j] \notin meta[n]
          BY DEF CallInv
        <5>3. QED
          BY <1>0, <2>1, <5>1, <5>2
      <4>2. QED
        BY <2>3, <3>3, <4>1 DEF CallInv, TypeOK
    <3>5. ASSUME NEW d \in Calls, d # c PROVE CallInv(d)'
      BY <2>3, <3>3, <3>5, CallFrame DEF TypeOK
    <3>6. QED
      BY <3>1, <3>4, <3>5 DEF IInv
  <2>4. CASE /\ pc' = [pc EXCEPT ![c] = "done"]
             /\ result' = [result EXCEPT ![c] = "err_metastore"]
             /\ UNCHANGED <<meta, k, alive, target>>
    <3>1. TypeOK'
      BY <2>4 DEF TypeOK, Results
    <3>2. \A d \in Calls : CallInv(d)'
      BY <2>4 DEF CallInv, TypeOK
    <3>3. QED
      BY <3>1, <3>2 DEF IInv
  <2>5. QED
    BY <1>2, <2>3, <2>4 DEF DeleteRole
<1>3. ASSUME NEW c \in Calls, Finish(c) PROVE IInv'
  <2>1. TypeOK'
    BY <1>3 DEF Finish, TypeOK, Results
  <2>2. meta[target[c]] = {}
    <3>1. \A j \in 1..Len(RoleOrder) : RoleOrder[j] \notin meta[target[c]]
      BY <1>3 DEF Finish, CallInv
    <3>2. meta[target[c]] \subseteq Roles
      BY DEF TypeOK
    <3>3. QED
      BY <3>1, <3>2 DEF Roles
  <2>3. CallInv(c)'
    BY <1>3, <2>2 DEF Finish, CallInv, TypeOK
  <2>4. ASSUME NEW d \in Calls, d # c PROVE CallInv(d)'
    BY <1>3, <2>4, CallFrame DEF Finish, TypeOK
  <2>5. QED
    BY <2>1, <2>3, <2>4 DEF IInv
<1>4. ASSUME NEW n \in Nodes, Crash(n) PROVE IInv'
  <2>1. TypeOK'
    BY <1>4 DEF Crash, TypeOK
  <2>2. \A d \in Calls : CallInv(d)'
    BY <1>4 DEF Crash, CallInv, TypeOK
  <2>3. QED
    BY <2>1, <2>2 DEF IInv
<1>5. CASE UNCHANGED vars
  BY <1>5 DEF vars, IInv, TypeOK, CallInv
<1>6. QED
  BY <1>1, <1>2, <1>3, <1>4, <1>5 DEF Next

LEMMA RInvInit == Init => RInv
<1> SUFFICES ASSUME Init PROVE RInv
  OBVIOUS
<1>1. IInv
  BY InvInit
<1>2. \A c \in Calls : RefCall(c)
  BY DEF Init, RefCall
<1>3. QED
  BY <1>1, <1>2 DEF Init, RInv

(* The extra conjuncts are kept too: a delete of another role key finds   *)
(* nothing (the node has no record under it), and the delete of the      *)
(* node's own key is the one that makes Deleted true.                     *)
LEMMA RInvStep == RInv /\ [Next]_vars => RInv'
<1> SUFFICES ASSUME RInv, [Next]_vars PROVE RInv'
  OBVIOUS
<1> USE DEF RInv
<1>0. IInv'
  BY InvStep
<1>1. ASSUME NEW c \in Calls, CheckLiveness(c) PROVE RInv'
  <2>1. ASSUME NEW d \in Calls PROVE RefCall(d)'
    <3>1. removed' = removed /\ k' = k /\ target' = target
      BY <1>1 DEF CheckLiveness
    <3>2. pc'[d] = "start" => pc[d] = "start"
      BY <1>1 DEF CheckLiveness, IInv, TypeOK
    <3>3. QED
      BY <3>1, <3>2 DEF RefCall, Deleted
  <2>2. QED
    BY <1>0, <1>1, <2>1 DEF CheckLiveness
<1>2. ASSUME NEW c \in Calls, DeleteRole(c) PROVE RInv'
  <2> DEFINE n == target[c]
             r == RoleOrder[k[c]]
  <2>1. n \in Nodes /\ k[c] \in 1..Len(RoleOrder) /\ pc[c] = "deleting"
    BY <1>2 DEF DeleteRole, IInv, TypeOK
  <2>2. r \in Roles /\ k[c] \in Nat
    BY <2>1 DEF Roles
  <2>3. CASE /\ meta' = [meta EXCEPT ![n] = @ \ {r}]
             /\ removed' = [removed EXCEPT ![c] =
                              IF r \in meta[n] THEN @ \cup {r} ELSE @]
             /\ k' = [k EXCEPT ![c] = @ + 1]
             /\ UNCHANGED <<pc, result, alive, target>>
    <3>1. removed' \in [Calls -> SUBSET Roles]
      BY <2>2, <2>3
    <3>2. \A m \in Nodes : meta'[m] \subseteq {RoleOf[m]}
      BY <2>3 DEF IInv, TypeOK
    <3>3. RefCall(c)'
      <4>1. r \in meta[n] => r = RoleOf[n]
        BY <2>1
      <4>2. Deleted(c)' <=> Deleted(c) \/ r = RoleOf[n]
        BY <2>1, <2>2, <2>3 DEF Deleted, IInv, TypeOK
      <4>3. removed'[c] = IF r \in meta[n] THEN removed[c] \cup {r} ELSE removed[c]
        BY <2>3
      <4>4. QED
        BY <2>1, <2>3, <4>1, <4>2, <4>3 DEF RefCall
    <3>4. ASSUME NEW d \in Calls, d # c PROVE RefCall(d)'
      BY <2>3, <3>4 DEF RefCall, Deleted, IInv, TypeOK
    <3>5. QED
      BY <1>0, <3>1, <3>2, <3>3, <3>4
  <2>4. CASE /\ pc' = [pc EXCEPT ![c] = "done"]
             /\ result' = [result EXCEPT ![c] = "err_metastore"]
             /\ UNCHANGED <<meta, removed, k, alive, target>>
    <3>1. ASSUME NEW d \in Calls PROVE RefCall(d)'
      BY <2>1, <2>4 DEF RefCall, Deleted, IInv, TypeOK
    <3>2. QED
      BY <1>0, <2>4, <3>1
  <2>5. QED
    BY <1>2, <2>3, <2>4 DEF DeleteRole
<1>3. ASSUME NEW c \in Calls, Finish(c) PROVE RInv'
  <2>1. ASSUME NEW d \in Calls PROVE RefCall(d)'
    BY <1>3 DEF Finish, RefCall, Deleted, IInv, TypeOK
  <2>2. QED
    BY <1>0, <1>3, <2>1 DEF Finish
<1>4. ASSUME NEW n \in Nodes, Crash(n) PROVE RInv'
  <2>1. ASSUME NEW d \in Calls PROVE RefCall(d)'
    BY <1>4 DEF Crash, RefCall, Deleted
  <2>2. QED
    BY <1>0, <1>4, <2>1 DEF Crash
<1>5. CASE UNCHANGED vars
  <2>1. ASSUME NEW d \in Calls PROVE RefCall(d)'
    BY <1>5 DEF vars, RefCall, Deleted
  <2>2. QED
    BY <1>0, <1>5, <2>1 DEF vars
<1>6. QED
  BY <1>1, <1>2, <1>3, <1>4, <1>5 DEF Next

(* Spec 4.9, for every instance: a remove_node that answers Ok or "not    *)
(* found" has left no record of its node under any role key.              *)
THEOREM RemovedNodeGone == Spec => []NodeGoneAfterRemoval
<1>1. IInv => NodeGoneAfterRemoval
  BY DEF IInv, CallInv, NodeGoneAfterRemoval
<1>2. QED
  BY <1>1, InvInit, InvStep, PTL DEF Spec

-----------------------------------------------------------------------------
(* The refinement of RemoveAbstract.  The three mapped variables, named   *)
(* for the proof.                                                          *)
Registered == {n \in Nodes : meta[n] # {}}
Stage == [c \in Calls |-> IF pc[c] = "done" THEN "done"
                          ELSE IF pc[c] = "deleting" /\ Deleted(c)
                          THEN "removed" ELSE "pending"]
Found == [c \in Calls |-> removed[c] # {}]

(* The initial states of remove_node are initial states of the abstract   *)
(* specification: no request has started or found anything.               *)
LEMMA RefInit == Init => Abstract!Init
<1> SUFFICES ASSUME Init PROVE Abstract!Init
  OBVIOUS
<1>1. Registered \in SUBSET Nodes /\ \A n \in Nodes : alive[n] => n \in Registered
  BY DEF Init, Registered
<1>2. Stage = [c \in Calls |-> "pending"] /\ Found = [c \in Calls |-> FALSE]
  BY DEF Init, Stage, Found
<1>3. QED
  BY <1>1, <1>2 DEF Init, Abstract!Init, Registered, Stage, Found

(* A step that changes none of the mapped variables is an abstract stutter. *)
LEMMA RefStutter ==
    ASSUME alive' = alive, target' = target, result' = result,
           Registered' = Registered, Stage' = Stage, Found' = Found
    PROVE  [Abstract!Next]_Abstract!avars
<1>1. Abstract!avars' = Abstract!avars
  BY DEF Abstract!avars, Registered, Stage, Found
<1>2. QED
  BY <1>1

(* A request whose position and target a step leaves alone keeps its    *)
(* Deleted.                                                                *)
LEMMA DeletedFrame ==
    ASSUME NEW d, k'[d] = k[d], target'[d] = target[d]
    PROVE  Deleted(d)' = Deleted(d)
BY DEF Deleted

(* A step that moves no request keeps the mapped stage.                   *)
LEMMA StageFrame ==
    ASSUME pc' = pc, k' = k, target' = target
    PROVE  Stage' = Stage
<1>1. \A d \in Calls : Deleted(d)' = Deleted(d)
  BY DeletedFrame
<1>2. QED
  BY <1>1 DEF Stage

(* Every step of remove_node is a step of the abstract specification or  *)
(* leaves it unchanged: a liveness check that finds the node live refuses,*)
(* one that finds it dead stutters; the delete of the node's own role key removes,    *)
(* every other delete stutters; a metastore error before that delete       *)
(* fails, one after it answers; Finish answers; a crash is a crash.        *)
LEMMA RefStep == RInv /\ [Next]_vars => [Abstract!Next]_Abstract!avars
<1> SUFFICES ASSUME RInv, [Next]_vars PROVE [Abstract!Next]_Abstract!avars
  OBVIOUS
<1> USE DEF RInv, IInv
<1>0. Len(RoleOrder) \in Nat
  BY AdminAssumption
<1>1. ASSUME NEW c \in Calls, CheckLiveness(c) PROVE [Abstract!Next]_Abstract!avars
  <2>1. ~Deleted(c)
    BY <1>0, <1>1 DEF CheckLiveness, RefCall, Deleted, TypeOK
  <2>0. PICK live \in ProbeAnswers(target[c]) :
              IF live
              THEN /\ pc' = [pc EXCEPT ![c] = "done"]
                   /\ result' = [result EXCEPT ![c] = "err_live"]
              ELSE /\ pc' = [pc EXCEPT ![c] = "deleting"]
                   /\ UNCHANGED result
    BY <1>1 DEF CheckLiveness
  <2>2. CASE live
    <3>0. alive[target[c]]
      BY <2>0, <2>2 DEF ProbeAnswers
    <3>1. Stage[c] = "pending"
      BY <1>1, <2>1 DEF CheckLiveness, Stage
    <3>2. Stage' = [Stage EXCEPT ![c] = "done"]
      <4>1. \A d \in Calls : Deleted(d)' = Deleted(d)
        BY <1>1, DeletedFrame DEF CheckLiveness
      <4>2. pc' = [pc EXCEPT ![c] = "done"]
        BY <2>0, <2>2
      <4>3. QED
        BY <4>1, <4>2 DEF Stage, TypeOK
    <3>3. result' = [result EXCEPT ![c] = "err_live"]
      BY <2>0, <2>2
    <3>4. Registered' = Registered /\ Found' = Found
      BY <1>1 DEF CheckLiveness, Registered, Found
    <3>5. Abstract!Refuse(c)
      BY <1>1, <3>0, <3>1, <3>2, <3>3, <3>4
      DEF CheckLiveness, Abstract!Refuse, Registered, Stage, Found
    <3>6. QED
      BY <3>5 DEF Abstract!Next
  <2>3. CASE ~live
    <3>1. Stage' = Stage
      <4>1. \A d \in Calls : Deleted(d)' = Deleted(d)
        BY <1>1, DeletedFrame DEF CheckLiveness
      <4>2. pc' = [pc EXCEPT ![c] = "deleting"]
        BY <2>0, <2>3
      <4>3. QED
        BY <1>1, <2>1, <4>1, <4>2 DEF CheckLiveness, Stage, TypeOK
    <3>2. QED
      BY <1>1, <2>0, <2>3, <3>1, RefStutter DEF CheckLiveness, Registered, Found
  <2>4. QED
    BY <2>2, <2>3
<1>2. ASSUME NEW c \in Calls, DeleteRole(c) PROVE [Abstract!Next]_Abstract!avars
  <2> DEFINE n == target[c]
             r == RoleOrder[k[c]]
  <2>1. n \in Nodes /\ (~alive[n] \/ ProbeFaults) /\ k[c] \in 1..Len(RoleOrder)
        /\ pc[c] = "deleting"
    BY <1>2 DEF DeleteRole, CallInv, TypeOK
  <2>2. meta[n] \subseteq {RoleOf[n]}
    BY <2>1
  <2>3. Deleted(c) => meta[n] = {}
    BY <2>1, <2>2 DEF Deleted, CallInv
  <2>4. \A d \in Calls : d # c => Deleted(d)' = Deleted(d)
    BY <1>2, DeletedFrame DEF DeleteRole, TypeOK
  <2>5. CASE /\ meta' = [meta EXCEPT ![n] = @ \ {r}]
             /\ removed' = [removed EXCEPT ![c] =
                              IF r \in meta[n] THEN @ \cup {r} ELSE @]
             /\ k' = [k EXCEPT ![c] = @ + 1]
             /\ UNCHANGED <<pc, result, alive, target>>
    <3>1. Deleted(c)' <=> Deleted(c) \/ r = RoleOf[n]
      BY <1>0, <2>1, <2>5 DEF Deleted, TypeOK
    <3>2. \A d \in Calls : d # c => Found'[d] = Found[d] /\ Stage'[d] = Stage[d]
      BY <2>4, <2>5 DEF Found, Stage, TypeOK
    <3>3. CASE Deleted(c) \/ r # RoleOf[n]
      <4>1. r \notin meta[n]
        BY <2>2, <2>3, <3>3
      <4>2. meta' = meta /\ removed' = removed
        BY <2>5, <4>1 DEF TypeOK
      <4>3. Deleted(c)' <=> Deleted(c)
        BY <3>1, <3>3
      <4>4. Stage' = Stage /\ Found' = Found
        BY <2>5, <3>2, <4>2, <4>3 DEF Stage, Found
      <4>5. QED
        BY <2>5, <4>2, <4>4, RefStutter DEF Registered
    <3>4. CASE ~Deleted(c) /\ r = RoleOf[n]
      <4>1. removed[c] = {} /\ Stage[c] = "pending"
        BY <2>1, <3>4 DEF RefCall, Stage
      <4>2. Registered' = Registered \ {n}
        BY <2>1, <2>2, <2>5, <3>4 DEF Registered, TypeOK
      <4>3. Found' = [Found EXCEPT ![c] = n \in Registered]
        <5>1. removed'[c] = IF r \in meta[n] THEN {r} ELSE {}
          BY <2>5, <4>1
        <5>2. (r \in meta[n]) <=> n \in Registered
          BY <2>1, <2>2, <3>4 DEF Registered
        <5>3. (removed'[c] # {}) <=> n \in Registered
          BY <5>1, <5>2
        <5>4. Found'[c] <=> n \in Registered
          BY <5>3 DEF Found
        <5>5. Found' \in [Calls -> BOOLEAN] /\ Found \in [Calls -> BOOLEAN]
          BY DEF Found
        <5>6. QED
          BY <3>2, <5>4, <5>5
      <4>4. Stage' = [Stage EXCEPT ![c] = "removed"]
        BY <2>1, <2>5, <3>1, <3>2, <3>4 DEF Stage
      <4>5. Abstract!Remove(c)
        BY <2>1, <2>5, <4>1, <4>2, <4>3, <4>4
        DEF Abstract!Remove, Abstract!MayRemove, Registered, Stage, Found
      <4>6. QED
        BY <4>5 DEF Abstract!Next
    <3>5. QED
      BY <3>3, <3>4
  <2>6. CASE /\ StoreFaults
             /\ pc' = [pc EXCEPT ![c] = "done"]
             /\ result' = [result EXCEPT ![c] = "err_metastore"]
             /\ UNCHANGED <<meta, removed, k, alive, target>>
    <3>1. Registered' = Registered /\ Found' = Found
      BY <2>6 DEF Registered, Found
    <3>2. Stage' = [Stage EXCEPT ![c] = "done"]
      <4>1. Deleted(c)' = Deleted(c)
        BY <2>6, DeletedFrame
      <4>2. QED
        BY <2>4, <2>6, <4>1 DEF Stage, TypeOK
    <3>3. CASE ~Deleted(c)
      <4>1. Abstract!Fail(c)
        BY <2>1, <2>6, <3>1, <3>2, <3>3
        DEF Abstract!Fail, Abstract!MayRemove, Registered, Stage, Found
      <4>2. QED
        BY <4>1 DEF Abstract!Next
    <3>4. CASE Deleted(c)
      <4>1. Stage[c] = "removed"
        BY <2>1, <3>4 DEF Stage
      <4>2. Abstract!Answer(c)
        BY <2>6, <3>1, <3>2, <4>1
        DEF Abstract!Answer, Registered, Stage, Found
      <4>3. QED
        BY <4>2 DEF Abstract!Next
    <3>5. QED
      BY <3>3, <3>4
  <2>7. QED
    BY <1>2, <2>5, <2>6 DEF DeleteRole
<1>4. ASSUME NEW c \in Calls, Finish(c) PROVE [Abstract!Next]_Abstract!avars
  <2>1. Deleted(c)
    <3>0. RoleOf[target[c]] \in {RoleOrder[i] : i \in 1..Len(RoleOrder)}
      <4>1. target[c] \in Nodes
        BY DEF TypeOK
      <4>2. QED
        BY <4>1, AdminAssumption
    <3>1. PICK j \in 1..Len(RoleOrder) : RoleOrder[j] = RoleOf[target[c]]
      BY <3>0
    <3>2. QED
      BY <1>0, <1>4, <3>1 DEF Finish, Deleted
  <2>2. Stage[c] = "removed"
    BY <1>4, <2>1 DEF Finish, Stage
  <2>3. Stage' = [Stage EXCEPT ![c] = "done"]
    <3>1. \A d \in Calls : Deleted(d)' = Deleted(d)
      BY <1>4, DeletedFrame DEF Finish
    <3>2. pc' = [pc EXCEPT ![c] = "done"]
      BY <1>4 DEF Finish
    <3>3. QED
      BY <3>1, <3>2 DEF Stage, TypeOK
  <2>4. Registered' = Registered /\ Found' = Found
    BY <1>4 DEF Finish, Registered, Found
  <2>5. result' = [result EXCEPT ![c] = IF Found[c] THEN "ok" ELSE "not_found"]
    BY <1>4 DEF Finish, Found
  <2>6. Abstract!Answer(c)
    BY <1>4, <2>2, <2>3, <2>4, <2>5
    DEF Finish, Abstract!Answer, Registered, Stage, Found
  <2>7. QED
    BY <2>6 DEF Abstract!Next
<1>5. ASSUME NEW n \in Nodes, Crash(n) PROVE [Abstract!Next]_Abstract!avars
  <2>1. Stage' = Stage /\ Registered' = Registered /\ Found' = Found
    BY <1>5, StageFrame DEF Crash, Registered, Found
  <2>2. Abstract!Crash(n)
    BY <1>5, <2>1 DEF Crash, Abstract!Crash, Registered, Stage, Found
  <2>3. QED
    BY <2>2 DEF Abstract!Next
<1>6. CASE UNCHANGED vars
  BY <1>6, RefStutter, StageFrame DEF vars, Registered, Found
<1>7. QED
  BY <1>1, <1>2, <1>4, <1>5, <1>6 DEF Next

(* Spec 4.9, for every instance: remove_node is linearizable.  Whatever   *)
(* requests and crashes interleave with its liveness check and its four   *)
(* deletes, every behaviour is one of RemoveAbstract, where each request  *)
(* checks and removes its node's record in one atomic step and answers Ok *)
(* exactly when that removal found a record, or a metastore error.         *)
THEOREM RemoveRefinement == Spec => ImplementsRemoveAbstract
<1>1. RInv /\ [Next]_vars => [Abstract!Next]_Abstract!avars
  BY RefStep
<1>2. QED
  BY <1>1, RefInit, RInvInit, RInvStep, PTL
  DEF Spec, ImplementsRemoveAbstract, Abstract!Spec

=============================================================================

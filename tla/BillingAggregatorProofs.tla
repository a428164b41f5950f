----------------------- MODULE BillingAggregatorProofs -----------------------
(***************************************************************************)
(* Proofs about BillingAggregator, for every set of metric families and    *)
(* every list of samples.  PivotIsLastWrite is not inductive alone: after  *)
(* into_events the fold's state must stay frozen, and to show that         *)
(* into_events emits one row per key the proof needs, for every slot of   *)
(* the collector, the sample that wrote it last.  BillingInv adds both.    *)
(***************************************************************************)
EXTENDS BillingAggregator, TLAPS

(* Every slot of the collector was written by the last stored sample of   *)
(* its key among the first i.                                              *)
SlotHasLastWriter ==
    \A k \in DOMAIN pivot :
        \E j \in 1..i : LastOfKey(samples, i, j) /\ Key(samples[j]) = k

(* Once into_events has run, the loop is over and events is its result.   *)
DoneIsExplode ==
    phase = "done" => i = Len(samples) /\ events = Explode(pivot)

BillingInv ==
    /\ TypeOK
    /\ PivotIsLastWrite
    /\ SlotHasLastWriter
    /\ DoneIsExplode

-----------------------------------------------------------------------------
(* The cast of a sample value is a u64.                                    *)
LEMMA AsU64Type ==
    ASSUME NEW v \in Int \cup {NaN}
    PROVE  AsU64(v) \in 0..U64Max
BY BillingAssumption DEF AsU64

(* The samples never change and are a list of samples.                     *)
LEMMA SamplesType == TypeOK => samples \in Seq(Samples)
BY BillingAssumption DEF TypeOK

LEMMA InvInit == Init => BillingInv
<1> SUFFICES ASSUME Init PROVE BillingInv
  OBVIOUS
<1>1. samples \in Seq(Samples) /\ i = 0 /\ DOMAIN pivot = {}
  BY BillingAssumption DEF Init
<1>2. StoredIndices(samples, i) = {}
  BY <1>1 DEF StoredIndices
<1>3. TypeOK
  BY <1>1 DEF Init, TypeOK
<1>4. PivotIsLastWrite
  BY <1>1, <1>2 DEF PivotIsLastWrite
<1>5. SlotHasLastWriter
  BY <1>1 DEF SlotHasLastWriter
<1>6. DoneIsExplode
  BY DEF Init, DoneIsExplode
<1>7. QED
  BY <1>3, <1>4, <1>5, <1>6 DEF BillingInv

(* A stored sample i+1 becomes the last writer of its key and leaves the   *)
(* last writer of every other key where it was.                            *)
LEMMA StoreStep ==
    ASSUME BillingInv, ProcessSample, Stored(samples[i + 1])
    PROVE  BillingInv'
<1> DEFINE s == samples[i + 1]
           SI(n) == StoredIndices(samples, n)
<1>1. samples \in Seq(Samples) /\ i \in 0..Len(samples) - 1 /\ samples' = samples
      /\ i' = i + 1 /\ phase = "collect" /\ phase' = "collect" /\ events' = events
  BY SamplesType DEF BillingInv, TypeOK, ProcessSample
<1>2. pivot' = Insert(pivot, Key(s), AsU64(s.value))
  BY DEF ProcessSample
<1>3. DOMAIN pivot' = DOMAIN pivot \cup {Key(s)}
      /\ pivot'[Key(s)] = AsU64(s.value)
      /\ \A k \in DOMAIN pivot : k # Key(s) => pivot'[k] = pivot[k]
  BY <1>2 DEF Insert
<1>4. SI(i + 1) = SI(i) \cup {i + 1}
  BY <1>1 DEF StoredIndices
<1>5. DOMAIN pivot = {Key(samples[j]) : j \in SI(i)}
  BY DEF BillingInv, PivotIsLastWrite
<1>6. PivotIsLastWrite'
  <2>1. DOMAIN pivot' = {Key(samples'[j]) : j \in StoredIndices(samples', i')}
    BY <1>1, <1>3, <1>4, <1>5
  <2>2. ASSUME NEW j \in 1..i + 1, LastOfKey(samples, i + 1, j)
        PROVE  pivot'[Key(samples[j])] = AsU64(samples[j].value)
    <3>1. CASE Key(samples[j]) = Key(s)
      <4>1. i + 1 \in SI(i + 1)
        BY <1>4
      <4>2. i + 1 <= j
        BY <2>2, <3>1, <4>1 DEF LastOfKey
      <4>3. j = i + 1
        BY <4>2, <1>1
      <4>4. QED
        BY <4>3, <1>3
    <3>2. CASE Key(samples[j]) # Key(s)
      <4>1. j \in SI(i + 1)
        BY <2>2 DEF LastOfKey
      <4>2. j # i + 1
        BY <3>2
      <4>3. j \in 1..i /\ j \in SI(i)
        BY <4>1, <4>2, <1>1 DEF StoredIndices
      <4>4. LastOfKey(samples, i, j)
        BY <2>2, <4>3, <1>4 DEF LastOfKey
      <4>5. pivot[Key(samples[j])] = AsU64(samples[j].value)
        BY <4>3, <4>4 DEF BillingInv, PivotIsLastWrite
      <4>6. Key(samples[j]) \in DOMAIN pivot
        BY <4>3, <1>5
      <4>7. QED
        BY <3>2, <4>5, <4>6, <1>3
    <3>3. QED
      BY <3>1, <3>2
  <2>3. QED
    BY <1>1, <2>1, <2>2 DEF PivotIsLastWrite
<1>7. SlotHasLastWriter'
  <2> SUFFICES ASSUME NEW k \in DOMAIN pivot'
               PROVE  \E j \in 1..i + 1 : LastOfKey(samples, i + 1, j) /\ Key(samples[j]) = k
    BY <1>1 DEF SlotHasLastWriter
  <2>1. CASE k = Key(s)
    <3>1. LastOfKey(samples, i + 1, i + 1)
      <4>1. i + 1 \in SI(i + 1)
        BY <1>4
      <4>2. \A j2 \in SI(i + 1) : j2 <= i + 1
        BY <1>1 DEF StoredIndices
      <4>3. QED
        BY <4>1, <4>2 DEF LastOfKey
    <3>2. QED
      BY <2>1, <3>1, <1>1
  <2>2. CASE k # Key(s)
    <3>1. k \in DOMAIN pivot
      BY <2>2, <1>3
    <3>2. PICK j \in 1..i : LastOfKey(samples, i, j) /\ Key(samples[j]) = k
      BY <3>1 DEF BillingInv, SlotHasLastWriter
    <3>3. \A j2 \in SI(i + 1) : Key(samples[j2]) = k => j2 \in SI(i)
      BY <1>4, <2>2
    <3>4. LastOfKey(samples, i + 1, j)
      BY <3>2, <3>3, <1>4 DEF LastOfKey
    <3>5. QED
      BY <3>2, <3>4, <1>1
  <2>3. QED
    BY <2>1, <2>2
<1>8. TypeOK'
  <2>1. samples' \in Inputs /\ i' \in 0..Len(samples')
    BY <1>1 DEF BillingInv, TypeOK
  <2>2. DOMAIN pivot' \subseteq {Key(x) : x \in {samples'[j] : j \in 1..Len(samples')}}
    BY <1>1, <1>3, <1>4, <1>5 DEF StoredIndices
  <2>3. s.value \in Int \cup {NaN}
    BY <1>1, BillingAssumption
  <2>4. \A k \in DOMAIN pivot' : pivot'[k] \in 0..U64Max
    BY <1>3, <2>3, AsU64Type DEF BillingInv, TypeOK
  <2>5. QED
    BY <1>1, <2>1, <2>2, <2>4 DEF TypeOK
<1>9. DoneIsExplode'
  BY <1>1 DEF DoneIsExplode
<1>10. QED
  BY <1>6, <1>7, <1>8, <1>9 DEF BillingInv

(* A sample process_sample does not store leaves the collector, the       *)
(* stored indices and so every last writer as they were.                   *)
LEMMA SkipStep ==
    ASSUME BillingInv, ProcessSample, ~Stored(samples[i + 1])
    PROVE  BillingInv'
<1> DEFINE SI(n) == StoredIndices(samples, n)
<1>1. samples \in Seq(Samples) /\ i \in 0..Len(samples) - 1 /\ samples' = samples
      /\ i' = i + 1 /\ phase' = "collect" /\ pivot' = pivot
  BY SamplesType DEF BillingInv, TypeOK, ProcessSample
<1>2. SI(i + 1) = SI(i)
  BY <1>1 DEF StoredIndices
<1>3. \A j \in 1..i + 1 : LastOfKey(samples, i + 1, j) <=> j \in 1..i /\ LastOfKey(samples, i, j)
  BY <1>2 DEF LastOfKey, StoredIndices
<1>4. PivotIsLastWrite'
  BY <1>1, <1>2, <1>3 DEF BillingInv, PivotIsLastWrite
<1>5. SlotHasLastWriter'
  BY <1>1, <1>3 DEF BillingInv, SlotHasLastWriter
<1>6. TypeOK'
  BY <1>1 DEF BillingInv, TypeOK
<1>7. DoneIsExplode'
  BY <1>1 DEF DoneIsExplode
<1>8. QED
  BY <1>4, <1>5, <1>6, <1>7 DEF BillingInv

LEMMA InvStep == BillingInv /\ [Next]_vars => BillingInv'
<1> SUFFICES ASSUME BillingInv, [Next]_vars PROVE BillingInv'
  OBVIOUS
<1>1. CASE ProcessSample
  BY <1>1, StoreStep, SkipStep
<1>2. CASE IntoEvents
  <2>1. samples' = samples /\ i' = i /\ pivot' = pivot /\ phase' = "done"
        /\ i = Len(samples) /\ events' = Explode(pivot)
    BY <1>2 DEF IntoEvents
  <2>2. QED
    BY <2>1 DEF BillingInv, TypeOK, PivotIsLastWrite, SlotHasLastWriter, DoneIsExplode
<1>3. CASE UNCHANGED vars
  <2>1. samples' = samples /\ i' = i /\ pivot' = pivot /\ events' = events /\ phase' = phase
    BY <1>3 DEF vars
  <2>2. QED
    BY <2>1 DEF BillingInv, TypeOK, PivotIsLastWrite, SlotHasLastWriter, DoneIsExplode
<1>4. QED
  BY <1>1, <1>2, <1>3 DEF Next

LEMMA InvHolds == Spec => []BillingInv
BY InvInit, InvStep, PTL DEF Spec

(* Every slot of the collector holds a u64, and only keys of samples of   *)
(* the scrape have slots.                                                  *)
THEOREM BillingTypeCorrect == Spec => []TypeOK
BY InvHolds, PTL DEF BillingInv

(* Spec 8.6, for every set of families and every scrape: after any prefix *)
(* of the samples, the collector holds for each key the truncated value of *)
(* its last stored sample, and no slot for a key no stored sample has.     *)
THEOREM LastWriteWins == Spec => []PivotIsLastWrite
BY InvHolds, PTL DEF BillingInv

(* Once every sample is folded, exploding the collector gives the         *)
(* reference rows: each positive slot is the row of its key's last writer, *)
(* and each last writer with a positive value has its slot.               *)
LEMMA ExplodeIsBilled ==
    ASSUME BillingInv, i = Len(samples)
    PROVE  Explode(pivot) = BilledRows(samples)
<1> DEFINE SI == StoredIndices(samples, Len(samples))
           J == {j2 \in 1..Len(samples) : LastOfKey(samples, Len(samples), j2)
                                          /\ AsU64(samples[j2].value) > 0}
<1>1. DOMAIN pivot = {Key(samples[j]) : j \in SI}
  BY DEF BillingInv, PivotIsLastWrite
<1>2. \A j \in 1..Len(samples) :
        LastOfKey(samples, Len(samples), j) => pivot[Key(samples[j])] = AsU64(samples[j].value)
  BY DEF BillingInv, PivotIsLastWrite
<1>3. Explode(pivot) \subseteq BilledRows(samples)
  <2> SUFFICES ASSUME NEW k \in DOMAIN pivot, pivot[k] > 0
               PROVE  Event(k, pivot[k]) \in BilledRows(samples)
    BY DEF Explode
  <2>1. PICK j \in 1..Len(samples) : LastOfKey(samples, Len(samples), j) /\ Key(samples[j]) = k
    BY DEF BillingInv, SlotHasLastWriter
  <2>2. pivot[k] = AsU64(samples[j].value)
    BY <2>1, <1>2
  <2>3. j \in J
    BY <2>1, <2>2
  <2>4. QED
    BY <2>1, <2>2, <2>3 DEF BilledRows
<1>4. BilledRows(samples) \subseteq Explode(pivot)
  <2> SUFFICES ASSUME NEW j \in J
               PROVE  Event(Key(samples[j]), AsU64(samples[j].value)) \in Explode(pivot)
    BY DEF BilledRows
  <2>1. Key(samples[j]) \in DOMAIN pivot
    BY <1>1 DEF LastOfKey
  <2>2. pivot[Key(samples[j])] = AsU64(samples[j].value)
    BY <1>2
  <2>3. QED
    BY <2>1, <2>2 DEF Explode
<1>5. QED
  BY <1>3, <1>4

(* Spec 4.5 and 8.6, for every set of families and every scrape: the      *)
(* events extract_billing_metrics_from_samples returns are exactly the     *)
(* reference rows, one per key with a positive last value.                 *)
THEOREM BilledRowsExact == Spec => []EventsAreBilledRows
<1>1. BillingInv => EventsAreBilledRows
  BY ExplodeIsBilled DEF BillingInv, DoneIsExplode, EventsAreBilledRows
<1>2. QED
  BY <1>1, InvHolds, PTL

=============================================================================

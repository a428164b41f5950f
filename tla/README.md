# Parseable cluster control plane: TLA+ models

This directory holds TLA+ models of the cluster control plane in
`src/src/handlers/http/cluster/mod.rs`, and of the pure helpers of
`src/src/query/mod.rs`. It also holds the TLC configurations that
model-check them, and TLAPS proofs of the invariants of the dispatcher, the
fan-out, the billing aggregator, the cluster collector and `remove_node`, of
an action property of the dispatcher, and of the refinements of an abstract
specification by the dispatcher and by `remove_node`. `spec.md` at
the repository root describes the same code. Where the two disagree, the models
follow the code, and the disagreement is recorded as a finding in `PROJECT.json`.

## The system

The control plane runs on a query node and talks to its peers (ingestors,
indexers, queriers and prism nodes) over HTTP. It has these parts:

| Part | Code | State it owns | How it interacts |
|---|---|---|---|
| Liveness probe | `utils::check_liveness` (outside `src/`) | none | called before every fan-out request and for every querier selection |
| Registry gateway | `get_node_info` (992-1014) | none; it reads the metastore | used by every other part |
| Fan-out executor | `for_each_live_ingestor` (283-318) | none; it runs one task per live peer | called by the broadcast operations |
| Broadcast operations | `sync_*` (320-674), `get_demo_data_from_ingestor` (375-429), `send_stream_delete_request` and `send_retention_cleanup_request` (760-833) | the peers' replicated state | build one request per peer |
| Metrics scraper | `fetch_node_metrics`, `fetch_node_billing_metrics` (1064-1118, 1403-1456) | none | one scrape per peer per tick |
| Billing aggregator | `BillingMetricsCollector` and `process_*` (73-281, 1222-1401) | a pivot of nested maps, one per node scrape | folds the samples, then explodes them into events |
| Cluster-wide collector | `fetch_nodes_*`, `fetch_cluster_*` (1120-1220, 1458-1554) | none | four roles in parallel, every peer in parallel |
| Periodic scheduler | `init_cluster_metrics_schedular` (1556-1635) | the clokwerk job | every minute, runs the collector and ingests into `pmeta` and `pbilling` |
| Querier dispatcher | `QUERIER_MAP`, `LAST_USED_QUERIER`, `get_available_querier`, `select_*`, `mark_querier_available`, `send_query_request` (65-69, 1637-1894) | the process-wide registry of queriers, behind a tokio `RwLock` | every query handler acquires a querier, POSTs to it and releases it |
| Admin surface | `get_cluster_info`, `fetch_node(s)_info`, `get_cluster_metrics`, `remove_node` (835-1057) | the metastore's node records | read-mostly fan-outs, plus one check-then-delete |
| Stats helpers | `fetch_daily_stats`, `fetch_stats_from_ingestors` (676-758) | none | sums over stream metadata |
| Query helpers | `flatten_objects_for_count`, `time_from_path` (`query/mod.rs` 320-397) | none | pure functions |

The behaviours that make this code hard are the following.
- **Shared registry.** Concurrent query handlers share one registry. Each
  handler reads the registry under the lock, selects a querier and marks it
  busy. It then releases the lock, awaits the HTTP call, and marks the querier
  free again.
- **Cancellation.** A handler future can be dropped at any `.await`, for
  example when the client disconnects.
- **Two selection policies.** Round-robin and the least-recently-used (LRU)
  fallback can hand out the same querier.
- **Partial failure in fan-out.** Results are joined with `join_all`, and the
  first error in list order is returned.
- **Inconsistent error handling.** The operational-metrics path aborts on one
  peer's error, but the billing path skips that peer.

## Modules

### `QuerierDispatcher` (dispatcher, the core)

**State.**
- `qmap` is `QUERIER_MAP`. It is a partial function from the queriers'
  domains to `[available, last_used]`, and `last_used = 0` stands for `None`.
- `lastUsed` is `LAST_USED_QUERIER`.
- `lock` holds the task that holds the `QUERIER_MAP` write guard, or `None`.
- `clock` is `Instant::now()`. It is a bounded clock that never decreases.

**Tasks.** Each element of `Request` is one concurrent `send_query_request`
handler. Its `pc` is its position in the handler:
- `idle`, then `lock_wait` after `get_node_info`;
- `probing` while it holds the write guard;
- `querying` while the POST is in flight;
- `rel_fail` or `rel_resp` on its way to `mark_querier_available`.

Its `target` is the domain it was given, and its `result` is the last outcome.

**Actions.** There is one action per code path:

| Action | Code |
|---|---|
| `GetQuerierInfo` | 1644-1646 |
| `QuerierInfoFailed` | 1646-1651: a metastore error, or an empty metadata list |
| `LockRegistry` | the `write().await` at 1658 |
| `AcquireRoundRobin`, `AcquireLeastRecentlyUsed`, `AcquireNone` | 1658-1729, each as one atomic step under the guard |
| `QueryFailed` | 1843-1865: a serialisation or transport error, including the 300 s timeout |
| `QueryResponded` | 1851-1868 |
| `Release` | `mark_querier_available`, 1822-1828 |
| `Disconnect` | the future dropped at one of its awaits |
| `Tick` | the passing of time |

The three acquisitions have these parts in common:
- Each first applies `Refresh`, the whole probe-update-prune block at
  1664-1707, with the probe outcome chosen from `ProbeResults`.
- `RoundRobinPick` is `select_next_querier`. It reads HashMap iteration order
  from the constant `Order`.
- `LRUScan` is the `for` loop of `select_least_recently_used_querier`,
  written as a recursive function over `Order` with the code's three match
  arms.

**Constants.**
- `Faults` enables probe failures and transport errors.
- `ClientDisconnects` enables dropped futures.
- `MaxClock` bounds the clock.

**Properties.**
- `UnavailableImpliesDispatched` (spec 3, spec 8.1): every busy querier is
  held by a task between acquisition and release.
- `LRUScanIsLeastRecentlyUsed` (spec 8.3): the LRU scan returns an entry
  whose `last_used` is minimal.
- `LastUsedNeverDecreases` (an action property; spec 8.3 and the comment
  "preserve last_used" at 1686): no step moves the `last_used` of a querier
  that stays registered back. The LRU fallback is only right if the stamps
  record when each querier was really last handed out. The mutant
  `RefreshReinsert` re-creates every live entry on refresh, and TLC finds
  the step that resets a stamp.
- `QuerierEventuallySelected` (spec 5, spec 8.2): every live querier is
  selected infinitely often.

The liveness probes of `get_available_querier` run while the write guard is
held (1658-1680). In the model they are part of the acquisition step taken
under the guard (`Refresh` inside `Acquire*`), so no property is stated
about them. What they cost is latency, which is outside TLC's reach.

**Fairness** (`FairSpec`):
- Weak fairness on every task step.
- Strong fairness on `LockRegistry` and `Release`. The tokio `RwLock` is fair
  (FIFO), so a task that keeps waiting for the write guard gets it.
- No fairness on `Tick`, the faults or `Disconnect`.

### `QuerierDispatcherProofs`

This module holds the TLAPS proofs about the dispatcher.

- **`TypeCorrect`** proves `Spec => []TypeOK` for every value of the
  constants. It uses the lemmas `TypeInit` and `TypeStep`, and
  `RefreshType` and `DispatchType` for the helper operators.
- **`ReleaseOnEveryPath`** proves `~ClientDisconnects => (Spec =>
  []UnavailableImpliesDispatched)`.
  - `UnavailableImpliesDispatched` is not inductive by itself. It needs
    `TypeOK`: `Dispatch` and `Release` index functions by the task and by its
    target, and a dispatched task's target must be a domain. The inductive
    invariant is therefore `IInv == TypeOK /\ UnavailableImpliesDispatched`.
  - The step proof has one case per action.
    - The acquisition cases rest on `RefreshKeepsBusy`: a busy entry after
      the refresh was busy before it, and its witness is a task other than
      the probing one.
    - `Release` keeps the invariant because a busy entry other than the
      released target keeps its witness.
    - `Disconnect` is excluded by the hypothesis. With disconnects allowed,
      the invariant is false: see the `dispatcher_leak` run.
- **`StampsMonotonic`** proves `Spec => LastUsedNeverDecreases`. The action
  property rests on the state invariant `StampsBelowClock`: no stamp in the
  map is later than the clock. With it, a dispatch, which stamps with the
  current clock, cannot move a stamp back. `RefreshKeeps` (the refresh keeps
  the status of a live registered querier), `RefreshStamps` and
  `DispatchStamps` carry the acquisition cases.
- Liveness (`QuerierEventuallySelected`) and the LRU property, which is about
  a recursive scan, are only model-checked. TLAPS cannot prove liveness or
  facts about `ENABLED`, and it cannot prove what a recursive definition
  computes for every input.

- **`DispatcherRefinement`** proves `Spec => ImplementsDispatcherAbstract`
  for every instance, disconnects included (see `DispatcherAbstract`). It
  follows the usual layout. The initial states map to `Abstract!Init`. Under
  `TypeOK`, every step maps to an abstract step or a stutter:
  - `AcquireRoundRobin` and `AcquireLeastRecentlyUsed` map to `Acquire`;
  - `AcquireNone` maps to `Refuse`;
  - `Release` maps to `Release`;
  - `Disconnect` of a dispatched task maps to `Drop`;
  - every other step is a stutter.

  Two lemmas carry the argument. `RefreshBusy` says that after the refresh
  the busy set is the old busy set cut down to the queriers that answered.
  `AbstractStutter` says that a step that leaves `qmap` alone, and every
  task's dispatched target, changes nothing abstract.

### `DispatcherAbstract` (what the dispatcher promises)

This module states the dispatcher without the lock, the probes one by one,
the round-robin pointer or the clock. Its state:
- `reg` is the set of registered queriers;
- `busy` is the registered queriers that are marked busy;
- `holder` maps each handler to the querier it holds, or `None`.

Its actions:
- `Acquire(r)`: the registry becomes some set of answering queriers, and `r`
  is handed one of them. The querier must be a free one whenever a free one
  answered.
- `Refuse(r)`: every answering querier is busy, and `r` gets nothing.
- `Release(r)`: `r`'s querier becomes free.
- `Drop(r)`: `r` is dropped while holding its querier, which stays busy.

`QuerierDispatcher` instantiates it with `reg <- DOMAIN qmap`, `busy <-` the
entries with `available = false`, and `holder <-` the target of each task in
a dispatched `pc`. `ImplementsDispatcherAbstract == Abstract!Spec` is checked
by `dispatcher_cancel`, with disconnects. The mutant
`AcquireRoundRobinAnyQuerier` hands out a busy querier while a free one
answered, and TLC rejects it. The refinement is proved in
`QuerierDispatcherProofs`.

### `BillingAggregator` (billing aggregation of one node scrape)

**State.**
- `samples` is the scrape's sample list in exposition order, chosen from
  `Inputs`.
- `i` is the position of the `for` loop of `extract_billing_metrics_from_samples`.
- `pivot` is the `BillingMetricsCollector`. Its twelve nested `HashMap`s are
  flattened into one partial function, from the key `[metric, method,
  provider, model, date]` to a `u64`. The code never leaves an inner map
  empty, so the nesting carries nothing that the flat key does not.
- `events` is the result of `into_events`, and `phase` says whether it has
  run.

**Actions.**

| Action | Code |
|---|---|
| `ProcessSample` | one loop iteration: `process_sample` and its three `process_*` helpers (1222-1401) |
| `IntoEvents` | `into_events` and the `add_*` helpers (118-281) |

**Helpers.**
- `Insert` is the `insert` of a `HashMap`: the slot is created or
  overwritten, and every other slot is kept. It is written as an explicit
  function so that the proofs can expand it.
- `Stored` says whether a sample reaches a handler: it must be a counter of a
  known family that carries every label the family requires.
- `Key` is the slot the sample is written to.
- `AsU64` is Rust's `as u64` cast. Values are integers in tenths
  (`Scale = 10`), so truncation, NaN, negatives and saturation at `U64Max`
  all occur.

**Properties.**
- `PivotIsLastWrite` compares the collector after each sample with a
  reference defined without the fold: the last stored sample of each key.
- `EventsAreBilledRows` (spec 4.5, spec 8.6) says the events are exactly the
  reference rows: positive values only, and one row per key.

**Run `billing_fold`** covers every list of up to three samples drawn from
eleven sample shapes. The shapes cover:
- each family;
- a gauge;
- an unknown metric;
- a sample missing a label;
- two samples with the same key;
- a zero value, a fractional value, a negative value, NaN and a value above
  `U64Max`.

Two series of one metric that share their pivot key but differ in another
label overwrite each other. The one that comes last in the exposition is
billed. `PivotIsLastWrite` states exactly this, so the run covers the
ordering hazard of 1303.

The constant `Samples` is the set of samples a node may export, and
`Inputs \subseteq Seq(Samples)`. `BillingAssumption` says that a sample's
value is an integer (the `f64` scaled by `Scale`) or `NaN`.

### `BillingAggregatorProofs`

This module proves all three properties of `billing_fold` for every set of
families, every sample set and every list of samples:
- `BillingTypeCorrect`: `Spec => []TypeOK`;
- `LastWriteWins`: `Spec => []PivotIsLastWrite`;
- `BilledRowsExact`: `Spec => []EventsAreBilledRows`.

`PivotIsLastWrite` is not inductive by itself, for two reasons:
- after `IntoEvents` nothing may change the collector again;
- to show that the explosion gives one row per key, each slot needs the
  sample that wrote it last.

The inductive invariant `BillingInv` adds two conjuncts:
- `SlotHasLastWriter`: every slot has a last writer among the first `i`
  samples;
- `DoneIsExplode`: once `phase = "done"`, the loop is over and `events` is
  the explosion of the collector.

TLC checked `BillingInv` on the `billing_fold` instance first. The step
proof splits `ProcessSample` into two lemmas:
- `StoreStep`: a stored sample `i + 1` becomes the last writer of its key,
  and every other key keeps its last writer, because the new sample has a
  different key;
- `SkipStep`: a skipped sample changes neither the stored indices nor the
  collector.

`ExplodeIsBilled` then shows, once `i = Len(samples)`, that `Explode(pivot)`
and `BilledRows(samples)` are equal, by the two inclusions. The reference is
defined over a prefix length `n` (`StoredIndices(seq, n)`,
`LastOfKey(seq, n, j)`), not over `SubSeq`, so no induction over the list is
needed. Each step only relates prefix `i` to prefix `i + 1`.

### `FanOut` (fan-out executor, broadcasts and per-ingestor helpers)

Each element of `Calls` is one concurrent call, and its `op` says which kind.
A call may be a broadcast, for example `sync_users_with_roles_with_ingestors`
calling `for_each_live_ingestor`, with a valid or an invalid operation name.
It may also be one of three per-ingestor helpers:
- `"demo"`: `get_demo_data_from_ingestor`;
- `"stream_delete"`: `send_stream_delete_request`;
- `"retention"`: `send_retention_cleanup_request`.

Its `pc` moves through these steps:
- `RejectOperation`: the operation is not `add` or `remove` (436-439);
- `MetadataFailed` or `LoadIngestors`: `get_node_info` (288-294, and 376-380
  for the demo fetch);
- `Probe`, once per ingestor in metadata order: `check_liveness` (295-301).
  The demo fetch stops at the first live ingestor (`StopsAtFirstLive`,
  384-388);
- `NoLiveIngestor`: the demo fetch found no live ingestor (391-395);
- `Launch`: `join_all` (303-308). For the demo fetch, this is its one GET;
- `StreamDeleteStart`: the stream delete probes the ingestor its caller
  passes. If the ingestor is dead, the call returns `Ok` (762-764).
  Otherwise the DELETE is sent;
- `RetentionStart`: the retention cleanup POSTs to its ingestor with no
  probe (796-808);
- `Send`, once per ingestor the call waits on: the request (447-489, 405-426,
  768-793, 801-832);
- `Join`: the result loop, which returns the first error (311-317).

The callers of the two single-ingestor helpers are outside this repository,
so the ingestor they pass is chosen freely.

`Crash` and `Recover` let an ingestor fail or come back at any time.

**What `Send` models.** A live ingestor answers 2xx, or answers non-2xx
because it refused the request, or its answer is lost. A dead ingestor gives
a transport error. `received` records the ingestors that a call's request
reached. `accepted` records the ingestors whose 2xx answer the call read.
`Propagates` says which kinds turn a non-2xx into an error: the demo fetch
and the retention cleanup (418-424, 820-831). The broadcasts and the stream
delete only log it.

**What `Probe` models.** `ProbeAnswers`: with `Faults`, a probe of a live
ingestor can time out, and a dead ingestor never answers.

**Properties.**
- `BestEffortToEveryLivePeer` (spec 4.2, spec 8.8): when a call returns,
  every ingestor it found live has had its request attempted.
- `OkReachedEveryLivePeer`: an `Ok` result means the request reached every
  ingestor the call found live.
- `PropagatedOkMeansAccepted` (spec 3 and 7): an `Ok` from a demo fetch or a
  retention cleanup means it went to an ingestor, and that this ingestor
  answered 2xx. Breaking it takes several steps:
  - the demo fetch found nobody and went on anyway (mutant
    `NoLiveIngestorSkipped`); or
  - a refusal was logged instead of returned (mutant `SendLogsRejection`).

**Run `fanout_broadcast`** uses three ingestors, two calls and five op names
(`add`, `bogus` and the three helpers), with faults on. It reaches 1.56M
states in about 30 s. Two calls are enough to interleave one call's probes
with another call's sends and with crashes. Three ingestors let the demo
fetch skip a dead first ingestor and stop before the third.

### `FanOutProofs`

This module holds the TLAPS proofs, for every instance:
- `FanOutTypeCorrect`;
- `BestEffort` (`BestEffortToEveryLivePeer`);
- `OkMeansReached` (`OkReachedEveryLivePeer`);
- `PropagatedOk` (`PropagatedOkMeansAccepted`).

None of these properties is inductive. The inductive invariant `IInv` is
`TypeOK` plus a per-call `CallInv`, which says:
- a call that has not started has an empty live list;
- while probing, the live list is no longer than the number of ingestors
  probed, which is why `TypeOK` can bound it by `Len(Order)`. Only
  broadcasts and the demo fetch probe;
- a returned call is frozen;
- every ingestor in the list of a joining or returned call has a task;
- a returned call has no pending task;
- an `ok` task has reached its ingestor. For the kinds that propagate a
  non-2xx, it was also accepted;
- a joining demo fetch or retention cleanup has an ingestor to wait on.

Even `TypeOK` needs the invariant, because of the probe bound. `CallFrame`
shows that a step of one call leaves every other call's invariant intact.
`OrderNotEmpty` gives the helpers a non-empty metadata list. TLC checked
`IInv` as an invariant before it was proved.

### `ClusterCollector` (scraper, cluster-wide collector, scheduler)

**The collector.** A scrape of one node is its outcome:
- `dead`: `check_liveness` is false, giving `Ok(None)` or an empty vector;
- `unreachable`: the send failed, with the same result as `dead`;
- `bad`: the body read or the parse failed, giving `Err`;
- `ok`, `rows` or `no_rows`: the scrape returned data.

`ClusterMetrics` and `ClusterBilling` are `fetch_cluster_*` composed with
`fetch_nodes_*`. Each is a function of the four `get_node_info` results and
of the per-node outcomes. Their internal concurrency (`join4`,
`buffer_unordered`) does not affect the result: the results are collected and
nothing reads their order.

**The scheduler.** The job of one tick is two steps, `MetricsStep` then
`BillingStep` (1556-1635). Each sends its result on only when the result is a
non-empty `Ok`.

**GET /cluster/info.** `GetClusterInfo` is one request, `get_cluster_info`
(835-893). It uses `fetch_nodes_info` (958-978) and `fetch_node_info`
(898-955). It can happen at any point of the tick and shares no state with
it. Each node's `/about` outcome is one of:
- the send failed, which yields an unreachable entry;
- it answered with a string `staging` field, which yields a reachable entry;
- the answer was malformed: the body read, the JSON parse or the field
  lookup failed. This is the case for any non-2xx page.

**Run `collector_tick`** passes. It checks two properties:
- `BillingSentFromEveryBilledNode` (spec 4.6, 4.7 and 7): the billing half
  skips failed nodes and does not depend on the metrics half.
- `ReachabilityReported` (spec 4.9): a successful response lists every node
  once, flagged by whether it answered.

**Run `collector_metrics`** checks the same statement for the metrics half,
`MetricsSentFromEveryScrapedNode`, and it is violated. `fetch_nodes_metrics`
returns the first node's `Err` (1140), and the scheduler then sends nothing
to `pmeta`. The error is not logged.

**Run `collector_info`** checks `EveryNodeListed` (spec 4.9), and it is
violated. One malformed answer fails the whole request, because the `?`
calls at 916-934, 974 and 888-891 propagate the error.

The runs use the four roles and two nodes, which is enough for one node to
fail while the other succeeds.

### `ClusterCollectorProofs`

This module proves the two properties of `collector_tick` for every set of
nodes, with or without faults:
- `BillingIndependent`: `Spec => []BillingSentFromEveryBilledNode`;
- `InfoReportsReachability`: `Spec => []ReachabilityReported`.

Both properties are inductive as they stand. Each tick half, and each info
request, rewrites together the state that the property relates: the
outcomes it chose, and what it sent or answered. It leaves the other half's
state alone. The two properties of the violation runs cannot be proved,
because they are false.

### `AdminSurface` (`remove_node`)

**Requests and nodes.** Each element of `Calls` is one concurrent
`remove_node` request. Its target is chosen in `Init`. Each node has:
- `alive`: whether its process is running;
- `meta`: the role keys it has a record under in the metastore.

**Actions.**

| Action | Code | What happens |
|---|---|---|
| `CheckLiveness` | 1019-1023 | a target the probe finds live is refused |
| `DeleteRole` | 1026-1048 | one `delete_node_metadata` per role key, in the code's order; with `StoreFaults` it may fail and return at once through `?` |
| `Finish` | 1050-1059 | Ok if any delete removed a record, "not found" otherwise |

`ProbeAnswers` is `utils::check_liveness`, as in `FanOut` and the
dispatcher: a dead node never answers, and with `ProbeFaults` the probe of
a running node may time out and read as dead. The request then deletes the
record of a running node. Spec 4.1 defines "live" as the probe's answer, so
this breaks no statement of the spec; `RemoveAbstract` records it.

`Crash` stops a node. It is the environment. A node's restart writes its
record from its own startup code, which lies outside `src/`, so restarts are
not modelled. With a restart between `CheckLiveness` and `DeleteRole`, the
request would delete the record of a running node.

The model has no property that a running node keeps its record. With an
exact probe and no restart it would only restate the guard of
`CheckLiveness`, and with probe timeouts the spec does not promise it.
Termination is not checked either: `remove_node` is straight-line code with
no loop or wait.

**Properties.**
- `NodeGoneAfterRemoval` (spec 4.9): a request that answered Ok or "not
  found" leaves no record of its target under any role key, whatever other
  requests did meanwhile.
- `ImplementsRemoveAbstract`: below.

A metastore error on a later key returns through `?` after an earlier key
was removed. Spec 4.9 only says such a request answers 5xx. The refinement
says what it leaves: the node is removed and the request answers an error.

**Runs.** Two nodes are used: one registered under the first role key and
one under the last, so that the whole deletion sequence matters.

Run `admin_remove` passes with metastore errors and probe timeouts on and
two concurrent requests. The requests may target the same node or different nodes. It also
checks `ImplementsRemoveAbstract`, below.

### `RemoveAbstract` (what `remove_node` promises)

The abstract specification has no role keys, no deletion order and no
metastore calls. A node is registered or not. A request, while pending,
either refuses a running node (`Refuse`), or removes a dead node's record in
one atomic step and remembers whether there was one (`Remove`), or, with
metastore errors, fails having removed nothing (`Fail`). With `ProbeFaults`,
`Remove` and `Fail` are also allowed for a running node (`MayRemove`). A request that
removed then answers (`Answer`): Ok when it found a record, "not found" when
it did not, or, with metastore errors, an error. `Crash` stops a node.

`AdminSurface` maps onto it with `Abstract == INSTANCE RemoveAbstract WITH`:
- `registered` is the set of nodes with a record under some role key;
- a request is "done" when its `pc` is, "removed" once it is deleting and
  has passed its node's own role key (`Deleted(c)`), and "pending" before;
- `found` is whether one of its deletes reported a removal.

So the delete of the node's own key is the abstract `Remove`, every other
delete and a check that finds the node dead are stutters, and a metastore error is
`Fail` before that delete and an error `Answer` after it.
`ImplementsRemoveAbstract == Abstract!Spec` is checked by `admin_remove`.
Its mutant `DeleteRoleAssumesRemoved` counts a delete that returned Ok as a
removal whether or not a record was there; TLC rejects it, since the
request then answers Ok for a node that had no record.

### `AdminSurfaceProofs`

This module proves `RemovedNodeGone` (`NodeGoneAfterRemoval`) for every set of nodes, every
role order (`AdminAssumption`: a sequence of strings holding each node's role) and every
number of requests. Its inductive invariant adds a per-request `CallInv`:
- a deleting request's target is dead (no restart is modelled), or probes
  may time out;
- every role key before `k[c]` is gone from the target's record;
- an Ok or "not found" answer means the record is empty.

`NodeGoneAfterRemoval` alone is not inductive: `Finish` answers only after
the last role key, and the second conjunct carries the earlier deletes
forward. The first conjunct is for the refinement: `Remove` and `Fail` of
`RemoveAbstract` need `MayRemove`.

`RemoveRefinement` proves `Spec => ImplementsRemoveAbstract` for every
instance. It rests on `RInv`, `IInv` strengthened with three facts, checked
by TLC as an invariant of the `admin_remove` instance before it was proved:
- each node has a record under its own role key only;
- a request that has not started is at its first delete;
- a request that has not yet deleted its node's own key has seen no removal,
  and what it removes lies under that key.

With them, a delete of another key changes nothing the mapping sees, and the
delete of the node's own key removes exactly the record the abstract
`Remove` removes, and reports it found exactly when there was one. `RefInit`
maps the initial states, and `RefStep` maps each action to an abstract step
or a stutter, one case per action and per disjunct of `DeleteRole`.
`Finish` is an `Answer` because every node's role is in the role order, so
a request at the end of the order has passed its node's key. No assumption
that the role keys are distinct is needed.

### `FlattenCount` (`flatten_objects_for_count`, `query/mod.rs` 351-393)

**Rows.** A row is a JSON object, modelled as a function from its keys to
their values. `CountKeys` are the key names that start with `COUNT`.

**Actions.** The function runs as a small state machine, one action per
path:

| Action | What it models |
|---|---|
| `ReturnEmpty` | the empty list is returned as it is |
| `ReturnUnchanged` | `flag` is false, so the rows are returned as they are |
| `FirstRowEmptyPanic` | an `unwrap` fails because the first row is empty |
| `StartSum` | the first row's key is taken and the total starts at 0 |
| `AddRow` | one row of the summing loop |
| `Emit` | the single row `{key: total}` is returned |

`Flag` is `flag`: the two `all` scans, joined by a short-circuit `&&`.

**The reference.** `Reference` is the contract the function's tests describe,
written without the scans. When some row has a COUNT key `K` and no row has
any other key, the result is `{K: sum}`. Otherwise the rows are returned
unchanged.

**Run.** `flatten_reference` takes every list of up to three rows over `COUNT(*)`,
`COUNT(ALPHA)` and `Num`, with up to two keys per row, the empty row included.
It passes: whenever the function returns, its result is the reference
result. The panic path is modelled, and it is reached by
`[{}, {"COUNT(*)": 1}]` and by `[{}]`. The function is marked unused, so no
request reaches it today, and no run asserts that it cannot happen.

### Dispatcher runs

All dispatcher runs use three queriers `a, b, c` with iteration order `<<a, b, c>>` and
`MaxClock = 3`.

| Run | Tasks | Faults | Disconnects | Checks | Result |
|---|---|---|---|---|---|
| `dispatcher_safety` | 2 | yes | no | `TypeOK`, `UnavailableImpliesDispatched`, `LRUScanIsLeastRecentlyUsed`, `LastUsedNeverDecreases` | pass |
| `dispatcher_cancel` | 2 | yes | yes | `ImplementsDispatcherAbstract` | pass |
| `dispatcher_roundrobin` | 1 | no | no | `QuerierEventuallySelected` under `FairSpec` | pass |
| `dispatcher_starvation` | 2 | no | no | `QuerierEventuallySelected` under `FairSpec` | violation: `a` and `b` alternate, `c` is never chosen |
| `dispatcher_leak` | 2 | no | yes | `UnavailableImpliesDispatched` | violation: a dropped in-flight query leaks its querier |

**Why these bounds are enough.**
- Two tasks are enough for every interaction between handlers: one holds a
  querier while the other refreshes, prunes, re-adds or falls back to LRU.
- Three queriers are the smallest number with which round-robin can skip one.
- A clock of three values lets the LRU scan compare two used stamps with a
  `None`.

## Plan

The modules are built in this order. Each is model-checked before the next is
started.

1. `QuerierDispatcher`, with its MC module, runs and proofs. **Done.**
2. `BillingAggregator`: the pivot fold and explosion, compared with a
   declarative reference over every bounded sample list, for zero suppression,
   the overwrite of duplicate keys, the drop of samples without labels and the
   `f64 -> u64` cast. **Done.**
3. `FanOut`: `for_each_live_ingestor` and the broadcast operations, with peers
   that die between the probe and the request, transport errors and non-2xx
   responses. It checks best-effort delivery (spec 8.8) and first-error
   reporting (spec 4.2). **Done**, with the demo fetch, the stream delete
   and the retention cleanup, and proofs of its invariants.
4. `ClusterCollector`: the scraper, the two collector paths and the scheduler
   tick. It checks the independence of the two ingestion steps (spec 4.7) and
   the divergence on scrape errors (spec 4.6 and 7). **Done.**
5. `AdminSurface`: the `remove_node` check-then-delete. `get_cluster_info` is
   modelled in `ClusterCollector`. **Done.** Re-registration is not modelled,
   because it lies outside `src/`.
6. `DispatcherAbstract`, refined by `QuerierDispatcher` through a
   refinement mapping, which is model-checked and proved. **Done.**
7. `FlattenCount`: `flatten_objects_for_count` against its tests. **Done.**

## What is proved and what is only model-checked

TLAPS proves the following for every value of the constants that their
assumptions allow:
- type correctness of the dispatcher, the fan-out and the billing
  aggregator;
- the dispatcher's release invariant, without disconnects;
- the dispatcher's action property `LastUsedNeverDecreases`;
- the dispatcher's refinement of `DispatcherAbstract`;
- the three fan-out properties;
- the two billing properties: last write wins, and the events are exactly
  the reference rows;
- the two properties of `collector_tick`;
- `NodeGoneAfterRemoval`, and the refinement of `RemoveAbstract` by
  `remove_node`.

Two kinds of property stay with TLC:
- **Liveness**: `QuerierEventuallySelected`. TLAPS
  cannot prove liveness or facts about `ENABLED`.
- **Recursive definitions**: `LRUScanIsLeastRecentlyUsed` is about the LRU
  scan, a recursive function over the iteration order.
  `FlattenMatchesReference` compares the loop's running total with
  `SumFunction` of the community module `Functions`, a fold written as a
  recursive function over the subsets of the rows. Relating either to its
  result for every input needs induction over the list. The library's
  induction theorems take the predicate as an operator parameter, which the
  installed provers cannot instantiate.

## Not modelled

- **The DataFusion session and plan rewriting in `query/mod.rs`.** These are
  calls into the query engine, which spec 1 puts out of scope.
- **Logging, URL formatting and header copying.**
- **The stats helpers** (`fetch_daily_stats`, `fetch_stats_from_ingestors`,
  676-758). They are sums over manifest and JSON fields, with no control
  beyond the loop. Their one hazard is the unchecked `u64 +=` (725-733), and
  a `stream.json` that is not valid JSON panics at the `expect` (723). It is
  listed in `PROJECT.json` without a property.
- **The HTTP client, the metastore and the liveness probe.** These are
  external collaborators. Their results are nondeterministic choices.

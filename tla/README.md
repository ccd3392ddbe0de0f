# CPSR-Lite in TLA+

Specifications of the rollup planner and sender of CPSR-Lite: TLA+ modules for
its stateful parts, TLC configurations that check them on small instances, and
proofs, checked by TLAPS, of the properties that matter most for every
instance. The reference is the code; each definition of a module that models
code is listed with its lines in `PROJECT.json` under `map`.

## The system

A user hands in intents (an instruction, the accounts it reads and writes, a
priority). The command line `bundler/examples/rollup_cli.rs`

1. builds a dependency graph of the intents and peels it into layers
   (`dag/mod.rs`),
2. packs each layer into chunks, one transaction each (`chunking/mod.rs`),
3. sends a layer's chunks in parallel and joins them (`pipeline/rollup.rs`);
   a chunk's task goes through attempts, each of which
   - optionally runs the chunk on an ephemeral rollup through the Magic Router
     (`er/mod.rs`) and goes on with the settlement it returns,
   - takes one of the layer's permits,
   - captures an OCC snapshot of the accounts (`occ/`), resolves lookup tables
     (`alt.rs`), leases a blockhash (`pipeline/blockhash.rs`), and
   - simulates, tightens fees, rebuilds and submits (`sender.rs`);
4. marks the layer boundary at the blockhash service and takes the next layer;
5. in `--mode compare` sends the intents once more, one by one, as a baseline
   (and in `--mode baseline-only` does only that).

Beside it, the TypeScript SDK (`sdk/packages/sdk`) builds and submits single
transactions from an application, directly to a node or through the router.

### Inventory

| part | state it keeps | operations | hard behaviour | what makes it correct |
|---|---|---|---|---|
| blockhash lease service, `pipeline/blockhash.rs` | cached lease and its uses, pending refresh reason, refresh flag | `lease`, `lease_for_intents`, `record_outcome`, `mark_layer_boundary` | two critical sections with RPC calls between them, a compare-and-swap, sleeps, errors | one fetch at a time, flag never left up, bounded overuse, boundaries not lost, calls return |
| dependency graph, `dag/mod.rs` | edges, reverse edges, edge set, conflicts | `build`, `layers`, `topo_order` | hash map order, indegree counting | acyclic, layers partition the intents and respect writers |
| layer pipeline, `pipeline/rollup.rs` and the loop of `rollup_cli.rs` | semaphore, one task per chunk with attempt counter and prepared state, results | `send_layer_parallel`, `process_chunk`, `prepare_er_stage`, `process_chunk_once` | retries, lost answers, panics, fallbacks | permits conserved, layers do not overlap, honest results, no bypass of a required router |
| session client, `er/mod.rs` | route cache, circuit breaker, degraded flag, telemetry | `begin_session`, `execute`, `send_with_retries` | concurrent sessions, retries, timeouts | breaker and cache consistent, submit policy respected |
| BHFA, `er/bhfa.rs` | none | `get_blockhash_for_accounts` | failure falls back to the lease service | |
| OCC, `occ/mod.rs`, `occ/rpc_fetcher.rs` | drift window | `capture_occ_with_retries` | retries, drift, fatal errors | bounded attempts, an accepted snapshot is within the drift |
| chunk planner, `chunking/mod.rs`, and merge in `rollup.rs` | accumulator | `chunk_layer_with`, `merge_small_chunk_plans` | budgets, ALT offload | nothing lost, order kept, budgets kept |
| lookup tables, `alt.rs`, `alt/table_catalog.rs` | plan cache | `resolve_tables`, `compute_offload_plan` | cache shared by tasks | keys offloaded at most once, signers never |
| sender and fees, `sender.rs`, `fee.rs`, `fee_oracles/` | window of CU samples | `simulate_build_and_send_with_report`, `suggest` | percentile, clamps | limit covers what was used, within the cap |
| serializer, estimator | none | `build_v0_message`, size and cost estimates | size limit, against the planner's own estimate | what the planner admits can be built |
| types, `crates/types` | none | access escalation, ids, Merkle root, versions | duplicates, widths | conflicts symmetric, roots deterministic |
| SDK, `sdk/packages/sdk` | smoothing state of the fee policy | `buildAndSubmit`: fee plan, build, tighten, submit by router or node | concurrent builds share the policy; retries decided by the text of an error | no second submission after one that was taken, receipts true, plans within the bounds |
| adapter API, emitter, coordinator, monitoring, runtime | none | traits, stubs and empty directories | | |

Parts call each other; the only state shared between tasks is the lease
service, the semaphore, the session client, the lookup table cache, the
sender's statistics and, in the SDK, the smoothing state of a client. Nothing is persisted, so no recovery is modelled.

## Modules

| module | models | state and actions |
|---|---|---|
| `BlockhashManager` | the lease service with the workers of a layer and the driver | `current`, `pending`, `inFlight` are the fields of `BlockhashInner` and the atomic flag; `pc`, `lease`, `started` the locals of each task in `lease()`. One action per stretch of `lease()` between two locks, RPC calls or sleeps; `ReportStale` is `record_outcome`, `MarkLayerBoundary` the driver. `boundary`, `failed`, `newest` are history. |
| `SingleFlight` | abstract: fetches do not overlap and what they install never gets older | `fetcher`, `since`, `newest` |
| `BlockhashRefinement` | the refinement mapping from `BlockhashManager` to `SingleFlight` | |
| `BlockhashManager_proofs` | theorems about both | |
| `Dag` | `Dag::build` account by account in any order, then `Dag::layers` | `edges`, `conflicts`, `indeg`, `frontier`, `layers`, `remaining`; `Chain`, `StartLayers`, `PeelLayer`, `FinishLayers` |
| `Dag_proofs` | theorems about the layers | |
| `LayerPipeline` | driver, semaphore, and the task of every chunk | `driver`, `layer`, `tally`; `permits`; `pc`, `attempt`, `prepared`, `result`; and three ledgers of what reached the router (`routed`) and the RPC node (`settled` for a rollup settlement, `original` for a chunk sent without the rollup). One action per await. |
| `LayerPipeline_proofs` | theorems about the pipeline | |
| `LayerExecution` | `LayerPipeline` with a cluster that executes or drops what it accepted | `executed`, `expired` |
| `ErClient` | the session client of the Magic Router, shared by a layer's tasks | `circuit`, `route`, `degraded` are shared; a task's request goes through `check`, `wire`, `account`, `answered`, which is `post_json` with the attempts of `send_with_retries`; what is done with each answer is an action. `accepted` and `streak` are history. |
| `Breaker` | abstract: when a breaker may open, refuse and close | `streak`, `until`, `refused`; the mapping is `PromisedBreaker` in `ErClient` |
| `ErClient_proofs` | theorems about both | |
| `ChunkPlanner` | `chunk_layer_with`, then `merge_small_chunk_plans` | `acc` is `ChunkAccumulator`; one intent, or one chunk to merge, per step |
| `ChunkPlanner_proofs` | theorems about the planner alone | |
| `Planning` | a run of the command line from intents to messages: composes `Dag` and `ChunkPlanner`, the serializer's test of each plan, and the baseline | `footprints` the instructions, `sent` the messages of the layers so far, `mode` and `baseline`; the graph's steps, `BeginLayer`, the planner's steps, `SendLayer`, then `BaselineSends` or `BaselineFails` |
| `Planning_proofs` | theorems about a run, from those about its two parts | |
| `OccCapture` | `capture_occ_with_retries` over `RpcAccountFetcher` or any fetcher | `occ[t]` the locals of the capture; `slot` the cluster's clock; `fetches`, `refused` are history |
| `AltManager` | `CachingAltManager` and its catalog | `altCache` is the shared cache, looked at in one critical section and filled in another; `alt[t]` the task's resolution |
| `FeeSender` | `simulate_build_and_send_with_report` with the basic and the recent-fees oracle | `window` of CU samples, `ema` and `lastOutput` are shared; `fee[t]` the locals |
| `ChunkAttempt` | the attempt of a chunk in detail: composes the last three | `attempt`, `outcome`; actions join a component's step with the rest unchanged |
| `ChunkAttempt_proofs` | theorems about it and the three | |
| `SdkSubmit` | `L1Submitter` and `RouterSubmitter` of the SDK with their attempts | `submission` the locals of a call of `submit`; `taken` and `lost` are history; one action per await |
| `SdkClient` | `CpsrClient` on top of it: fee policy, build, tighten, submit, and the caller that calls again | `emaState`, `lastPrice` are the policy's and shared; `pc`, `plan`, `reported`, `calls` by caller |
| `SdkClient_proofs` | theorems about both | |
| `MC...` | definitions for TLC |

`BlockhashManager`, `ErClient` and `ChunkAttempt` are detailed views of single
steps of `LayerPipeline`: the lease, the stage behind `session` and `execute`,
and the steps between the permit and the result. `Planning` is a detailed view of
what precedes it: the layers and plans that `LayerPipeline` takes as constants.

Each module with mutants carries its *faulty variants*: copies of a definition
with a mistake the code could have had. No specification uses them. Putting one
in the place of the original must make the property fail that guards against
it; `PROJECT.json` lists the pairs under `mutants`.

### How the code is abstracted

- Lease service. A blockhash is the slot that produced it and `Hash::default()`
  is 0; time is the slot. `lease()`'s RPC calls answer with anything the
  cluster could have answered in that time, or fail. Metrics are left out.
  A poisoned mutex cannot occur, as nothing panics under the lock.
- DAG. An intent is its priority and its access to each account; the input is
  any assignment. Edges of one account are added in one step, since `build` is
  sequential; the order of accounts, which the code takes from a hash map, is
  free.
- Pipeline. What a chunk contains does not matter, only whether it is eligible
  for the rollup (`ErEligible`: neither below the CU threshold nor a small
  message), and how many plans its layer had before merging (`Unmerged`), by
  which the driver chooses the concurrency. Each call succeeds, fails, or succeeds with the answer lost.
  Whether an error is retriable depends on its text in the code and is free
  here, except for the stale blockhash, which always is.
- Session client. Times are the breaker's and the route's; a request is
  answered with a result, with the error that the code takes for a blockhash of
  the wrong host, with another error, or fails. Whether it was accepted before
  its answer was lost is free. Telemetry, the wire log and the body of messages
  are left out, as is `get_latest_blockhash`, which nothing calls.
- Breaker. `until` is the circuit's `tripped_until`, with none as 0, and
  `refused` the tasks whose request the breaker turned down, until they go on. A
  request that was admitted before the breaker opened may fail after it, which
  opens it again for a whole cooldown, and a success of one closes it early:
  `Breaker` allows both and nothing else.
- Planner. An intent is its sequence of keys, the set it writes, its compiled
  bytes, its CU estimate and its actor. Vectors are taken to have less than 128
  entries; payer and compute-budget instructions are not counted, as in the
  code. The layer has at most one writer of each account, which is what
  `Dag` guarantees (`WritesComeFirst`) and `Planning` uses.
- Messages. Of what `build_v0_message` compiles only the size counts: a base of 38
  bytes, 21 for the two compute-budget instructions and the version, 32 for
  each key with the payer and the compute-budget program, and the compiled
  instructions, against the size limit less margin and signatures; lookup
  tables, which only take keys out, are not counted. A message refused is
  refused in each attempt, which `LayerPipeline` sees as a chunk that fails.
- Modes. The baseline sends in input order and without tables, so its messages
  have the same size as above; any other error of its three calls is one free
  step.
- Capture. Of an account only the slot of its answer is kept. Nodes that answer
  may lag behind the cluster by any number of slots. The window of drift
  statistics, which is only logged, is left out.
- Lookup tables. A table is the set of its addresses, a cache key the set of
  the keys with their writable flags. Keys of equal cost come in the order of a
  hash map in the code and in any order here. Metrics, table addresses and the
  limit of 255 indexed addresses are left out.
- Fees. The percentile of the fetched fees is an input; the moving average,
  a float in the code, is any integer between the old value and the new one.
  An oracle with a minimum price above its maximum panics, as `clamp` does.
  A simulation that reports no units, for which the code assumes 200,000, is left
  out.
- SDK. A transaction stands for its signature, so that signing the same message
  again gives the same one. The text of an error falls in one of four classes,
  those that `isRetriable` and `wrapError` tell apart. The smoothed price is an
  integer; the samples are chosen so that it is exact. The policy has both
  smoothing and hysteresis on. The second call after a stale blockhash or
  a rate limit is the caller's, as the SDK's README shows it.

## Runs

| run | bounds | shows |
|---|---|---|
| `blockhash_safety` | 2 workers, ER-aware provider, 2 layers, 3 calls, 3 slots, every policy on | types, single flight, bounded overuse, boundary marks, refinement of `SingleFlight`; every call of `lease()` returns |
| `blockhash_default` | 2 workers, 3 calls | **fails**: the default hash is handed out |
| `planning` | 4 intents; 8 sorts of them over 8 accounts under 5 budgets compared with a baseline, 4 sorts over 2 accounts with 2 priorities, and baselines alone | layers partition, respect writers, and make no intent wait but for one it shares a written account with; budgets kept; merged chunks independent; packing tight; from input to message no intent lost, sent twice or before a writer it follows; a refined budget plans nothing that cannot be built, nor that a baseline would refuse |
| `dag_conflict_free` | 3 intents, 2 accounts | **fails**: a reader and a later-ranked writer share a layer |
| `pipeline_safety` | 2 chunks on 1 permit, 1 in a second layer, merged from 2, 2 attempts, 6 command lines | permits, barrier, honest results and tally, required router, settlement after execution; the run ends |
| `pipeline_dry_run` | 3 chunks, dry runs | **fails**: the router gets the transaction |
| `pipeline_execution_order` | 1 chunk in each of 2 layers | **fails**: layer 2 executes before layer 1 |
| `er_client` | 2 tasks, 1 session each, 1 retry, a breaker of 2 failures, 2 points in time, 4 configurations | what `execute` reports was accepted, blockhashes stay with the host they come from, the shared breaker implements `Breaker`, sessions end |
| `chunk_assertion` | 2 intents, the command line's budgets | **fails**: `debug_assert!` before `add` |
| `chunk_attempt` | 2 tasks, 2 layers, 2 attempts, 2 fetches, 2 slots, a window of 1 sample | bounded fetches, no fetch after a fatal error, own resolution whoever filled the cache, sound offload, CU limit covers use, price hysteresis |
| `chunk_stale_snapshot` | as above, 3 slots, drift 1 | **fails**: an old snapshot is accepted |
| `sdk_submit` | 2 callers of one client, 2 calls each, 2 attempts, 3 pairs of requests, a blockhash that lives 1 tick | receipts true, nothing taken twice unless an answer was lost, plans within the policy's bounds and above what was simulated |

Why the bounds are enough. Two workers suffice for every race in `lease()`
that involves one other task, three calls and two slots of age let the loser of
a race come back; what the runs cannot show is the overuse by more workers,
and that bound is proved for any number. Two layers give one boundary with
calls on either side; three slots let a lease expire by age and by validity. In
`planning`, four intents and two accounts give graphs with paths over different
accounts, diamonds and a priority tie on each level; four intents also let the
planner close two chunks, by each of its budgets in turn, and merge both. The two
sets of batches are apart because the planner does not see why a layer is what
it is, nor the graph how large an intent is; the budgets include the command
line's own, a refined one, and one that merges. In the pipeline one permit for two
chunks makes every lost permit block, and two attempts make every retry a first
and a last one. In `ErClient` the two requests that open the breaker may come
from one task or from both, and one point in time past the cooldown lets each
see it half open. `ChunkAttempt` starts from three sets of
initial states, each of which puts one component to work while the others pass
through, since the components share no state but the clock: a task's
capture ends before its lookup and that before its fees. A window of one sample
makes the sample of either task push out the other's; a cost tie, a writable
use and a signer among two accounts are the cases of the offload plan. In
`sdk_submit` two attempts make every retry a first and a last one, two calls
let the second follow whatever the first left behind, and each pair of requests
has one caller on either side of a choice: lane, preflight, overrides,
tightening, size. What is proved below does not depend on the bounds.

**Fairness.** `FairSpec` of the lease service, the session client and the
pipeline assumes weak fairness of each task's steps (and of the driver's): tokio polls every ready
task, sleeps end, and RPC and HTTP calls end within their clients' timeouts.
Nothing is assumed of answers, of new calls, or of the clock. The clock stops
at `MaxSlot`: a node that for ever takes longer to answer than `max_age` would
keep `lease()` fetching, and the configuration (`max_age` of a second or more),
not the code, excludes that.

### What the failing runs show

- `blockhash_default`: `lease()` decides in one critical section and issues in
  another. If another task drops the lease in between, the caller receives
  `Hash::default()`, although the comment there says that the next loop will
  refresh. `SoleWorkerGetsNoDefaultLease` proves that it takes two workers.
- `dag_conflict_free`: edges start at writers only. A reader ranked before a
  writer of the account gets no edge to it, so both are in one layer, while the
  module's documentation promises a chain over all participants of an account
  that somebody writes.
- `pipeline_dry_run`: only the L1 send looks at `dry_run`; the rollup stage
  submits to the router.
- `pipeline_execution_order`: nobody waits for confirmations, so the barrier
  between layers orders submissions (`LayerBarrier`), not executions.
- `chunk_assertion`: `can_add` on an empty accumulator takes every key of the
  intent for a message key, while `fits_in_empty`, the test that lets it in,
  leaves those beyond `reserve_message_keys` to tables. A debug build panics.
- `chunk_stale_snapshot`: `fetch_many` compares the response with the latest
  slot only to log it, and stamps every account with the one slot of the
  response, so the drift between accounts is always zero.

### What the code does that its documents do not say

These came up while modelling. They are part of the modules, and no run is
about them alone.

- `TxBudget::default()` leaves the size of a message to its caller, which is
  asked to refine it (`chunking/mod.rs`, `TxBudget`); the command line does not.
  A chunk it plans may so be refused as too large by `build_v0_message`, in every
  attempt. `RefinedBudgetBuilds` says what a refined budget is and that it
  suffices.
- A retry repeats the whole rollup stage. When the router has executed a chunk and
  its settlement fails with a retriable error, the next attempt executes it on
  the rollup again, or, unless the router is required and if the session fails this
  time, sends its intents without the rollup. No answer need be lost for that. `routed` and `original` of
  `LayerPipeline` record it; `SettlementFollowsExecution` and
  `RequiredRouterNeverBypassed` say what does hold.
- The help of `--er-require` (`rollup_cli.rs:760`) says "No longer enforced in
  this CLI". The flag is the only source of `require_router` (`:1227`), and the
  code enforces that: a failed session or execution ends the chunk with "ER
  required but prepare_chunk failed", not to be retried (`rollup.rs:1145`), and
  the session client asks no host but the router for a blockhash. The models
  follow the code, so that `RequiredRouterNeverBypassed` and the second half of
  `RouterGetsItsOwnHash` hold against that help: were the code changed to do
  what the help says, they would have to go.
- "Receiving compact settlement instructions" (`er/mod.rs:4`; "only anchor a
  compact settlement transaction", `README.md:85`): `execute_router` returns the
  chunk's own instructions as the settlement (`er/mod.rs:1753`, `2134`). A chunk
  that the router executed is sent to L1 with everything it was to do there anyway. In
  `LayerPipeline` `settled` and `original` therefore differ in what came before,
  not in what is sent, and `RequiredRouterNeverBypassed` is about both.
- In `--mode compare` the first error of the baseline ends the command, and the
  report on the rollup, whose transactions have been sent, is lost.
- The SDK decides whether an error is tried again from words in its text. An
  answer 503 of the router, a `NetworkError` whose flag says retriable, has none of
  these words and is not tried again, although a test is called "should retry on
  5xx server errors" (`__tests__/router/router.retry.spec.ts`); nor is "fetch
  failed".
- A stale blockhash that L1's own simulation finds ("BlockhashNotFound", one
  word) is thrown as `PreflightFailedError`, not as `BlockhashStaleError`, and
  a program's error 429 in its text counts as a rate limit. The router's errors are
  thrown as they are, so that no caller gets a `BlockhashStaleError` from there.
- Either error may follow an attempt that was taken and whose answer was lost;
  a caller that then builds anew with another blockhash has its intents executed
  twice. `NoDuplicateWithoutLoss` says that this is the only way.
- `submit/types.ts` gives the default of `skipPreflight` as false; the router's
  submitter takes true.

`PackingIsTight` holds for a reason that a reader of `--er-merge-small-intents`
may not expect: under the command line's budgets the planner has already joined
whatever merging could join, so the option merges nothing.

## Proofs

See `PROJECT.json`, `theorems`, for the list. None assumes more than the named
assumptions on the constants in the modules.

**Lease service.** `TypeCorrect` comes first; `TypeOK` is inductive. The
invariant `IInv` adds to it `SingleFlight`, that each use of the cached lease
is matched by the quota or by a task between decision and issue (`UsesInv`),
and that every lease is dated no later than the newest fetch and the newest
boundary is either served or marked (`BoundaryMarkNotLost` with what it needs
of `newest` and `started`). `SingleFlight` is inductive together with
`TypeOK`; the overuse bound is not, since it says nothing of the tasks that
have passed the test but not counted: `UsesInv` counts them. `Refinement` maps
each action to `Begin`, `Install`, `Abandon`, `Tick` or a stutter of
`SingleFlight`, using that the fetching task is unique.

**Dependency graph.** `Dag_proofs` shows the graph's four invariants, `TypeOK`,
`LayersPartition`, `WritesComeFirst` and `WaitsAreJustified` of the run `planning`,
for any finite set of intents and accounts. The invariant says what the edges
mean while the chains are built (each edge goes from a writer to a participant
ranked after it, and the accounts done have all theirs), what the counts are
while the layers are peeled (the predecessors not yet placed), that the
frontier is the set of unplaced nodes with a count of zero, and that a placed
node has its predecessors in earlier layers. The one argument that is not
local is that an empty frontier leaves no node over (`NoCycleDetectedCorrect`):
by the well-foundedness of the naturals (`LeastNatural`) the unplaced nodes have a first one in the order of rank, and all its
predecessors are placed, so its count is zero (`FirstNode`, `NothingLeft`).

**Layer pipeline.** `LayerPipeline_proofs` shows the six invariants of
`pipeline_safety` for any layers, plans, options and any limits that
`sanitised()` yields. `IInv` has a part for one task (`TaskInv`), a part for
the driver (`PhaseInv`), and the two sums, permits and tally. `TaskInv` is
where the strengthening is: that a settlement follows an execution needs that
what is prepared belongs to the attempt that uses it (`PreparedInv`), and that
a required router is never bypassed needs that an eligible chunk behind the
rollup stage is then always prepared by the router in the same attempt. A step of one task preserves the part of
every other task since it touches nothing of theirs (`Frame`), and so a result is
final (`ResultsFinal`); a step of any
kind takes, returns or leaves one permit (`PermitEffect`).

**Session client.** `ErClient_proofs` shows types, `HonestOutput`,
`RouterGetsItsOwnHash` and the refinement of `Breaker` for any tasks, sessions,
retries, thresholds and times. `SourceInv` follows the blockhash of a session: a
transaction exists only once its blockhash is chosen, and until then nothing was
accepted, so that what the router has accepted carries its hash;
`OutputInv` says that an answer to a submission that reached the task is from a
host that took it. Neither is inductive without the other's account of the
phase that a request is in. `BreakerImplemented` needs one fact of the shared
state, `BreakerInv`: the circuit never counts more failures than there were
since a success. `circuit.failures` is also reset by a request that finds the
cooldown over, `streak` only by a success; the promise that enough requests failed
is about the latter.

**Attempt of a chunk.** `ChunkAttempt_proofs` shows the properties of the run
`chunk_attempt` for any tasks, chunks, keys, tables, windows and fees.
`FetchesBounded` needs `CaptureInv`, which splits the fetches into those of the
attempts before and of the loop that runs; `ResolutionIsOwn` needs `CacheInv`,
that what is filed under a key is what that key says, whoever computed it and
however long it was between the two critical sections; `LimitCoversUse` needs
that a sample in the window never exceeds the oracle's limit (`WindowInv`), as a
task's own sample may be pushed out before it takes the percentile.
`FatalIsFinal` and `PriceHysteresis` are action properties and follow from
the invariant step by step.

**SDK client.** `SdkClient_proofs` shows the three properties of `sdk_submit`
and the types for any callers and workloads. Its invariant ties what is
submitted to the caller's own plan (`ReceiptInv`) and says that, unless an
answer was lost, nothing is taken before a submission is done, after which the
caller calls no more (`LedgerInv`); the bounds of a plan survive tightening
since they hold before it (`PlanInv`).

**Planner.** `ChunkPlanner_proofs` shows the five properties of the planner for
layers of any length, instructions of any size and any options. `PlannerInv`
consists of `AccInv` (the accumulator's two key sets are those of its intents,
the message being filled before the tables, and its byte count covers what they
come to), `ChunksInv` and `PlansInv` (lists that go on where the entry before
ends, each entry within the budgets), `ProgressInv` (how the list, the
accumulator and the rest of the layer make up the layer), and `TightInv`
(neighbours that would fit together do not arise). None of the five properties
is inductive: that nothing is lost needs that the lists are contiguous, the
budgets need the accumulator's, and a merged plan's bytes are covered only
because each of its parts, which share keys, brought its own overhead. Inductions
over a list go by the least counterexample (`LeastOf`, from the well-foundedness
of the naturals), and the sums of CU and bytes are folds (`MapThenSumSet`) of
which `BytesAdditive`, `CuAdditive` and `DisjointSum` give what is needed. Of
the input it is assumed that an intent writes only accounts it names. The proof
of `BudgetsAreKept` needs both of the hypotheses that `BudgetsKept` states, and
the code does lack what they make up for: `max_alt_keys` is kept only where
`max_keys` is no more than the reserve and `max_alt_keys` together, as the keys
that `deltas_for` takes for message keys and `add` then puts into a table are held
to no limit; and the bytes of tables, which `add` never counts, must fit in
the slack.

**Run.** `Planning_proofs` composes the two: `PlanningInv` is the graph's
invariant, the planner's invariant of the layer at hand, and, for what joins them,
that instructions and nodes correspond (`InputInv`), that the planner's layer is
the graph's (`TurnInv`), and that the messages sent of a layer list its nodes once
(`SentInv`), each built if its budget says so (`BuiltInv`). That `InOrder` lists a
layer without repetition is an argument by cardinality (`InOrderFacts`). The
theorems about the parts carry over (`GraphOfRun`, `PlansOfRun`), and with them
`SentOnceInOrder` says of a whole run what no part says alone. `RefinedBudget` has
a third conjunct because a merged plan is held to the size of a message only and
not to the planner's bytes: with little slack even a budget refined as the
documentation asks plans what `build_v0_message` refuses.

**Only model-checked.** The liveness properties `LeaseReturns`, `RunEnds` and
`SessionsReturn`, which need fairness and enabledness and are out of the
prover's reach. Every other property of a passing run is stated by a theorem.
The failing properties have counterexamples and so no proof; what is left of four
of them is proved:

- `blockhash_default`: a sole worker gets no default lease
  (`SoleWorkerGetsNoDefaultLease`);
- `dag_conflict_free`: two intents of a layer that conflict are a reader and a
  writer ranked after it (`LayerConflictsAreReadersAhead`);
- `pipeline_dry_run`: a dry run sends nothing to the node, and to the router only
  chunks that are to run on the rollup, with that stage on (`DryRunSparesNode`);
- `chunk_assertion`: the assertion fails only for an intent that goes into an
  empty accumulator, with tables on, a message reserve, and more keys than
  `max_keys` (`AssertionFailsOnlyWithTables`, an equivalence).

## What is not modelled

- Contents of transactions, byte layouts, JSON, hashing, files and the printed
  reports: pure conversion or output, on which no property here depends. The
  size of a message, on which one does, is modelled.
- Ids, fingerprints, Merkle roots and account versions of `crates/types`: pure
  functions whose results the bundler does not use or only reports. Of
  `crates/estimator`, all but the safety margins of the CU limit and of the bytes
  of signatures, which the bundler does not call.
- `topo_order` of the DAG, which only tests call, and `get_latest_blockhash` of the
  session client, which nothing calls.
- Telemetry, tracing and the wire log; the probes of the command line that only
  log what they find; argument parsing.
- In the SDK, `BasicPolicy`, which is constant, the sources of lookup tables, the
  intent builders and the byte parity with the Rust serializer.
- The cluster, the router and the RPC node beyond their answers.
- Crashes of the process: nothing is persisted that a restart would read, and
  a new run begins with new intents.
- The adapters, the coordinator, monitoring and the on-chain programs, whose
  directories are stubs or empty.

## Plan

Done: the lease service, its abstract specification, refinement and proofs; the
dependency graph and its proofs; the pipeline, execution and proofs; the session
client, the abstract breaker it implements, and proofs; a run's way from intents
to messages, with planner, merge, serializer and baseline, and proofs of planner and
run; the attempt with capture, lookup tables and fees, and proofs; the SDK's client
and submitters, and proofs.

To do: `ChunkAttempt` shown to implement the attempt of `LayerPipeline`, and
`ErClient` its steps `session` and `execute`.

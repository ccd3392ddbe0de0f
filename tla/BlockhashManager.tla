-------------------------- MODULE BlockhashManager --------------------------
(***************************************************************************)
(* The blockhash lease service of bundler/src/pipeline/blockhash.rs, used  *)
(* by the workers of a layer (bundler/src/pipeline/rollup.rs) and by the   *)
(* layer loop of bundler/examples/rollup_cli.rs.                           *)
(*                                                                         *)
(* A task is a worker that holds one of the layer's permits: it asks for a *)
(* lease, uses the hash, reports the outcome and may ask again.  lease()   *)
(* locks the state twice and calls the RPC node outside the lock, so its   *)
(* steps are the actions below, one for each stretch between two points at *)
(* which another task can run.                                             *)
(***************************************************************************)
EXTENDS Naturals, FiniteSets

CONSTANTS
    Tasks,          \* the workers of a layer
    RefreshEvery,   \* BlockhashPolicy.refresh_every, as configured
    MaxAge,         \* BlockhashPolicy.max_age in slots; 0 switches it off
    PreCheck,       \* pre_check of the manager and of the sender (!fast_send)
    ErAware,        \* the provider is ErAwareBlockhashProvider
    ValidFor,       \* slots for which the cluster accepts a blockhash
    Layers,         \* layers of the DAG
    MaxCalls,       \* lease calls of one task in one layer
    MaxSlot,        \* bound: the cluster stops producing slots here
    NoLease         \* current is None

RefreshReasons == {"Initial", "Manual", "LayerBoundary", "ValidationFailed"}
NoReason == "None"

\* A blockhash is named by the slot that produced it; Hash::default() is 0.
DefaultHash == 0

Lease == [hash : Nat, fetchedAt : Nat]
NilLease == [hash |-> DefaultHash, fetchedAt |-> 0]

\* struct BlockhashState
Cached == [lease : Lease, uses : Nat]

ASSUME TasksAssumption == IsFiniteSet(Tasks) /\ Tasks # {}
ASSUME PolicyAssumption ==
    /\ RefreshEvery \in Nat
    /\ MaxAge \in Nat
    /\ PreCheck \in BOOLEAN
    /\ ErAware \in BOOLEAN
ASSUME BoundsAssumption ==
    /\ ValidFor \in Nat
    /\ Layers \in Nat
    /\ MaxCalls \in Nat
    /\ MaxSlot \in Nat
ASSUME NoLeaseAssumption == NoLease \notin Cached

VARIABLES
    current,    \* BlockhashInner.current
    pending,    \* BlockhashInner.pending_refresh
    inFlight,   \* refresh_in_flight
    pc,         \* where each task is
    lease,      \* the lease each task is checking or using
    started,    \* fetch_lease's `now`, of the tasks that are fetching
    calls,      \* lease calls each task has made in this layer
    layer,      \* layer_index of the driver's loop
    slot,       \* the cluster's newest slot, also the clock
    boundary,   \* history: the slot of the last layer boundary
    failed,     \* history: a fetch failed since that boundary
    newest      \* history: fetchedAt of the last lease installed

managerVars == <<current, pending, inFlight>>
taskVars == <<pc, lease, started, calls>>
historyVars == <<boundary, failed, newest>>
vars == <<managerVars, taskVars, layer, slot, historyVars>>

PCs == {"idle", "decide", "cas", "fetch", "release", "wait", "issue",
        "check", "invalid", "held"}

Quota == IF RefreshEvery = 0 THEN 1 ELSE RefreshEvery

\* isBlockhashValid at the cluster: no hash is valid for ever, and the
\* default hash never was.
Valid(h) == h # DefaultHash /\ slot <= h + ValidFor

Goto(t, label) == pc' = [pc EXCEPT ![t] = label]

Init ==
    /\ current = NoLease
    /\ pending = "Initial"
    /\ inFlight = FALSE
    /\ pc = [t \in Tasks |-> "idle"]
    /\ lease = [t \in Tasks |-> NilLease]
    /\ started = [t \in Tasks |-> 0]
    /\ calls = [t \in Tasks |-> 0]
    /\ layer = 0
    /\ slot = 1
    /\ boundary = 0
    /\ failed = FALSE
    /\ newest = 0

-----------------------------------------------------------------------------
(***************************************************************************)
(* Faulty variants: each is one of the definitions below with a mistake    *)
(* the code could have contained.  No specification uses them; putting one *)
(* in the place of the original shows that a property can fail.            *)
(***************************************************************************)

\* The compare_exchange replaced by a plain store.
WinRefreshUnguarded(t) ==
    /\ pc[t] = "cas"
    /\ inFlight' = TRUE
    /\ started' = [started EXCEPT ![t] = slot]
    /\ Goto(t, "fetch")
    /\ UNCHANGED <<current, pending, lease, calls, layer, slot, historyVars>>

\* The error path returns without clearing the flag.
FetchErrKeepsFlag(t) ==
    /\ pc[t] = "fetch"
    /\ failed' = TRUE
    /\ started' = [started EXCEPT ![t] = 0]
    /\ Goto(t, "idle")
    /\ UNCHANGED <<managerVars, lease, calls, layer, slot, boundary, newest>>

\* `>` for `>=` in check_policy.
QuotaReachedLate(c) == c.uses > (IF RefreshEvery = 0 THEN 1 ELSE RefreshEvery)

\* The driver marks the boundary without joining the workers.
MarkLayerBoundaryUnjoined ==
    /\ layer < Layers
    /\ pending' = "LayerBoundary"
    /\ layer' = layer + 1
    /\ calls' = [t \in Tasks |-> 0]
    /\ boundary' = slot
    /\ failed' = FALSE
    /\ UNCHANGED <<current, inFlight, pc, lease, started, slot, newest>>

\* The driver's loop runs past the last layer.
MarkLayerBoundaryPastEnd ==
    /\ \A t \in Tasks : pc[t] = "idle"
    /\ pending' = "LayerBoundary"
    /\ layer' = layer + 1
    /\ calls' = [t \in Tasks |-> 0]
    /\ boundary' = slot
    /\ failed' = FALSE
    /\ UNCHANGED <<current, inFlight, pc, lease, started, slot, newest>>

-----------------------------------------------------------------------------
(* The callers: workers between two lease calls.                           *)

MayCall(t) ==
    /\ pc[t] = "idle"
    /\ layer < Layers
    /\ calls[t] < MaxCalls

\* A task calls lease(): directly, or because the router's BHFA call failed.
CallLease(t) ==
    /\ MayCall(t)
    /\ calls' = [calls EXCEPT ![t] = @ + 1]
    /\ Goto(t, "decide")
    /\ UNCHANGED <<managerVars, lease, started, layer, slot, historyVars>>

\* ErAwareBlockhashProvider::lease_for_intents when the router answers: the
\* manager neither sees nor counts this lease.
LeaseFromRouter(t) ==
    /\ ErAware
    /\ MayCall(t)
    /\ calls' = [calls EXCEPT ![t] = @ + 1]
    /\ \E h \in 1..slot :
          lease' = [lease EXCEPT ![t] = [hash |-> h, fetchedAt |-> slot]]
    /\ Goto(t, "held")
    /\ UNCHANGED <<managerVars, started, layer, slot, historyVars>>

\* The transaction was sent, or failed for a reason that is not reported:
\* record_outcome(Success) changes nothing.
Finish(t) ==
    /\ pc[t] = "held"
    /\ lease' = [lease EXCEPT ![t] = NilLease]
    /\ Goto(t, "idle")
    /\ UNCHANGED <<managerVars, started, calls, layer, slot, historyVars>>

\* The sender found the hash no longer valid ("stale blockhash; rebuild
\* required") and the worker records StaleDetected.  The manager does not
\* compare the lease with the current one.
ReportStale(t) ==
    /\ pc[t] = "held"
    /\ PreCheck
    /\ ~ Valid(lease[t].hash)
    /\ current' = NoLease
    /\ pending' = "Manual"
    /\ lease' = [lease EXCEPT ![t] = NilLease]
    /\ Goto(t, "idle")
    /\ UNCHANGED <<inFlight, started, calls, layer, slot, historyVars>>

-----------------------------------------------------------------------------
(* lease(), from the head of its loop.                                     *)

AgeExceeded(c) == MaxAge > 0 /\ slot > c.lease.fetchedAt + MaxAge
QuotaReached(c) == c.uses >= Quota

RefreshNeeded ==
    \/ pending # NoReason
    \/ current = NoLease
    \/ AgeExceeded(current)
    \/ QuotaReached(current)

\* First critical section: take the pending reason, or ask the policy.
Decide(t) ==
    /\ pc[t] = "decide"
    /\ pending' = NoReason
    /\ Goto(t, IF RefreshNeeded THEN "cas" ELSE "issue")
    /\ UNCHANGED <<current, inFlight, lease, started, calls, layer, slot,
                   historyVars>>

\* compare_exchange(false, true) succeeds and the fetch begins.
WinRefresh(t) ==
    /\ pc[t] = "cas"
    /\ ~ inFlight
    /\ inFlight' = TRUE
    /\ started' = [started EXCEPT ![t] = slot]
    /\ Goto(t, "fetch")
    /\ UNCHANGED <<current, pending, lease, calls, layer, slot, historyVars>>

\* The exchange fails: sleep 10 ms, then start over.  The reason this task
\* took is gone.
LoseRefresh(t) ==
    /\ pc[t] = "cas"
    /\ inFlight
    /\ Goto(t, "wait")
    /\ UNCHANGED <<managerVars, lease, started, calls, layer, slot,
                   historyVars>>

Wake(t) ==
    /\ pc[t] = "wait"
    /\ Goto(t, "decide")
    /\ UNCHANGED <<managerVars, lease, started, calls, layer, slot,
                   historyVars>>

\* getLatestBlockhash answered, with a hash the cluster had while the call
\* was out; the lease is installed and every pending reason is cleared.
FetchOk(t) ==
    /\ pc[t] = "fetch"
    /\ \E h \in started[t]..slot :
          current' = [lease |-> [hash |-> h, fetchedAt |-> started[t]],
                      uses |-> 0]
    /\ pending' = NoReason
    /\ newest' = started[t]
    /\ started' = [started EXCEPT ![t] = 0]
    /\ Goto(t, "release")
    /\ UNCHANGED <<inFlight, lease, calls, layer, slot, boundary, failed>>

\* getLatestBlockhash failed: clear the flag and return the error.
FetchErr(t) ==
    /\ pc[t] = "fetch"
    /\ inFlight' = FALSE
    /\ failed' = TRUE
    /\ started' = [started EXCEPT ![t] = 0]
    /\ Goto(t, "idle")
    /\ UNCHANGED <<current, pending, lease, calls, layer, slot, boundary,
                   newest>>

\* The flag is cleared after the state lock was released.
Release(t) ==
    /\ pc[t] = "release"
    /\ inFlight' = FALSE
    /\ Goto(t, "decide")
    /\ UNCHANGED <<current, pending, lease, started, calls, layer, slot,
                   historyVars>>

\* Second critical section: the cached lease is counted and handed out, or
\* checked first when it has been used before.
IssueCached(t) ==
    /\ pc[t] = "issue"
    /\ current # NoLease
    /\ current' = [current EXCEPT !.uses = @ + 1]
    /\ lease' = [lease EXCEPT ![t] = current.lease]
    /\ Goto(t, IF PreCheck /\ current.uses + 1 > 1 THEN "check" ELSE "held")
    /\ UNCHANGED <<pending, inFlight, started, calls, layer, slot, historyVars>>

\* Second critical section when another task has cleared the lease since the
\* first one: a refresh is requested, and a default lease is handed out.
IssueDefault(t) ==
    /\ pc[t] = "issue"
    /\ current = NoLease
    /\ pending' = "Initial"
    /\ lease' = [lease EXCEPT ![t] = [hash |-> DefaultHash, fetchedAt |-> slot]]
    /\ Goto(t, "held")
    /\ UNCHANGED <<current, inFlight, started, calls, layer, slot, historyVars>>

\* isBlockhashValid answers true: the lease is handed out.
CheckValid(t) ==
    /\ pc[t] = "check"
    /\ Valid(lease[t].hash)
    /\ Goto(t, "held")
    /\ UNCHANGED <<managerVars, lease, started, calls, layer, slot,
                   historyVars>>

\* It answers false: sleep 25 ms before the lease is dropped.
CheckInvalid(t) ==
    /\ pc[t] = "check"
    /\ ~ Valid(lease[t].hash)
    /\ lease' = [lease EXCEPT ![t] = NilLease]
    /\ Goto(t, "invalid")
    /\ UNCHANGED <<managerVars, started, calls, layer, slot, historyVars>>

\* The RPC call fails: return the error.
CheckErr(t) ==
    /\ pc[t] = "check"
    /\ lease' = [lease EXCEPT ![t] = NilLease]
    /\ Goto(t, "idle")
    /\ UNCHANGED <<managerVars, started, calls, layer, slot, historyVars>>

\* After the sleep: whatever lease is current by then is dropped.
DropInvalid(t) ==
    /\ pc[t] = "invalid"
    /\ current' = NoLease
    /\ pending' = "ValidationFailed"
    /\ Goto(t, "decide")
    /\ UNCHANGED <<inFlight, lease, started, calls, layer, slot, historyVars>>

-----------------------------------------------------------------------------
(* The driver and the cluster.                                             *)

\* send_layer_parallel has joined every worker: the loop of run_er_once marks
\* the boundary and goes on with the next layer.
MarkLayerBoundary ==
    /\ layer < Layers
    /\ \A t \in Tasks : pc[t] = "idle"
    /\ pending' = "LayerBoundary"
    /\ layer' = layer + 1
    /\ calls' = [t \in Tasks |-> 0]
    /\ boundary' = slot
    /\ failed' = FALSE
    /\ UNCHANGED <<current, inFlight, pc, lease, started, slot, newest>>

NewSlot ==
    /\ slot < MaxSlot
    /\ slot' = slot + 1
    /\ UNCHANGED <<managerVars, taskVars, layer, historyVars>>

\* The last layer is done: the run is over.
Terminated ==
    /\ layer = Layers
    /\ UNCHANGED vars

LeaseStep(t) ==
    \/ Decide(t) \/ WinRefresh(t) \/ LoseRefresh(t) \/ Wake(t)
    \/ FetchOk(t) \/ FetchErr(t) \/ Release(t)
    \/ IssueCached(t) \/ IssueDefault(t)
    \/ CheckValid(t) \/ CheckInvalid(t) \/ CheckErr(t) \/ DropInvalid(t)

UseStep(t) == Finish(t) \/ ReportStale(t)

TaskStep(t) == CallLease(t) \/ LeaseFromRouter(t) \/ LeaseStep(t) \/ UseStep(t)

Next ==
    \/ \E t \in Tasks : TaskStep(t)
    \/ MarkLayerBoundary
    \/ NewSlot
    \/ Terminated

Spec == Init /\ [][Next]_vars

\* The runtime polls every task that is ready, sleeps end, and an RPC call
\* ends within its client timeout; nothing is assumed of the answers, of new
\* calls or of new slots.
FairSpec == Spec /\ \A t \in Tasks : WF_vars(LeaseStep(t)) /\ WF_vars(UseStep(t))

-----------------------------------------------------------------------------
(* Correctness properties.                                                 *)

\* The manager's state, the tasks' locals and the histories have the types
\* that blockhash.rs declares for them.
TypeOK ==
    /\ current \in Cached \cup {NoLease}
    /\ pending \in RefreshReasons \cup {NoReason}
    /\ inFlight \in BOOLEAN
    /\ pc \in [Tasks -> PCs]
    /\ lease \in [Tasks -> Lease]
    /\ started \in [Tasks -> 0..slot]
    /\ calls \in [Tasks -> 0..MaxCalls]
    /\ layer \in 0..Layers
    /\ slot \in Nat \ {0}
    /\ boundary \in 0..slot
    /\ failed \in BOOLEAN
    /\ newest \in 0..slot

\* Between winning the exchange and clearing the flag.
Refreshing == {t \in Tasks : pc[t] \in {"fetch", "release"}}

\* "Coalesces concurrent refresh attempts so only one caller hits RPC at a
\* time": no two tasks are inside the refresh, and the flag is up exactly
\* while one is, so no exit path leaves it up behind it.
SingleFlight ==
    /\ \A t, u \in Refreshing : t = u
    /\ inFlight <=> Refreshing # {}

\* A lease is used at most refresh_every times, plus once for every other
\* task that passed the quota check before the uses were counted: check and
\* count are two critical sections of lease().
QuotaOvershoot ==
    current # NoLease => current.uses + 1 <= Quota + Cardinality(Tasks)

\* The reason set by mark_layer_boundary is consumed by the first task that
\* looks at it, whether or not that task wins the refresh, and is cleared by
\* any refresh that ends.  Still, as long as no fetch has failed since the
\* boundary, a lease from before it is never left in place with nobody about
\* to replace it.
BoundaryMarkNotLost ==
    (current # NoLease /\ current.lease.fetchedAt < boundary /\ ~ failed)
        => \/ pending # NoReason
           \/ \E t \in Tasks : pc[t] \in {"cas", "fetch"}

\* The branch of lease() that finds no lease says "Defensive: trigger refresh
\* path on next loop": a caller never gets the default hash.
NoDefaultLease ==
    \A t \in Tasks : pc[t] = "held" => lease[t].hash # DefaultHash

\* Every call of lease() returns, with a lease or with an error: losers of
\* the refresh race and tasks whose check failed do not loop for ever.
LeaseReturns ==
    \A t \in Tasks : pc[t] = "decide" ~> pc[t] \in {"held", "idle"}

=============================================================================

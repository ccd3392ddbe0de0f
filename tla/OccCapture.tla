----------------------------- MODULE OccCapture -----------------------------
(***************************************************************************)
(* capture_occ_with_retries (bundler/src/occ/mod.rs): a chunk's task reads *)
(* the accounts that the chunk touches, through RpcAccountFetcher          *)
(* (occ/rpc_fetcher.rs) or another AccountFetcher, until their slots are   *)
(* close enough or it gives up.  ChunkAttempt calls Start.                 *)
(***************************************************************************)
EXTENDS Integers, FiniteSets, FiniteSetsExt

CONSTANTS
    Tasks,        \* the tasks of a layer
    Accounts,
    MaxSlotDrift, \* OccConfig.max_slot_drift, which the fetcher is given too
    MaxRetries,   \* OccConfig.max_retries, which counts the first fetch
    MaxSlot       \* the last slot of the cluster's clock

\* What is asked of the constants; ChunkAttempt assumes it.
CaptureParameters ==
    /\ IsFiniteSet(Accounts)
    /\ MaxSlotDrift \in Nat /\ MaxRetries \in Nat /\ MaxSlot \in Nat

VARIABLES
    fetcher, \* "rpc" for RpcAccountFetcher, "other" for any AccountFetcher
    slot,    \* the newest slot of the cluster
    occ,     \* where each task is in its capture
    fetches, \* history: fetches begun for the chunk
    refused  \* history: the tasks that got an answer no retry can change

occVars == <<fetcher, slot, occ, fetches, refused>>

\* What a fetch may fail with: an account is missing from the answer, or the
\* text of the error says that access is denied or that there is no such
\* account, or it says something else.
Faults == {"missing", "unauthorized", "not_found", "transient"}

Errors == Faults \cup {"drift", "exhausted"}

Idle == [pc |-> "idle", targets |-> {}, attempt |-> 0, latest |-> 0,
         seen |-> <<>>, error |-> "none"]

OccInit ==
    /\ fetcher \in {"rpc", "other"}
    /\ slot \in 0..MaxSlot
    /\ occ = [t \in Tasks |-> Idle]
    /\ fetches = [t \in Tasks |-> 0]
    /\ refused = {}

-----------------------------------------------------------------------------
(* Faulty variants.                                                        *)

\* The attempt is compared before it is counted.
LastFetchLate(t) == occ[t].attempt > MaxRetries

-----------------------------------------------------------------------------

\* OccError::is_fatal
Fatal(error) == error \in {"missing", "unauthorized", "not_found", "exhausted"}

LastFetch(t) == occ[t].attempt >= MaxRetries

Drift(f) == LET slots == {f[a] : a \in DOMAIN f} IN Max(slots) - Min(slots)

\* fetch_many of the RPC fetcher begins with a look at the latest slot.
FirstCall == IF fetcher = "rpc" THEN "latest" ELSE "fetch"

Become(t, state) == occ' = [occ EXCEPT ![t] = state]

CountFetch(t) == fetches' = [fetches EXCEPT ![t] = @ + 1]

\* Without accounts there is nothing to fetch.
Start(t, accounts) ==
    /\ occ[t].pc = "idle"
    /\ IF accounts = {}
       THEN Become(t, [Idle EXCEPT !.pc = "ok"]) /\ UNCHANGED fetches
       ELSE /\ Become(t, [Idle EXCEPT !.pc = FirstCall, !.targets = accounts,
                                      !.attempt = 1])
            /\ CountFetch(t)
    /\ UNCHANGED <<fetcher, slot, refused>>

\* get_slot_with_commitment: any slot that the node which answers has seen.
ReadLatest(t) ==
    /\ occ[t].pc = "latest"
    /\ \E s \in 0..slot : Become(t, [occ[t] EXCEPT !.pc = "fetch", !.latest = s])
    /\ UNCHANGED <<fetcher, slot, fetches, refused>>

\* The slots that an answer may stamp the accounts with: the RPC fetcher
\* stamps all of them with the one slot of the response.
Answers(t) ==
    {f \in [occ[t].targets -> 0..slot] : fetcher = "rpc" => Drift(f) = 0}

\* The fetcher compares the response with the latest slot, but only to log it;
\* capture_with_targets compares the accounts with each other.
FetchMany(t) ==
    /\ occ[t].pc = "fetch"
    /\ \E f \in Answers(t) :
          Become(t,
              IF Drift(f) <= MaxSlotDrift
              THEN [occ[t] EXCEPT !.pc = "ok", !.seen = f]
              ELSE IF LastFetch(t)
                   THEN [occ[t] EXCEPT !.pc = "failed", !.error = "drift"]
                   ELSE [occ[t] EXCEPT !.pc = "backoff"])
    /\ UNCHANGED <<fetcher, slot, fetches, refused>>

FetchFails(t) ==
    /\ occ[t].pc \in {"latest", "fetch"}
    /\ \E e \in Faults :
          /\ e = "missing" => occ[t].pc = "fetch"
          /\ Become(t,
                IF Fatal(e)
                THEN [occ[t] EXCEPT !.pc = "failed", !.error = e]
                ELSE IF LastFetch(t)
                     THEN [occ[t] EXCEPT !.pc = "failed", !.error = "exhausted"]
                     ELSE [occ[t] EXCEPT !.pc = "backoff"])
          /\ refused' = IF e = "transient" THEN refused ELSE refused \cup {t}
    /\ UNCHANGED <<fetcher, slot, fetches>>

\* The sleep ends and the loop begins again.
Retry(t) ==
    /\ occ[t].pc = "backoff"
    /\ Become(t, [occ[t] EXCEPT !.pc = FirstCall, !.attempt = @ + 1])
    /\ CountFetch(t)
    /\ UNCHANGED <<fetcher, slot, refused>>

\* The clock of the cluster.
Tick ==
    /\ slot < MaxSlot
    /\ slot' = slot + 1
    /\ UNCHANGED <<fetcher, occ, fetches, refused>>

CaptureStep(t) == ReadLatest(t) \/ FetchMany(t) \/ FetchFails(t) \/ Retry(t)

-----------------------------------------------------------------------------
(* Correctness properties.                                                 *)

OccTypeOK ==
    /\ fetcher \in {"rpc", "other"}
    /\ slot \in 0..MaxSlot
    /\ \A t \in Tasks :
          /\ occ[t].pc \in {"idle", "latest", "fetch", "backoff", "ok", "failed"}
          /\ occ[t].targets \subseteq Accounts
          /\ occ[t].attempt \in Nat
          /\ occ[t].latest \in 0..MaxSlot
          /\ occ[t].seen = <<>> \/ occ[t].seen \in [occ[t].targets -> 0..MaxSlot]
          /\ occ[t].error \in Errors \cup {"none"}
    /\ fetches \in [Tasks -> Nat]
    /\ refused \subseteq Tasks

\* "If latest_slot - response_slot <= max_slot_drift, the capture is
\* "accepted"": no snapshot is accepted that is further behind the slot the
\* fetcher compared it with.
AcceptedSnapshotIsRecent ==
    \A t \in Tasks : occ[t].pc = "ok" =>
        \A a \in occ[t].targets : occ[t].latest - occ[t].seen[a] <= MaxSlotDrift

=============================================================================

---------------------------- MODULE ChunkAttempt ----------------------------
(***************************************************************************)
(* process_chunk_once (bundler/src/pipeline/rollup.rs) in detail, and the  *)
(* loop of process_chunk around it: a task captures its accounts, resolves *)
(* lookup tables, takes a blockhash, simulates with fees and sends.  What  *)
(* LayerPipeline has as single steps is here composed of OccCapture,       *)
(* AltManager and FeeSender, through whose shared state the tasks meet.    *)
(***************************************************************************)
EXTENDS Integers, Sequences, FiniteSets

CONSTANTS
    Tasks,
    Keys, Payer,
    Chunks,       \* the chunks to consider
    Layers,       \* layers of the run, each with one chunk per task
    MaxAttempts,  \* ParallelLayerConfig.max_attempts
    PerScope,     \* CuScope::PerScope
    MaxSlotDrift, MaxRetries, MaxSlot,
    Reserve, MaxAlt, IndexByte, Ttl, Catalogs,
    Quotes, Consumed, Slack, Percent, WindowCap, FeeOptions

\* The accounts of a chunk's instructions, and the accounts to capture: the
\* same, or those of a rollup settlement.
Chunk ==
    [metas : Seq([key : Keys, writable : BOOLEAN, signer : BOOLEAN]),
     targets : SUBSET Keys]

VARIABLES
    layer,
    plan,    \* the chunk that each task is given in each layer
    attempt,
    outcome, \* "running", "sent" or "failed"
    fetcher, slot, occ, fetches, refused,
    catalog, altCache, alt,
    feeOpts, window, ema, lastOutput, fee

Occ == INSTANCE OccCapture WITH Accounts <- Keys
Alt == INSTANCE AltManager WITH now <- slot
Fees == INSTANCE FeeSender

ASSUME AttemptAssumption ==
    /\ Chunks \subseteq Chunk
    /\ Layers \in Nat \ {0} /\ MaxAttempts \in Nat \ {0}
    /\ PerScope \in BOOLEAN
    /\ Occ!CaptureParameters /\ Alt!AltParameters /\ Fees!FeeParameters

taskVars == <<layer, plan, attempt, outcome>>
occVars == <<fetcher, slot, occ, fetches, refused>>
altVars == <<catalog, altCache, alt>>
feeVars == <<feeOpts, window, ema, lastOutput, fee>>
vars == <<taskVars, occVars, altVars, feeVars>>

Init ==
    /\ layer = 1
    /\ plan \in [Tasks -> [1..Layers -> Chunks]]
    /\ attempt = [t \in Tasks |-> 1]
    /\ outcome = [t \in Tasks |-> "running"]
    /\ Occ!OccInit /\ Alt!AltInit /\ Fees!FeeInit

Running(t) == outcome[t] = "running"

ChunkOf(t) == plan[t][layer]

-----------------------------------------------------------------------------
(* Faulty variant.                                                         *)

\* Every failure of the capture counts as a matter of luck.
RetriableCaptureAlways(error) == TRUE

-----------------------------------------------------------------------------
(* An attempt.                                                             *)

Capture(t) ==
    /\ Running(t)
    /\ Occ!Start(t, ChunkOf(t).targets) \/ Occ!CaptureStep(t)
    /\ UNCHANGED <<taskVars, altVars, feeVars>>

Resolve(t) ==
    /\ Running(t) /\ occ[t].pc = "ok"
    /\ Alt!ResolveStep(t, ChunkOf(t).metas)
    /\ UNCHANGED <<taskVars, occVars, feeVars>>

\* With a blockhash from the lease service or the rollup session.
PriceAndSimulate(t) ==
    /\ Running(t) /\ alt[t].pc = "resolved"
    /\ Fees!FeeStep(t)
    /\ UNCHANGED <<taskVars, occVars, altVars>>

\* The locals of the attempt go.
Drop(t) ==
    /\ occ' = [occ EXCEPT ![t] = Occ!Idle]
    /\ alt' = [alt EXCEPT ![t] = Alt!AltIdle]
    /\ fee' = [fee EXCEPT ![t] = Fees!FeeIdle]
    /\ UNCHANGED <<layer, plan, fetcher, slot, fetches, refused, catalog,
                   altCache, feeOpts, window, ema, lastOutput>>

\* The loop of process_chunk.
AttemptFails(t, retriable) ==
    /\ IF retriable /\ attempt[t] < MaxAttempts
       THEN attempt' = [attempt EXCEPT ![t] = @ + 1] /\ UNCHANGED outcome
       ELSE outcome' = [outcome EXCEPT ![t] = "failed"] /\ UNCHANGED attempt
    /\ Drop(t)

\* occ_error_to_chunk_error
RetriableCapture(error) == ~ Occ!Fatal(error)

CaptureFailed(t) ==
    /\ Running(t) /\ occ[t].pc = "failed"
    /\ AttemptFails(t, RetriableCapture(occ[t].error))

\* No blockhash.
LeaseFailed(t) ==
    /\ Running(t) /\ alt[t].pc = "resolved" /\ fee[t].pc = "idle"
    /\ \E retriable \in BOOLEAN : AttemptFails(t, retriable)

\* A failed simulation, check or submission; the text of the error tells
\* whether it is retriable.
SendFailed(t) ==
    /\ Running(t) /\ fee[t].pc \in {"failed", "ready"}
    /\ \E retriable \in BOOLEAN : AttemptFails(t, retriable)

\* The blocking task panicked; the join error has no transient marker.
SendPanicked(t) ==
    /\ Running(t) /\ fee[t].pc = "panicked"
    /\ AttemptFails(t, FALSE)

Sent(t) ==
    /\ Running(t) /\ fee[t].pc = "ready"
    /\ outcome' = [outcome EXCEPT ![t] = "sent"]
    /\ UNCHANGED attempt
    /\ Drop(t)

-----------------------------------------------------------------------------

\* When all of a layer have returned the driver goes on to the next, for which
\* start_scope may clear the window.
NextLayer ==
    /\ \A t \in Tasks : ~ Running(t)
    /\ layer < Layers
    /\ layer' = layer + 1
    /\ attempt' = [t \in Tasks |-> 1]
    /\ outcome' = [t \in Tasks |-> "running"]
    /\ window' = IF PerScope THEN <<>> ELSE window
    /\ fetches' = [t \in Tasks |-> 0]
    /\ refused' = {}
    /\ UNCHANGED <<plan, fetcher, slot, occ, altVars, feeOpts, ema, lastOutput, fee>>

Tick == Occ!Tick /\ UNCHANGED <<taskVars, altVars, feeVars>>

TaskStep(t) ==
    \/ Capture(t) \/ Resolve(t) \/ PriceAndSimulate(t)
    \/ CaptureFailed(t) \/ LeaseFailed(t) \/ SendFailed(t) \/ SendPanicked(t)
    \/ Sent(t)

Finished == (\A t \in Tasks : ~ Running(t)) /\ layer = Layers

Terminated == Finished /\ UNCHANGED vars

Next == (\E t \in Tasks : TaskStep(t)) \/ NextLayer \/ Tick \/ Terminated

Spec == Init /\ [][Next]_vars

-----------------------------------------------------------------------------
(* Correctness properties.                                                 *)

\* The types of the task's own state and of the components.
TypeOK ==
    /\ layer \in 1..Layers
    /\ plan \in [Tasks -> [1..Layers -> Chunks]]
    /\ attempt \in [Tasks -> 1..MaxAttempts]
    /\ outcome \in [Tasks -> {"running", "sent", "failed"}]
    /\ Occ!OccTypeOK /\ Alt!AltTypeOK /\ Fees!FeeTypeOK

\* The retries of the capture and those of the chunk multiply, and no more: a
\* chunk is fetched for max_retries times, at least once, in each attempt.
FetchesBounded ==
    \A t \in Tasks :
        fetches[t] <= attempt[t] * (IF MaxRetries = 0 THEN 1 ELSE MaxRetries)

\* "Fatal (do not retry)": once the node has refused a task, or an account does
\* not exist, neither loop asks again.
FatalIsFinal ==
    [][\A t \in Tasks :
          t \in refused /\ layer' = layer => fetches'[t] = fetches[t]]_vars

AcceptedSnapshotIsRecent == Occ!AcceptedSnapshotIsRecent

Metas == [t \in Tasks |-> ChunkOf(t).metas]
ResolutionIsOwn == Alt!ResolutionIsOwn(Metas)
OffloadIsSound == Alt!OffloadIsSound(Metas)

LimitCoversUse == Fees!LimitCoversUse
PriceHysteresis == Fees!PriceHysteresis

=============================================================================

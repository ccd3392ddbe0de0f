--------------------------- MODULE LayerPipeline ---------------------------
(***************************************************************************)
(* The sending of a rollup, layer by layer: the loop of run_er_once        *)
(* (bundler/examples/rollup_cli.rs), send_layer_parallel and process_chunk *)
(* (bundler/src/pipeline/rollup.rs), and what the sender                   *)
(* (bundler/src/sender.rs) submits to the RPC node.                        *)
(*                                                                         *)
(* A chunk is a plan of its layer and the task spawned for it.  A task     *)
(* goes through attempts; an attempt is the ER stage, which calls the      *)
(* router, then the stages behind the layer's semaphore: OCC snapshot,     *)
(* blockhash lease, and simulate-build-send.  Every action of a task is    *)
(* what happens between two awaits.                                        *)
(***************************************************************************)
EXTENDS Naturals, FiniteSets

CONSTANTS
    Layers,         \* number of layers
    Chunks,         \* the plans of all layers
    LayerOf,        \* the layer each plan belongs to
    Unmerged,       \* plans of each layer before merge_small_chunk_plans
    ErEligible,     \* plans that are neither below the CU threshold nor small
    MaxConcurrency, \* ParallelLayerConfig.max_concurrency, sanitised
    MaxAttempts,    \* ParallelLayerConfig.max_attempts, sanitised
    Options         \* the command lines to consider

\* ParallelLayerDeps.er, which run_er_once always gives and other callers may
\* leave out; --er-require; --dry-run; and not --fast-send.
OptionRecord ==
    [er : BOOLEAN, requireRouter : BOOLEAN, dryRun : BOOLEAN, preCheck : BOOLEAN]

ASSUME LayersAssumption == Layers \in Nat \ {0} /\ LayerOf \in [Chunks -> 1..Layers]
ASSUME ChunksAssumption == IsFiniteSet(Chunks) /\ ErEligible \subseteq Chunks
ASSUME UnmergedAssumption ==
    /\ Unmerged \in [1..Layers -> Nat]
    /\ \A k \in 1..Layers : Cardinality({c \in Chunks : LayerOf[c] = k}) <= Unmerged[k]
ASSUME ConfigAssumption ==
    /\ MaxConcurrency \in 1..64
    /\ MaxAttempts \in 1..8
    /\ Options \subseteq OptionRecord

VARIABLES
    opts,       \* the command line
    driver,     \* where run_er_once is
    layer,      \* the layer it sends, or sends next
    tally,      \* chunks it has counted, over all layers
    permits,    \* free permits of the layer's semaphore
    pc,         \* where each task is
    attempt,    \* attempts each task has begun
    prepared,   \* ErChunkMeta of the attempt: none, simulated or real
    result,     \* ChunkResult of each task
    routed,     \* attempts whose transaction the router accepted
    settled,    \* attempts whose settlement, as the session client returns
                \* it, the RPC node accepted
    original    \* attempts whose intents the RPC node accepted unexecuted

driverVars == <<opts, driver, layer, tally>>
taskVars == <<pc, attempt, prepared, result>>
ledgerVars == <<routed, settled, original>>
vars == <<driverVars, permits, taskVars, ledgerVars>>

Attempts == 1..MaxAttempts
PCs == {"queued", "attempt", "session", "execute", "acquire", "occ", "lease",
        "send", "backoff", "finished"}

\* Between acquire_owned and drop(permit).
HoldsPermit(c) == pc[c] \in {"occ", "lease", "send"}

\* AttemptStage of an error.
Stages == {"Occ", "Blockhash", "Send"}

NoResult == [outcome |-> "None"]
Success(n) == [outcome |-> "Success", attempts |-> n]
Failed(n, retriable, stage) ==
    [outcome |-> "Failed", attempts |-> n, retriable |-> retriable,
     stage |-> stage]
Results ==
    {NoResult} \cup {Success(n) : n \in Attempts}
        \cup {Failed(n, r, s) : n \in 0..MaxAttempts, r \in BOOLEAN, s \in Stages}

Plans(k) == {c \in Chunks : LayerOf[c] = k}

\* The driver sends a layer of one plan with a concurrency of one; it counts
\* the plans before send_layer_parallel merges some of them.
Concurrency(k) == IF Unmerged[k] <= 1 THEN 1 ELSE MaxConcurrency

NoAttempts == [c \in Chunks |-> {}]
Submitted(c) == settled[c] \cup original[c]

Init ==
    /\ opts \in Options
    /\ driver = "plan"
    /\ layer = 1
    /\ tally = [success |-> 0, failure |-> 0]
    /\ permits = 0
    /\ pc = [c \in Chunks |-> "queued"]
    /\ attempt = [c \in Chunks |-> 0]
    /\ prepared = [c \in Chunks |-> "none"]
    /\ result = [c \in Chunks |-> NoResult]
    /\ routed = NoAttempts
    /\ settled = NoAttempts
    /\ original = NoAttempts

Goto(c, label) == pc' = [pc EXCEPT ![c] = label]
Note(ledger, c) == [ledger EXCEPT ![c] = @ \cup {attempt[c]}]

-----------------------------------------------------------------------------
(* Faulty variants of the definitions below, used to show that a property  *)
(* can fail.                                                               *)

\* An early return before drop(permit), with a permit that does not release
\* itself.
ReleaseUnlessFailed(c) ==
    permits' = IF pc[c] = "send" THEN permits + 1 ELSE permits

\* `>` for `>=` in the test that ends the retries.
ExhaustedLate(c) == attempt[c] > MaxAttempts

\* The driver takes a task that sleeps before its retry for a finished one.
JoinedEarly == \A c \in Plans(layer) : pc[c] \in {"finished", "backoff"}

\* er_diag's flag instead of require_router: the fallback is always there.
MayFallBackAlways == TRUE

\* A retry keeps the state prepared for the attempt before.
BeginStale(c) ==
    /\ pc[c] = "attempt"
    /\ attempt' = [attempt EXCEPT ![c] = @ + 1]
    /\ UNCHANGED prepared
    /\ Goto(c, IF opts.er /\ c \in ErEligible /\ prepared[c] # "real"
               THEN "session" ELSE "acquire")
    /\ UNCHANGED <<driverVars, permits, result, ledgerVars>>

\* The report is taken for sent although the send was not made.
SendOkUnsent(c) ==
    /\ pc[c] = "send"
    /\ permits' = permits + 1
    /\ result' = [result EXCEPT ![c] = Success(attempt[c])]
    /\ Goto(c, "finished")
    /\ UNCHANGED <<driverVars, attempt, prepared, ledgerVars>>

\* A panicked task is logged but gets no result, so it is not counted.
CountedResults == {c \in Plans(layer) : result[c].attempts > 0}

-----------------------------------------------------------------------------
(* The driver.                                                             *)

\* chunk_layer_with succeeds, and send_layer_parallel spawns a task for each
\* plan with a semaphore of its own.
StartLayer ==
    /\ driver = "plan"
    /\ driver' = "join"
    /\ permits' = Concurrency(layer)
    /\ pc' = [c \in Chunks |-> IF LayerOf[c] = layer THEN "attempt" ELSE pc[c]]
    /\ UNCHANGED <<opts, layer, tally, attempt, prepared, result, ledgerVars>>

\* chunk_layer_with fails: the error ends the run.
PlanFails ==
    /\ driver = "plan"
    /\ driver' = "aborted"
    /\ UNCHANGED <<opts, layer, tally, permits, taskVars, ledgerVars>>

Joined == \A c \in Plans(layer) : pc[c] = "finished"

\* The results the layer's tally goes through.
Counted == Plans(layer)

\* Every handle is awaited, the results are counted, failures are logged, and
\* the loop goes on with the next layer whatever they were.
JoinLayer ==
    /\ driver = "join"
    /\ Joined
    /\ LET ok == {c \in Counted : result[c].outcome = "Success"}
       IN tally' = [success |-> tally.success + Cardinality(ok),
                    failure |-> tally.failure + Cardinality(Counted \ ok)]
    /\ driver' = IF layer < Layers THEN "plan" ELSE "done"
    /\ layer' = IF layer < Layers THEN layer + 1 ELSE layer
    /\ UNCHANGED <<opts, permits, taskVars, ledgerVars>>

-----------------------------------------------------------------------------
(* process_chunk and prepare_er_stage.                                     *)

\* A new attempt: what the last one prepared is gone.
Begin(c) ==
    /\ pc[c] = "attempt"
    /\ attempt' = [attempt EXCEPT ![c] = @ + 1]
    /\ prepared' = [prepared EXCEPT ![c] = "none"]
    /\ Goto(c, IF opts.er /\ c \in ErEligible THEN "session" ELSE "acquire")
    /\ UNCHANGED <<driverVars, permits, result, ledgerVars>>

\* simulate_on_failure is the command line's dry_run.
SimulateOnFailure == opts.dryRun
MayFallBack == ~ opts.requireRouter

Exhausted(c) == attempt[c] >= MaxAttempts

\* The end of a failed attempt: return, or sleep and try again.
EndAttempt(c, retriable, stage) ==
    IF ~ retriable \/ Exhausted(c)
    THEN /\ result' = [result EXCEPT ![c] = Failed(attempt[c], retriable, stage)]
         /\ Goto(c, "finished")
    ELSE /\ Goto(c, "backoff")
         /\ UNCHANGED result

\* prepare_chunk failed: a simulated session in a dry run, else the error
\* when the router is required, else the original intents.
ErFallback(c) ==
    \/ /\ SimulateOnFailure
       /\ prepared' = [prepared EXCEPT ![c] = "simulated"]
       /\ Goto(c, "acquire")
       /\ UNCHANGED result
    \/ /\ ~ SimulateOnFailure /\ MayFallBack
       /\ Goto(c, "acquire")
       /\ UNCHANGED <<prepared, result>>
    \/ /\ ~ SimulateOnFailure /\ ~ MayFallBack
       /\ EndAttempt(c, FALSE, "Send")
       /\ UNCHANGED prepared

SessionOk(c) ==
    /\ pc[c] = "session"
    /\ Goto(c, "execute")
    /\ UNCHANGED <<driverVars, permits, attempt, prepared, result, ledgerVars>>

SessionFails(c) ==
    /\ pc[c] = "session"
    /\ ErFallback(c)
    /\ UNCHANGED <<driverVars, permits, attempt, ledgerVars>>

\* The router accepted the transaction and said so; what goes on is the
\* settlement.
ExecuteOk(c) ==
    /\ pc[c] = "execute"
    /\ routed' = Note(routed, c)
    /\ prepared' = [prepared EXCEPT ![c] = "real"]
    /\ Goto(c, "acquire")
    /\ UNCHANGED <<driverVars, permits, attempt, result, settled, original>>

\* The router refused, or it accepted and the answer was lost.
ExecuteFails(c) ==
    /\ pc[c] = "execute"
    /\ routed' \in {routed, Note(routed, c)}
    /\ ErFallback(c)
    /\ UNCHANGED <<driverVars, permits, attempt, settled, original>>

Acquire(c) ==
    /\ pc[c] = "acquire"
    /\ permits > 0
    /\ permits' = permits - 1
    /\ Goto(c, "occ")
    /\ UNCHANGED <<driverVars, attempt, prepared, result, ledgerVars>>

\* Sleep of the backoff.
Wake(c) ==
    /\ pc[c] = "backoff"
    /\ Goto(c, "attempt")
    /\ UNCHANGED <<driverVars, permits, attempt, prepared, result, ledgerVars>>

-----------------------------------------------------------------------------
(* process_chunk_once, behind the semaphore.                               *)

\* drop(permit)
Release(c) == permits' = permits + 1

\* The snapshot was captured; resolving the lookup tables cannot fail.
OccOk(c) ==
    /\ pc[c] = "occ"
    /\ Goto(c, "lease")
    /\ UNCHANGED <<driverVars, permits, attempt, prepared, result, ledgerVars>>

\* A fatal or a retriable OccError, or the blocking task panicked.
OccFails(c) ==
    /\ pc[c] = "occ"
    /\ Release(c)
    /\ \E retriable \in BOOLEAN : EndAttempt(c, retriable, "Occ")
    /\ UNCHANGED <<driverVars, attempt, prepared, ledgerVars>>

\* The lease of the router's plan, or one from the blockhash provider.
LeaseOk(c) ==
    /\ pc[c] = "lease"
    /\ Goto(c, "send")
    /\ UNCHANGED <<driverVars, permits, attempt, prepared, result, ledgerVars>>

LeaseFails(c) ==
    /\ pc[c] = "lease"
    /\ prepared[c] # "real"
    /\ Release(c)
    /\ \E retriable \in BOOLEAN : EndAttempt(c, retriable, "Blockhash")
    /\ UNCHANGED <<driverVars, attempt, prepared, ledgerVars>>

\* sendTransaction reached the node, which accepted the transaction.
Submit(c) ==
    /\ IF prepared[c] = "real"
       THEN settled' = Note(settled, c) /\ UNCHANGED original
       ELSE original' = Note(original, c) /\ UNCHANGED settled
    /\ UNCHANGED routed

\* The report of the sender: simulated in a dry run, else submitted.  Nobody
\* waits for a confirmation.
SendOk(c) ==
    /\ pc[c] = "send"
    /\ Release(c)
    /\ result' = [result EXCEPT ![c] = Success(attempt[c])]
    /\ Goto(c, "finished")
    /\ IF opts.dryRun THEN UNCHANGED ledgerVars ELSE Submit(c)
    /\ UNCHANGED <<driverVars, attempt, prepared>>

\* The simulation or the send was refused, or the node was not reached.
SendFails(c) ==
    /\ pc[c] = "send"
    /\ Release(c)
    /\ \E retriable \in BOOLEAN : EndAttempt(c, retriable, "Send")
    /\ UNCHANGED <<driverVars, attempt, prepared, ledgerVars>>

\* The sender's own check finds the blockhash stale, which is always retried.
SendStale(c) ==
    /\ pc[c] = "send"
    /\ opts.preCheck /\ ~ opts.dryRun
    /\ Release(c)
    /\ EndAttempt(c, TRUE, "Send")
    /\ UNCHANGED <<driverVars, attempt, prepared, ledgerVars>>

\* The node accepted the transaction and the answer was lost; whether the
\* error is taken for transient depends on its text.
SendLost(c) ==
    /\ pc[c] = "send"
    /\ ~ opts.dryRun
    /\ Submit(c)
    /\ Release(c)
    /\ \E retriable \in BOOLEAN : EndAttempt(c, retriable, "Send")
    /\ UNCHANGED <<driverVars, attempt, prepared>>

\* The task panics; unwinding drops its permit, and the join reports a failure
\* with no attempts.  (Panics inside the blocking tasks are OccFails and
\* SendFails.)
Panic(c) ==
    /\ pc[c] \in {"session", "execute", "lease"}
    /\ permits' = IF HoldsPermit(c) THEN permits + 1 ELSE permits
    /\ result' = [result EXCEPT ![c] = Failed(0, FALSE, "Send")]
    /\ Goto(c, "finished")
    /\ routed' \in IF pc[c] = "execute" THEN {routed, Note(routed, c)} ELSE {routed}
    /\ UNCHANGED <<driverVars, attempt, prepared, settled, original>>

Terminated == driver \in {"done", "aborted"} /\ UNCHANGED vars

DriverStep == StartLayer \/ PlanFails \/ JoinLayer

TaskStep(c) ==
    \/ Begin(c) \/ SessionOk(c) \/ SessionFails(c)
    \/ ExecuteOk(c) \/ ExecuteFails(c) \/ Acquire(c) \/ Wake(c)
    \/ OccOk(c) \/ OccFails(c) \/ LeaseOk(c) \/ LeaseFails(c)
    \/ SendOk(c) \/ SendFails(c) \/ SendStale(c) \/ SendLost(c) \/ Panic(c)

Next ==
    \/ DriverStep
    \/ \E c \in Chunks : TaskStep(c)
    \/ Terminated

Spec == Init /\ [][Next]_vars

\* The runtime polls every task that is ready, RPC calls end within the
\* client's timeout and sleeps end; nothing is assumed of the answers.
FairSpec ==
    Spec /\ WF_vars(DriverStep) /\ \A c \in Chunks : WF_vars(TaskStep(c))

-----------------------------------------------------------------------------
(* Correctness properties.                                                 *)

\* The driver's locals, the semaphore, the tasks and the ledgers have their
\* types; no task begins more than max_attempts attempts.
TypeOK ==
    /\ opts \in Options
    /\ driver \in {"plan", "join", "done", "aborted"}
    /\ layer \in 1..Layers
    /\ tally \in [success : 0..Cardinality(Chunks), failure : 0..Cardinality(Chunks)]
    /\ permits \in 0..MaxConcurrency
    /\ pc \in [Chunks -> PCs]
    /\ attempt \in [Chunks -> 0..MaxAttempts]
    /\ prepared \in [Chunks -> {"none", "simulated", "real"}]
    /\ result \in [Chunks -> Results]
    /\ \A ledger \in {routed, settled, original} :
          ledger \in [Chunks -> SUBSET Attempts]

\* "Bounded concurrency" of send_layer_parallel: however an attempt behind the
\* semaphore ends, by success, by any error or by a panic, its permit comes
\* back exactly once; with no permit left over there is no task waiting for
\* ever.
PermitsConserved ==
    driver = "join" =>
        permits + Cardinality({c \in Chunks : HoldsPermit(c)}) = Concurrency(layer)

\* "Running layer-by-layer respects dependencies": a task runs only while the
\* driver joins its own layer, and when a layer has started, every plan of
\* the layers before it has its final result, retries included.
LayerBarrier ==
    \A c \in Chunks :
        /\ pc[c] \notin {"queued", "finished"} =>
              LayerOf[c] = layer /\ driver = "join"
        /\ pc[c] # "queued" =>
              \A d \in Chunks : LayerOf[d] < LayerOf[c] => result[d] # NoResult

\* Every plan of the layers joined so far is counted once, as a success or as
\* a failure.
EveryPlanCounted ==
    LET joined == IF driver = "done" THEN Layers ELSE layer - 1
    IN  tally.success + tally.failure =
            Cardinality({c \in Chunks : LayerOf[c] <= joined})

\* What the driver is told is what was done: a success has, unless the run is
\* a dry run, been accepted by the node in the attempt it names; a failure
\* that could have been retried has used every attempt; each task that is
\* finished, a panicked one too, has a result; and the driver's tally has
\* every one of them.
HonestResults ==
    /\ EveryPlanCounted
    /\ \A c \in Chunks :
          /\ pc[c] = "finished" <=> result[c] # NoResult
          /\ (result[c].outcome = "Success" /\ ~ opts.dryRun)
                => result[c].attempts \in Submitted(c)
          /\ (result[c].outcome = "Failed" /\ result[c].retriable)
                => result[c].attempts = MaxAttempts

\* require_router ("ER required but prepare_chunk failed", process_chunk_once):
\* whatever of a chunk that is to run on the rollup reaches the node, under
\* whatever name, does so in an attempt whose transaction the router had
\* accepted, whatever fails and however often it is retried.  The command
\* line's help of --er-require, the only source of the option, says that it is
\* "no longer enforced in this CLI"; the code enforces it.
RequiredRouterNeverBypassed ==
    (opts.er /\ opts.requireRouter) =>
        \A c \in ErEligible : Submitted(c) \subseteq routed[c]

\* A settlement is submitted only in an attempt in which the router accepted
\* the transaction it settles: no retry sends the settlement of an attempt
\* before it.
SettlementFollowsExecution == \A c \in Chunks : settled[c] \subseteq routed[c]

\* "Dry-run: simulate only, do not send" (the help of --dry-run): a dry run
\* has no effect on the cluster or on the rollup.
DryRunSendsNothing ==
    opts.dryRun => \A c \in Chunks : Submitted(c) = {} /\ routed[c] = {}

\* The run ends, with every layer joined or with a planning error: no failure,
\* retry, panic or wait for a permit holds it up for ever.
RunEnds == <>(driver \in {"done", "aborted"})

=============================================================================

----------------------------- MODULE SdkSubmit -----------------------------
(***************************************************************************)
(* The two submitters of the TypeScript SDK, sdk/packages/sdk/src/submit:  *)
(* L1Submitter (simulate, sign, send) and RouterSubmitter (sign once, post *)
(* the same bytes), each with its loop of attempts.  Whether a failure is  *)
(* tried again, and as what it is thrown, depends on the text of its       *)
(* message alone.                                                          *)
(*                                                                         *)
(* One step is what runs between two awaits.  A transaction stands for its *)
(* signature: signing the same message again gives the same one.           *)
(***************************************************************************)
EXTENDS Integers, FiniteSets

CONSTANTS
    Callers,
    HashLife,   \* how many ticks a blockhash is valid
    MaxTime

Lanes == {"l1", "router"}

\* SubmitOptions, with the defaults filled in.
SubmitOptionRecord == [lane : Lanes, skipPreflight : BOOLEAN, maxRetries : Nat]

ASSUME SubmitAssumption ==
    /\ HashLife \in Nat \ {0}
    /\ MaxTime \in Nat

VARIABLES
    now,        \* the cluster's time
    submission, \* by caller: what its call of submit does
    taken,      \* by caller: the copies that a lane took
    lost        \* by caller: the answer to a copy that was taken is lost

submitVars == <<submission, taken, lost>>

\* What the submitters tell apart in the text of an error: words for a
\* transient failure; "429" or "rate limit"; "blockhash" and "not found".
Texts == {"plain", "transient", "rate", "stale"}

Kinds == {"PreflightFailed", "RouterJsonRpc", "Network", "Other"}

NoTransaction == [hash |-> 0, limit |-> 0, price |-> 0]

NoSubmission ==
    [pc |-> "none", options |-> [lane |-> "l1", skipPreflight |-> FALSE, maxRetries |-> 0],
     tx |-> NoTransaction, attempts |-> 0, error |-> "none"]

SubmitInit ==
    /\ now = 0
    /\ submission = [c \in Callers |-> NoSubmission]
    /\ taken = [c \in Callers |-> {}]
    /\ lost = [c \in Callers |-> FALSE]

At(c, pc) == submission[c].pc = pc
OptionsOf(c) == submission[c].options
TxOf(c) == submission[c].tx

Expired(tx) == now >= tx.hash + HashLife

\* A copy that a lane took.
Copy(c) == [lane |-> OptionsOf(c).lane, tx |-> TxOf(c)]

Taken(c) == Copy(c) \in taken[c]

\* Where an attempt begins.
FirstStep(options) ==
    IF options.lane = "l1" /\ ~ options.skipPreflight THEN "simulate" ELSE "send"

-----------------------------------------------------------------------------
(* Faulty variants.                                                        *)

\* An attempt more than maxRetries is made.
IsLastAttemptLate(c) == submission[c].attempts > OptionsOf(c).maxRetries

-----------------------------------------------------------------------------
(* submit.                                                                 *)

\* With no attempts allowed the loop is not entered.
Begins(c, tx, options) ==
    submission' = [submission EXCEPT ![c] =
        IF options.maxRetries = 0
        THEN [pc |-> "failed", options |-> options, tx |-> tx,
              attempts |-> 0, error |-> "Other"]
        ELSE [pc |-> FirstStep(options), options |-> options, tx |-> tx,
              attempts |-> 1, error |-> "none"]]

\* isRetriable
Retriable(text) == text \in {"transient", "rate"}

\* L1Submitter.wrapError; the router's errors are thrown as they are.
Thrown(lane, kind, text) ==
    IF lane = "l1" /\ text = "stale" THEN "BlockhashStale"
    ELSE IF lane = "l1" /\ text = "rate" THEN "RpcRetriable"
    ELSE kind

IsLastAttempt(c) == submission[c].attempts >= OptionsOf(c).maxRetries

AttemptThrows(c, kind, text) ==
    submission' = [submission EXCEPT ![c] =
        IF Retriable(text) /\ ~ IsLastAttempt(c)
        THEN [@ EXCEPT !.pc = "backoff"]
        ELSE [@ EXCEPT !.pc = "failed",
                       !.error = Thrown(OptionsOf(c).lane, kind, text)]]

NextAttempt(c) ==
    /\ At(c, "backoff")
    /\ submission' = [submission EXCEPT ![c].pc = FirstStep(OptionsOf(c)),
                                        ![c].attempts = @ + 1]
    /\ UNCHANGED <<now, taken, lost>>

-----------------------------------------------------------------------------
(* The simulation before an attempt on L1.                                 *)

SimulationPasses(c) ==
    /\ At(c, "simulate")
    /\ ~ Expired(TxOf(c))
    /\ submission' = [submission EXCEPT ![c].pc = "send"]
    /\ UNCHANGED <<now, taken, lost>>

\* The node answers with an error of the transaction: the program's own, which
\* may hold the digits 429; the blockhash's, "BlockhashNotFound" in one word;
\* or that a copy was processed already.
SimulationRefuses(c) ==
    /\ At(c, "simulate")
    /\ \E text \in {"plain", "rate"} : AttemptThrows(c, "PreflightFailed", text)
    /\ UNCHANGED <<now, taken, lost>>

SimulationThrows(c) ==
    /\ At(c, "simulate")
    /\ \E text \in {"plain", "transient", "rate"} : AttemptThrows(c, "Other", text)
    /\ UNCHANGED <<now, taken, lost>>

-----------------------------------------------------------------------------
(* sendTransaction of the node or of the router.                           *)

\* A node that checks first takes no transaction whose blockhash has expired.
MayTake(c) == OptionsOf(c).skipPreflight \/ ~ Expired(TxOf(c))

Takes(c) == taken' = [taken EXCEPT ![c] = @ \cup {Copy(c)}]

\* A faulty variant: the signature is looked for in the wrong place.
SendSucceedsUnread(c) ==
    /\ At(c, "send") /\ MayTake(c)
    /\ Takes(c)
    /\ AttemptThrows(c, "Other", "plain")
    /\ UNCHANGED <<now, lost>>

SendSucceeds(c) ==
    /\ At(c, "send") /\ MayTake(c)
    /\ Takes(c)
    /\ submission' = [submission EXCEPT ![c].pc = "done"]
    /\ UNCHANGED <<now, lost>>

\* Which errors there are, by lane.  sendJsonRpc makes a NetworkError of
\* everything that happens under way, an HTTP status included.
SendErrors(lane) ==
    IF lane = "l1"
    THEN {<<"Other", text>> : text \in Texts}
    ELSE {<<"RouterJsonRpc", text>> : text \in Texts}
            \cup {<<"Network", text>> : text \in {"plain", "transient", "rate"}}

\* Nothing was taken.
SendRefused(c) ==
    /\ At(c, "send")
    /\ \E e \in SendErrors(OptionsOf(c).lane) : AttemptThrows(c, e[1], e[2])
    /\ UNCHANGED <<now, taken, lost>>

\* The transaction was taken and the answer is lost, or is the router's with
\* neither error nor signature.
SendLost(c) ==
    /\ At(c, "send") /\ MayTake(c)
    /\ Takes(c)
    /\ lost' = [lost EXCEPT ![c] = TRUE]
    /\ IF OptionsOf(c).lane = "l1"
       THEN \E text \in {"plain", "transient"} : AttemptThrows(c, "Other", text)
       ELSE \/ \E text \in {"plain", "transient"} : AttemptThrows(c, "Network", text)
            \/ AttemptThrows(c, "Other", "plain")
    /\ UNCHANGED now

SubmitStep(c) ==
    \/ NextAttempt(c)
    \/ SimulationPasses(c) \/ SimulationRefuses(c) \/ SimulationThrows(c)
    \/ SendSucceeds(c) \/ SendRefused(c) \/ SendLost(c)

\* Time passes for the blockhashes.
SubmitTick == now < MaxTime /\ now' = now + 1 /\ UNCHANGED submitVars

=============================================================================

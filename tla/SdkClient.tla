----------------------------- MODULE SdkClient -----------------------------
(***************************************************************************)
(* CpsrClient of the TypeScript SDK (sdk/packages/sdk/src/client.ts): a    *)
(* fee plan from RecentFeesPolicy (tx/fees.ts), whose smoothing state the  *)
(* concurrent builds of one client share, buildTransaction and             *)
(* buildAndTighten (tx/builder.ts), and the submission by the chosen lane. *)
(* A caller does as the SDK's README says: it calls buildAndSubmit again   *)
(* after a stale blockhash or a rate limit.                                *)
(***************************************************************************)
EXTENDS SdkSubmit

CONSTANTS
    Workloads,  \* what the callers ask for
    Samples,    \* percentiles of the recent fees; multiples of 2^MaxCalls
    MaxCalls,   \* times a caller calls buildAndSubmit
    MaxCuLimit, MinCuPrice, MaxCuPrice,
    EmaShare,   \* emaAlpha is 1 / EmaShare
    Hysteresis  \* hysteresisThreshold is 1 / Hysteresis

\* ClientBuildOptions, SubmitOptions, and of the intents the size of their
\* transaction and what it consumes, in thousands of CU.  No override is 0.
Request ==
    [cuPrice : Nat, cuLimit : Nat, tighten : BOOLEAN, submit : SubmitOptionRecord,
     bytes : Nat, use : Nat]

ASSUME ClientAssumption ==
    /\ Workloads \subseteq [Callers -> Request]
    /\ Samples \subseteq Nat \ {0}
    /\ MaxCalls \in Nat \ {0}
    /\ {MaxCuLimit, MinCuPrice, MaxCuPrice} \subseteq Nat /\ MinCuPrice <= MaxCuPrice
    /\ {EmaShare, Hysteresis} \subseteq Nat \ {0}

VARIABLES
    routerUrl,              \* whether the client is configured with one
    emaState, lastPrice,    \* RecentFeesPolicy; 0 is null
    request,    \* by caller: what it asks for
    pc,         \* by caller: which await of buildAndSubmit it is at
    plan,       \* by caller: feePlan and blockhash
    reported,   \* by caller: whether the node said what the simulation used
    calls       \* by caller: its calls so far

policyVars == <<routerUrl, emaState, lastPrice>>
callVars == <<request, pc, plan, reported, calls>>
vars == <<now, submitVars, policyVars, callVars>>

\* The margin of buildAndTighten, and what a node that reports no units is
\* taken to mean; in thousands of CU.
SafetyMarginCU == 10
UnreportedCU == 200

\* maxMessageSize, for the transaction with its signatures.
MaxMessageSize == 1232

Least(a, b) == IF a <= b THEN a ELSE b
Greatest(a, b) == IF a >= b THEN a ELSE b
Distance(a, b) == IF a <= b THEN b - a ELSE a - b

Init ==
    /\ SubmitInit
    /\ routerUrl \in BOOLEAN
    /\ emaState = 0 /\ lastPrice = 0
    /\ request \in Workloads
    /\ pc = [c \in Callers |-> "idle"]
    /\ plan = [c \in Callers |-> NoTransaction]
    /\ reported = [c \in Callers |-> FALSE]
    /\ calls = [c \in Callers |-> 0]

Goto(c, label) == pc' = [pc EXCEPT ![c] = label]

-----------------------------------------------------------------------------
(* Faulty variants.                                                        *)

\* What the caller asks for is taken as it is.
OverriddenUnclamped(c, p) ==
    [limit |-> IF request[c].cuLimit = 0 THEN p.limit ELSE request[c].cuLimit,
     price |-> IF request[c].cuPrice = 0 THEN p.price ELSE request[c].cuPrice]

\* Without a router the transaction goes to the node.
LaneOrNode(options) ==
    IF options.lane = "router" /\ ~ routerUrl
    THEN [options EXCEPT !.lane = "l1"] ELSE options

-----------------------------------------------------------------------------
(* RecentFeesPolicy.                                                       *)

\* clamp
Clamp(p) ==
    [limit |-> Least(p.limit, MaxCuLimit),
     price |-> Greatest(MinCuPrice, Least(p.price, MaxCuPrice))]

FallbackPlan == [limit |-> MaxCuLimit, price |-> MinCuPrice]

\* The samples are chosen so that the averages are whole.
Smoothed(raw) ==
    IF emaState = 0 THEN raw ELSE emaState + (raw - emaState) \div EmaShare

\* A change too small keeps the old price.
Steadied(raw) ==
    IF lastPrice # 0 /\ Distance(raw, lastPrice) * Hysteresis < lastPrice
    THEN lastPrice ELSE raw

\* build's plan: what the caller overrides, then clamp again.
Overridden(c, p) ==
    Clamp([limit |-> IF request[c].cuLimit = 0 THEN p.limit ELSE request[c].cuLimit,
           price |-> IF request[c].cuPrice = 0 THEN p.price ELSE request[c].cuPrice])

Proceed(c, p) ==
    /\ plan' = [plan EXCEPT ![c] = [hash |-> 0,
                                    limit |-> Overridden(c, p).limit,
                                    price |-> Overridden(c, p).price]]
    /\ Goto(c, "blockhash")

\* suggest asks for the recent fees.
Call(c) ==
    /\ pc[c] = "idle" /\ calls[c] < MaxCalls
    /\ calls' = [calls EXCEPT ![c] = @ + 1]
    /\ Goto(c, "fees")
    /\ UNCHANGED <<now, submitVars, policyVars, request, plan, reported>>

FeesArrive(c) ==
    /\ pc[c] = "fees"
    /\ \E raw \in Samples :
          LET price == Steadied(Smoothed(raw))
          IN  /\ emaState' = Smoothed(raw)
              /\ lastPrice' = price
              /\ Proceed(c, Clamp([limit |-> MaxCuLimit, price |-> price]))
    /\ UNCHANGED <<now, submitVars, routerUrl, request, reported, calls>>

\* No fees, none above zero, or an error that is not a rate limit.
NoFees(c) ==
    /\ pc[c] = "fees"
    /\ Proceed(c, FallbackPlan)
    /\ UNCHANGED <<now, submitVars, policyVars, request, reported, calls>>

\* buildAndSubmit throws before anything was submitted.
Throws(c, error) ==
    /\ Goto(c, "submitted")
    /\ submission' = [submission EXCEPT ![c] =
                        [NoSubmission EXCEPT !.pc = "failed", !.error = error]]
    /\ UNCHANGED <<now, taken, lost, policyVars, request, plan, reported, calls>>

FeesRateLimited(c) == pc[c] = "fees" /\ Throws(c, "RpcRetriable")

-----------------------------------------------------------------------------
(* buildTransaction and buildAndTighten.                                   *)

TooLarge(c) == request[c].bytes > MaxMessageSize

\* The blockhash is there and the transaction is built.
Built(c) ==
    /\ pc[c] = "blockhash" /\ ~ TooLarge(c)
    /\ plan' = [plan EXCEPT ![c].hash = now]
    /\ Goto(c, IF request[c].tighten THEN "estimate" ELSE "submit")
    /\ UNCHANGED <<now, submitVars, policyVars, request, reported, calls>>

\* No blockhash, no intents, or too many bytes.
NotBuilt(c) == pc[c] = "blockhash" /\ Throws(c, "Other")

\* ceil((used + margin) * 1.2), within the plan's own limit.
Tightened(used, limit) == Least(((used + SafetyMarginCU) * 6 + 4) \div 5, limit)

\* The simulation ran with the plan's limit, so that it used no more.
Estimated(c) ==
    /\ pc[c] = "estimate"
    /\ request[c].use <= plan[c].limit
    /\ \E r \in BOOLEAN :
          /\ reported' = [reported EXCEPT ![c] = r]
          /\ plan' = [plan EXCEPT ![c].limit =
                        Tightened(IF r THEN request[c].use ELSE UnreportedCU, @)]
    /\ Goto(c, "submit")
    /\ UNCHANGED <<now, submitVars, policyVars, request, calls>>

NotEstimated(c) == pc[c] = "estimate" /\ Throws(c, "Other")

-----------------------------------------------------------------------------
(* submit, and what the caller makes of it.                                *)

Lane(options) == options

Submit(c) ==
    /\ pc[c] = "submit"
    /\ LET options == Lane(request[c].submit)
       IN  /\ options.lane = "router" => routerUrl
           /\ Begins(c, plan[c], options)
    /\ Goto(c, "submitted")
    /\ UNCHANGED <<now, taken, lost, policyVars, request, plan, reported, calls>>

NoRouter(c) ==
    /\ pc[c] = "submit"
    /\ Lane(request[c].submit).lane = "router" /\ ~ routerUrl
    /\ Throws(c, "Other")

\* The caller tries again after the errors the README names for it.  What the
\* call held is gone when it returns.
Returns(c) ==
    /\ pc[c] = "submitted"
    /\ submission[c].pc \in {"done", "failed"}
    /\ Goto(c, IF /\ submission[c].error \in {"BlockhashStale", "RpcRetriable"}
                  /\ calls[c] < MaxCalls
               THEN "idle" ELSE "over")
    /\ submission' = [submission EXCEPT ![c] = NoSubmission]
    /\ plan' = [plan EXCEPT ![c] = NoTransaction]
    /\ reported' = [reported EXCEPT ![c] = FALSE]
    /\ UNCHANGED <<now, taken, lost, policyVars, request, calls>>

CallerStep(c) ==
    \/ Call(c) \/ FeesArrive(c) \/ NoFees(c) \/ FeesRateLimited(c)
    \/ Built(c) \/ NotBuilt(c) \/ Estimated(c) \/ NotEstimated(c)
    \/ Submit(c) \/ NoRouter(c) \/ Returns(c)
    \/ SubmitStep(c) /\ UNCHANGED <<policyVars, callVars>>

Tick == SubmitTick /\ UNCHANGED <<policyVars, callVars>>

Terminated == (\A c \in Callers : pc[c] = "over") /\ now = MaxTime /\ UNCHANGED vars

Next == (\E c \in Callers : CallerStep(c)) \/ Tick \/ Terminated

Spec == Init /\ [][Next]_vars

-----------------------------------------------------------------------------
(* Properties.                                                             *)

Transaction == [hash : 0 .. MaxTime, limit : Nat, price : Nat]

\* The state keeps its types, and an attempt is never one too many.
TypeOK ==
    /\ now \in 0 .. MaxTime
    /\ routerUrl \in BOOLEAN /\ emaState \in Nat /\ lastPrice \in Nat
    /\ request \in Workloads
    /\ pc \in [Callers -> {"idle", "fees", "blockhash", "estimate", "submit",
                           "submitted", "over"}]
    /\ plan \in [Callers -> Transaction]
    /\ reported \in [Callers -> BOOLEAN] /\ calls \in [Callers -> 0 .. MaxCalls]
    /\ \A c \in Callers :
          /\ submission[c].pc \in
                {"none", "simulate", "send", "backoff", "done", "failed"}
          /\ submission[c].error \in
                Kinds \cup {"none", "BlockhashStale", "RpcRetriable"}
          /\ OptionsOf(c) \in SubmitOptionRecord /\ TxOf(c) \in Transaction
          /\ submission[c].attempts \in 0 .. OptionsOf(c).maxRetries
          /\ taken[c] \subseteq [lane : Lanes, tx : Transaction]
    /\ lost \in [Callers -> BOOLEAN]

\* A SubmitResult is about the transaction this call built, which the lane the
\* caller asked for has taken, and only lanes that are configured take any.
HonestReceipt ==
    \A c \in Callers :
        /\ At(c, "done") =>
              [lane |-> request[c].submit.lane, tx |-> plan[c]] \in taken[c]
        /\ \A copy \in taken[c] :
              copy.lane = request[c].submit.lane /\ (copy.lane = "router" => routerUrl)

\* Unless an answer was lost, an error means that nothing was taken, so that
\* calling again after a stale blockhash or a rate limit sends nothing twice:
\* at most one transaction of a caller is ever taken.
NoDuplicateWithoutLoss ==
    \A c \in Callers :
        ~ lost[c] => /\ At(c, "failed") => taken[c] = {}
                     /\ \A a, b \in taken[c] : a = b

\* Whatever other builds do to the smoothing state, and whatever the caller
\* overrides, a transaction that is submitted has a price and a limit within
\* the policy's bounds; and one that was tightened to what the simulation
\* reported may use that much.
PlanCoversUse ==
    \A c \in Callers :
        \A copy \in taken[c] \cup (IF TxOf(c) = NoTransaction THEN {} ELSE {Copy(c)}) :
            /\ copy.tx.price \in MinCuPrice .. MaxCuPrice
            /\ copy.tx.limit <= MaxCuLimit
            /\ request[c].tighten /\ reported[c] /\ copy.tx = TxOf(c)
                  => request[c].use <= copy.tx.limit

=============================================================================

------------------------------ MODULE ErClient ------------------------------
(***************************************************************************)
(* The session client of the Magic Router, ErHttpClientInner               *)
(* (bundler/src/er/mod.rs), as the tasks of a layer use it through         *)
(* prepare_chunk (bundler/src/pipeline/rollup.rs): begin_session, then     *)
(* execute.  The tasks share the circuit breaker, the cached route and the *)
(* flag that the router's blockhash service is degraded.                   *)
(*                                                                         *)
(* Each request of a task goes through post_json: a look at the breaker,   *)
(* the attempts of send_with_retries, the accounting at the breaker.  What *)
(* is done with the answer is a step of its own.                           *)
(***************************************************************************)
EXTENDS Naturals, FiniteSets

CONSTANTS
    Tasks,      \* the tasks of a layer
    Rounds,     \* sessions that each task begins, one per attempt
    Retries,    \* ErClientConfig.retries
    Threshold,  \* circuit_breaker_failures; zero turns the breaker off
    Cooldown,   \* circuit_breaker_cooldown, at least 100 ms
    RouteTtl,   \* route_cache_ttl
    MaxTime,    \* the last time of the clock
    Options     \* the configurations to consider

\* endpoint_override: none, a host of the router's origin, or another host;
\* require_router; skip_preflight_on_override.
OptionRecord ==
    [override : {"none", "router", "other"}, require : BOOLEAN, skip : BOOLEAN]

ASSUME ClientAssumption ==
    /\ Rounds \in Nat /\ Retries \in Nat /\ Threshold \in Nat
    /\ Cooldown \in Nat \ {0} /\ RouteTtl \in Nat /\ MaxTime \in Nat
    /\ Options \subseteq OptionRecord

VARIABLES
    opts,       \* the configuration
    now,        \* Instant::now()
    circuit,    \* CircuitState; `until` is zero for None
    degraded,   \* router_bhfa_degraded
    route,      \* when the cached route expires, zero for no route
    pc,         \* where each task is
    call,       \* the request it makes
    tries,      \* attempts made at it
    answer,     \* what post_json returned
    plan,       \* the host that the session's blockhash comes from
    outcome,    \* what execute returned: final_submit_host, or failed
    round,      \* sessions the task has begun
    accepted,   \* history: hosts that accepted the session's transaction
    streak      \* history: requests to the router failed since one succeeded

sharedVars == <<opts, now, degraded, route>>
sessionVars == <<plan, outcome, round>>
breakerVars == <<circuit, streak>>
requestVars == <<call, tries, answer>>
vars == <<sharedVars, breakerVars, pc, requestVars, sessionVars, accepted>>

Calls == {"getRoutes", "bhfa", "bhfaOverride", "simulate", "send", "parity"}
Hosts == {"router", "other"}
Closed == [failures |-> 0, until |-> 0]

HasOverride == opts.override # "none"

\* resolve_hosts, with same_origin: the host that transactions go to.
SubmitHost == IF opts.override = "other" THEN "other" ELSE "router"

Submits(t) == call[t] \in {"send", "parity"}

HostOf(c) == IF c \in {"getRoutes", "bhfa", "parity"} THEN "router" ELSE SubmitHost

Init ==
    /\ opts \in Options
    /\ now = 0
    /\ circuit = Closed
    /\ degraded = FALSE
    /\ route = 0
    /\ pc = [t \in Tasks |-> "idle"]
    /\ call = [t \in Tasks |-> "getRoutes"]
    /\ tries = [t \in Tasks |-> 0]
    /\ answer = [t \in Tasks |-> "none"]
    /\ plan = [t \in Tasks |-> "none"]
    /\ outcome = [t \in Tasks |-> "none"]
    /\ round = [t \in Tasks |-> 0]
    /\ accepted = [t \in Tasks |-> {}]
    /\ streak = 0

Goto(t, label) == pc' = [pc EXCEPT ![t] = label]

\* post_json begins.
Request(t, c) ==
    /\ Goto(t, "check")
    /\ call' = [call EXCEPT ![t] = c]
    /\ tries' = [tries EXCEPT ![t] = 0]
    /\ answer' = [answer EXCEPT ![t] = "none"]

\* prepare_chunk ends.
Return(t, result) ==
    /\ Goto(t, "idle")
    /\ outcome' = [outcome EXCEPT ![t] = result]
    /\ UNCHANGED requestVars

Tripped == circuit.until > now

\* record_failure: the breaker opens, or stays open for longer.
WithFailure ==
    LET failures == circuit.failures + 1
    IN  [failures |-> failures,
         until |-> IF failures >= Threshold THEN now + Cooldown ELSE circuit.until]

\* should_apply_circuit
AppliesCircuit(t) == Threshold > 0 /\ HostOf(call[t]) = "router"

-----------------------------------------------------------------------------
(* Faulty variants.                                                        *)

\* is_tripped forgets to look at the time.
TrippedForever == circuit.until > 0

\* decide_submit_policy does not ask where the blockhash comes from.
MayRetryAtRouterAlways(t) == SubmitHost # "router"

\* The fallback does not look at require_router.
MayFallBackAlways == HasOverride

\* After the parity retry the first answer's host is reported.
ReportedHostFirst(t) == SubmitHost

\* `<=` for `<` in the test that another attempt is left.
MayResendLate(t) == tries[t] <= Retries + 1

\* The parity retry is itself retried.
NeedsParityRetryAgain(t) ==
    answer[t] = "parity" /\ SubmitHost # "router" /\ plan[t] = "router"

\* A success closes the breaker only if it is open.
AccountSticky(t) ==
    /\ pc[t] = "account"
    /\ IF answer[t] = "failed"
       THEN circuit' = WithFailure /\ streak' = streak + 1
       ELSE /\ circuit' = IF circuit.until > 0 THEN Closed ELSE circuit
            /\ streak' = 0
    /\ Goto(t, "answered")
    /\ UNCHANGED <<sharedVars, requestVars, sessionVars, accepted>>

-----------------------------------------------------------------------------
(* begin_session.                                                          *)

\* The degraded flag is cleared for all; with an override there is no route
\* to resolve.
BeginSession(t) ==
    /\ pc[t] = "idle" /\ round[t] < Rounds
    /\ round' = [round EXCEPT ![t] = @ + 1]
    /\ plan' = [plan EXCEPT ![t] = "none"]
    /\ outcome' = [outcome EXCEPT ![t] = "none"]
    /\ accepted' = [accepted EXCEPT ![t] = {}]
    /\ degraded' = FALSE
    /\ Goto(t, IF HasOverride THEN "begun" ELSE "route")
    /\ UNCHANGED <<opts, now, route, breakerVars, requestVars>>

\* cached_route drops a route that has expired.
UseCachedRoute(t) ==
    /\ pc[t] = "route" /\ route > now
    /\ Goto(t, "begun")
    /\ UNCHANGED <<sharedVars, breakerVars, requestVars, sessionVars, accepted>>

FetchRoute(t) ==
    /\ pc[t] = "route" /\ route <= now
    /\ route' = 0
    /\ Request(t, "getRoutes")
    /\ UNCHANGED <<opts, now, degraded, breakerVars, sessionVars, accepted>>

\* The router chooses how long a route lives, up to route_cache_ttl.
RouteArrives(t) ==
    /\ pc[t] = "answered" /\ call[t] = "getRoutes"
    /\ IF answer[t] = "result"
       THEN /\ \E ttl \in 0..RouteTtl : route' = now + ttl
            /\ Goto(t, "begun")
            /\ UNCHANGED <<requestVars, outcome>>
       ELSE Return(t, "failed") /\ UNCHANGED route
    /\ UNCHANGED <<opts, now, degraded, breakerVars, plan, round, accepted>>

-----------------------------------------------------------------------------
(* execute.                                                                *)

MayFallBack == HasOverride /\ ~ opts.require

\* attempt_router
Execute(t) ==
    /\ pc[t] = "begun"
    /\ Request(t, IF opts.require \/ ~ HasOverride \/ ~ degraded
                  THEN "bhfa" ELSE "bhfaOverride")
    /\ UNCHANGED <<sharedVars, breakerVars, sessionVars, accepted>>

\* SubmitPolicy::OverrideThenRouterParityRetry; RouterNoPreflight is that the
\* submit host is the router's, and RpcSimulateThenSend is all the rest.
MayRetryAtRouter(t) == SubmitHost # "router" /\ plan[t] = "router"

Simulates(t, source) ==
    SubmitHost # "router" /\ ~ (source = "router" /\ opts.skip)

\* The transaction is built on the blockhash, which fails if the payer's
\* signature does not do, then simulated or sent.
Submit(t, source) ==
    /\ plan' = [plan EXCEPT ![t] = source]
    /\ \/ /\ Request(t, IF Simulates(t, source) THEN "simulate" ELSE "send")
          /\ UNCHANGED outcome
       \/ Return(t, "failed")

\* fetch_blockhash_for_accounts_at: the answer has a blockhash.
HasBlockhash(t) == answer[t] = "result"

\* BHFA via the router, then via the override unless the router is required.
RouterBlockhash(t) ==
    /\ pc[t] = "answered" /\ call[t] = "bhfa"
    /\ \/ /\ HasBlockhash(t)
          /\ degraded' = FALSE
          /\ Submit(t, "router")
       \/ /\ ~ HasBlockhash(t) /\ MayFallBack
          /\ degraded' = TRUE
          /\ Request(t, "bhfaOverride")
          /\ UNCHANGED <<plan, outcome>>
       \/ /\ ~ HasBlockhash(t) /\ ~ MayFallBack
          /\ Return(t, "failed")
          /\ UNCHANGED <<degraded, plan>>
    /\ UNCHANGED <<opts, now, route, breakerVars, round, accepted>>

OverrideBlockhash(t) ==
    /\ pc[t] = "answered" /\ call[t] = "bhfaOverride"
    /\ IF HasBlockhash(t)
       THEN Submit(t, SubmitHost)
       ELSE Return(t, "failed") /\ UNCHANGED plan
    /\ UNCHANGED <<sharedVars, breakerVars, round, accepted>>

Simulated(t) ==
    /\ pc[t] = "answered" /\ call[t] = "simulate"
    /\ IF answer[t] = "result"
       THEN Request(t, "send") /\ UNCHANGED outcome
       ELSE Return(t, "failed")
    /\ UNCHANGED <<sharedVars, breakerVars, plan, round, accepted>>

\* resolved_submit_host
ReportedHost(t) == HostOf(call[t])

\* "parity" is an error that is_blockhash_domain_error knows.
NeedsParityRetry(t) ==
    call[t] = "send" /\ answer[t] = "parity" /\ MayRetryAtRouter(t)

Sent(t) ==
    /\ pc[t] = "answered" /\ Submits(t)
    /\ \/ answer[t] = "result" /\ Return(t, ReportedHost(t))
       \/ NeedsParityRetry(t) /\ Request(t, "parity") /\ UNCHANGED outcome
       \/ answer[t] # "result" /\ ~ NeedsParityRetry(t) /\ Return(t, "failed")
    /\ UNCHANGED <<sharedVars, breakerVars, plan, round, accepted>>

-----------------------------------------------------------------------------
(* post_json and send_with_retries.                                        *)

\* An open breaker refuses at once.
Refused(t) ==
    /\ pc[t] = "check" /\ AppliesCircuit(t) /\ Tripped
    /\ answer' = [answer EXCEPT ![t] = "failed"]
    /\ Goto(t, "answered")
    /\ UNCHANGED <<sharedVars, breakerVars, call, tries, sessionVars, accepted>>

\* A breaker whose time is up is closed by the next request.
Admitted(t) ==
    /\ pc[t] = "check" /\ ~ (AppliesCircuit(t) /\ Tripped)
    /\ circuit' = IF AppliesCircuit(t) /\ circuit.until > 0 THEN Closed ELSE circuit
    /\ tries' = [tries EXCEPT ![t] = 1]
    /\ Goto(t, "wire")
    /\ UNCHANGED <<sharedVars, streak, call, answer, sessionVars, accepted>>

AfterWire(t) == Goto(t, IF AppliesCircuit(t) THEN "account" ELSE "answered")

\* The host has taken the transaction.
Accept(t) == accepted' = [accepted EXCEPT ![t] = @ \cup {HostOf(call[t])}]

\* A host may take a transaction although its answer is lost.
MayAccept(t) ==
    \/ UNCHANGED accepted
    \/ Submits(t) /\ Accept(t)

\* A JSON-RPC error that is not retried is an answer.
Answered(t) ==
    /\ pc[t] = "wire"
    /\ \E a \in {"result", "parity", "error"} :
          /\ a = "parity" => Submits(t)
          /\ answer' = [answer EXCEPT ![t] = a]
          /\ IF a = "result" /\ Submits(t)
             THEN Accept(t) ELSE UNCHANGED accepted
    /\ AfterWire(t)
    /\ UNCHANGED <<sharedVars, breakerVars, call, tries, sessionVars>>

MayResend(t) == tries[t] <= Retries

\* Timeouts, server errors and most JSON-RPC errors are tried again.
Resend(t) ==
    /\ pc[t] = "wire"
    /\ MayResend(t)
    /\ MayAccept(t)
    /\ tries' = [tries EXCEPT ![t] = @ + 1]
    /\ UNCHANGED <<sharedVars, breakerVars, pc, call, answer, sessionVars>>

\* The last attempt failed, or a body could not be read.
GiveUp(t) ==
    /\ pc[t] = "wire"
    /\ MayAccept(t)
    /\ answer' = [answer EXCEPT ![t] = "failed"]
    /\ AfterWire(t)
    /\ UNCHANGED <<sharedVars, breakerVars, call, tries, sessionVars>>

\* record_failure and reset, whichever request opened the breaker meanwhile.
Account(t) ==
    /\ pc[t] = "account"
    /\ IF answer[t] = "failed"
       THEN circuit' = WithFailure /\ streak' = streak + 1
       ELSE circuit' = Closed /\ streak' = 0
    /\ Goto(t, "answered")
    /\ UNCHANGED <<sharedVars, requestVars, sessionVars, accepted>>

-----------------------------------------------------------------------------
Tick ==
    /\ now < MaxTime
    /\ now' = now + 1
    /\ UNCHANGED <<opts, degraded, route, breakerVars, pc, requestVars,
                   sessionVars, accepted>>

TaskStep(t) ==
    \/ BeginSession(t) \/ UseCachedRoute(t) \/ FetchRoute(t) \/ RouteArrives(t)
    \/ Execute(t) \/ RouterBlockhash(t) \/ OverrideBlockhash(t)
    \/ Simulated(t) \/ Sent(t)
    \/ Refused(t) \/ Admitted(t) \/ Answered(t) \/ Resend(t) \/ GiveUp(t)
    \/ Account(t)

Terminated ==
    /\ now = MaxTime
    /\ \A t \in Tasks : pc[t] = "idle" /\ round[t] = Rounds
    /\ UNCHANGED vars

Next == Tick \/ (\E t \in Tasks : TaskStep(t)) \/ Terminated

Spec == Init /\ [][Next]_vars

\* The runtime polls ready tasks, sleeps end, and every request ends within
\* the client's timeout.
FairSpec == Spec /\ \A t \in Tasks : WF_vars(TaskStep(t))

-----------------------------------------------------------------------------
(* Correctness properties.                                                 *)

\* The shared state and the locals of the tasks have their types; no request
\* is tried more than retries + 1 times.
TypeOK ==
    /\ opts \in Options
    /\ now \in 0..MaxTime
    /\ circuit \in [failures : Nat, until : Nat]
    /\ degraded \in BOOLEAN
    /\ route \in Nat
    /\ pc \in [Tasks -> {"idle", "route", "begun", "check", "wire", "account",
                         "answered"}]
    /\ call \in [Tasks -> Calls]
    /\ tries \in [Tasks -> 0..(Retries + 1)]
    /\ answer \in [Tasks -> {"none", "result", "parity", "error", "failed"}]
    /\ plan \in [Tasks -> {"none"} \cup Hosts]
    /\ outcome \in [Tasks -> {"none", "failed"} \cup Hosts]
    /\ round \in [Tasks -> 0..Rounds]
    /\ accepted \in [Tasks -> SUBSET Hosts]
    /\ streak \in Nat

\* execute returns Ok only if the host it names as final_submit_host has
\* accepted the session's transaction, also after a parity retry at another
\* host.  (ExecuteOk of LayerPipeline rests on it.)
HonestOutput == \A t \in Tasks : outcome[t] \in Hosts => outcome[t] \in accepted[t]

\* "Used after BHFA sourced from the Router": whichever host a transaction is
\* first sent to and whatever is retried, the router only ever takes one that
\* is built on a blockhash of its own; and with require_router none is built on
\* another host's, whoever set the degraded flag in the meantime.
RouterGetsItsOwnHash ==
    \A t \in Tasks :
        /\ "router" \in accepted[t] => plan[t] = "router"
        /\ opts.require => plan[t] # "other"

\* The requests that an open breaker refused: no attempt was made at them.
RefusedTasks == {t \in Tasks : pc[t] = "answered" /\ tries[t] = 0}

PromisedBreaker ==
    INSTANCE Breaker WITH until <- circuit.until, refused <- RefusedTasks

\* The breaker that the sessions share keeps the promises of Breaker: it refuses
\* a request only within the cooldown after a failure, and only if `threshold`
\* requests failed with no success since, counted over all tasks and their
\* requests still in flight when it opened; a success that comes late closes it.
ImplementsBreaker == PromisedBreaker!Spec

\* Whatever fails, a session that was begun comes to its end.
SessionsReturn == \A t \in Tasks : pc[t] # "idle" ~> pc[t] = "idle"

=============================================================================

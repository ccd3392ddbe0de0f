--------------------------- MODULE ErClient_proofs ---------------------------
(***************************************************************************)
(* Proofs about ErClient, for any tasks, any number of sessions and        *)
(* retries, any thresholds and times, and any configurations.              *)
(***************************************************************************)
EXTENDS ErClient, TLAPS

-----------------------------------------------------------------------------
(* The invariant of a task, and of the breaker.                            *)

\* The phases of a request.
Requesting == {"check", "wire", "account", "answered"}

\* Requests at which a transaction exists: its blockhash has been chosen.
Building == {"simulate", "send", "parity"}

\* A request that was attempted has at least one attempt.
AttemptInv(t) ==
    /\ pc[t] = "check" => tries[t] = 0
    /\ pc[t] \in {"wire", "account"} => tries[t] >= 1

\* Where the session's blockhash comes from while a request is made, and that
\* nothing was sent before that is settled.
SourceInv(t) ==
    /\ call[t] = "bhfaOverride" => ~ opts.require
    /\ opts.require => plan[t] # "other"
    /\ (pc[t] \in Requesting /\ call[t] \in Building)
          => plan[t] \in {"router", SubmitHost}
    /\ (pc[t] \in Requesting /\ call[t] = "parity") => plan[t] = "router"
    /\ (pc[t] \in {"route", "begun"}
          \/ (pc[t] \in Requesting /\ ~ Submits(t))) => accepted[t] = {}
    /\ "router" \in accepted[t] => plan[t] = "router"

\* A result at a submission is the result of a host that took it.
OutputInv(t) ==
    /\ (pc[t] \in {"account", "answered"} /\ Submits(t) /\ answer[t] = "result")
          => HostOf(call[t]) \in accepted[t]
    /\ outcome[t] \in Hosts => outcome[t] \in accepted[t]

\* The invariant of a task.
TaskInv(t) == AttemptInv(t) /\ SourceInv(t) /\ OutputInv(t)

\* The breaker never counts more failures than there were since a success.
BreakerInv == circuit.failures <= streak

\* The inductive invariant.
IInv == TypeOK /\ BreakerInv /\ \A t \in Tasks : TaskInv(t)

\* A step of t changes nothing of another task's, nor the configuration.
Frame(t) ==
    /\ opts' = opts
    /\ \A u \in Tasks \ {t} :
          /\ pc'[u] = pc[u] /\ call'[u] = call[u] /\ tries'[u] = tries[u]
          /\ answer'[u] = answer[u] /\ plan'[u] = plan[u]
          /\ outcome'[u] = outcome[u] /\ accepted'[u] = accepted[u]

-----------------------------------------------------------------------------
(* Steps of a task.                                                        *)

\* begin_session touches no transaction, and starts from an empty ledger.
LEMMA SessionStep ==
    ASSUME TypeOK, NEW t \in Tasks, TaskInv(t),
           BeginSession(t) \/ UseCachedRoute(t) \/ FetchRoute(t) \/ RouteArrives(t)
    PROVE  TypeOK' /\ TaskInv(t)' /\ Frame(t) /\ UNCHANGED breakerVars
<1> USE ClientAssumption
    DEF TypeOK, Goto, sharedVars, breakerVars, requestVars, sessionVars
<1> USE DEF TaskInv, AttemptInv, SourceInv, OutputInv, Frame, Requesting,
            Building, Submits, SubmitHost, HostOf, Hosts, Calls
<1>1. CASE BeginSession(t)
  <2>1. \E label \in {"begun", "route"} : pc' = [pc EXCEPT ![t] = label]
    BY <1>1 DEF BeginSession
  <2>2. round[t] + 1 \in 0..Rounds
    BY <1>1 DEF BeginSession
  <2>3. TypeOK'
    BY <1>1, <2>1, <2>2 DEF BeginSession
  <2>4. Frame(t) /\ UNCHANGED breakerVars
    BY <1>1, <2>1 DEF BeginSession
  <2>5. TaskInv(t)'
    BY <1>1 DEF BeginSession
  <2>6. QED
    BY <2>3, <2>4, <2>5
<1>2. CASE UseCachedRoute(t)
  BY <1>2 DEF UseCachedRoute
<1>3. CASE FetchRoute(t)
  BY <1>3 DEF FetchRoute, Request
<1>4. CASE RouteArrives(t)
  <2>1. CASE answer[t] = "result"
    BY <1>4, <2>1 DEF RouteArrives
  <2>2. CASE answer[t] # "result"
    BY <1>4, <2>2 DEF RouteArrives, Return
  <2>3. QED
    BY <2>1, <2>2
<1>5. QED
  BY <1>1, <1>2, <1>3, <1>4

\* execute: the blockhash is chosen before the transaction is sent anywhere.
LEMMA ExecuteStep ==
    ASSUME TypeOK, NEW t \in Tasks, TaskInv(t),
           \/ Execute(t) \/ RouterBlockhash(t) \/ OverrideBlockhash(t)
           \/ Simulated(t) \/ Sent(t)
    PROVE  TypeOK' /\ TaskInv(t)' /\ Frame(t) /\ UNCHANGED breakerVars
<1> USE ClientAssumption
    DEF TypeOK, Goto, sharedVars, breakerVars, requestVars, sessionVars
<1> USE DEF TaskInv, AttemptInv, SourceInv, OutputInv, Frame, Requesting,
            Building, Submits, SubmitHost, HostOf, Hosts, Calls
<1>1. CASE Execute(t)
  BY <1>1 DEF Execute, Request
<1>2. CASE RouterBlockhash(t)
  <2>0. /\ degraded' \in BOOLEAN /\ accepted[t] = {}
        /\ UNCHANGED <<opts, now, route, breakerVars, round, accepted>>
    BY <1>2 DEF RouterBlockhash
  <2>1. CASE Submit(t, "router")
    <3>1. plan' = [plan EXCEPT ![t] = "router"]
      BY <2>1 DEF Submit
    <3>2. CASE /\ \E c \in {"simulate", "send"} : Request(t, c)
               /\ UNCHANGED outcome
      BY <2>0, <3>1, <3>2 DEF Request
    <3>3. CASE Return(t, "failed")
      BY <2>0, <3>1, <3>3 DEF Return
    <3>4. QED
      BY <2>1, <3>2, <3>3 DEF Submit
  <2>2. CASE MayFallBack /\ Request(t, "bhfaOverride") /\ UNCHANGED <<plan, outcome>>
    BY <2>0, <2>2 DEF MayFallBack, Request
  <2>3. CASE Return(t, "failed") /\ UNCHANGED <<degraded, plan>>
    BY <2>0, <2>3 DEF Return
  <2>4. QED
    BY <1>2, <2>1, <2>2, <2>3 DEF RouterBlockhash
<1>3. CASE OverrideBlockhash(t)
  <2>1. CASE Submit(t, SubmitHost)
    BY <1>3, <2>1 DEF OverrideBlockhash, Submit, Request, Return, Simulates
  <2>2. CASE Return(t, "failed") /\ UNCHANGED plan
    BY <1>3, <2>2 DEF OverrideBlockhash, Return
  <2>3. QED
    BY <1>3, <2>1, <2>2 DEF OverrideBlockhash
<1>4. CASE Simulated(t)
  BY <1>4 DEF Simulated, Request, Return
<1>5. CASE Sent(t)
  <2>1. CASE answer[t] = "result" /\ Return(t, ReportedHost(t))
    BY <1>5, <2>1 DEF Sent, Return, ReportedHost
  <2>2. CASE NeedsParityRetry(t) /\ Request(t, "parity") /\ UNCHANGED outcome
    BY <1>5, <2>2 DEF Sent, Request, NeedsParityRetry, MayRetryAtRouter
  <2>3. CASE Return(t, "failed")
    BY <1>5, <2>3 DEF Sent, Return
  <2>4. QED
    BY <1>5, <2>1, <2>2, <2>3 DEF Sent
<1>6. QED
  BY <1>1, <1>2, <1>3, <1>4, <1>5

\* post_json: an attempt is counted before it is made, and a result comes only
\* from a host that was asked.
LEMMA RequestStep ==
    ASSUME TypeOK, NEW t \in Tasks, TaskInv(t),
           \/ Refused(t) \/ Admitted(t) \/ Answered(t) \/ Resend(t) \/ GiveUp(t)
           \/ Account(t)
    PROVE  TypeOK' /\ TaskInv(t)' /\ Frame(t)
<1> USE ClientAssumption
    DEF TypeOK, Goto, sharedVars, breakerVars, requestVars, sessionVars
<1> USE DEF TaskInv, AttemptInv, SourceInv, OutputInv, Frame, Requesting,
            Building, Submits, SubmitHost, HostOf, Hosts, Calls
<1>1. CASE Refused(t)
  BY <1>1 DEF Refused
<1>2. CASE Admitted(t)
  BY <1>2 DEF Admitted, Closed
<1>3. CASE Answered(t)
  BY <1>3 DEF Answered, Accept, AfterWire
<1>4. CASE Resend(t)
  BY <1>4 DEF Resend, MayResend, MayAccept, Accept
<1>5. CASE GiveUp(t)
  BY <1>5 DEF GiveUp, MayAccept, Accept, AfterWire
<1>6. CASE Account(t)
  BY <1>6 DEF Account, WithFailure, Closed
<1>7. QED
  BY <1>1, <1>2, <1>3, <1>4, <1>5, <1>6

\* What the steps of a request do to the breaker.
LEMMA BreakerStep ==
    ASSUME TypeOK, BreakerInv, NEW t \in Tasks,
           \/ Refused(t) \/ Admitted(t) \/ Answered(t) \/ Resend(t) \/ GiveUp(t)
           \/ Account(t)
    PROVE  BreakerInv'
<1> USE DEF TypeOK, BreakerInv, breakerVars
<1>1. CASE Admitted(t)
  BY <1>1 DEF Admitted, Closed
<1>2. CASE Account(t)
  BY <1>2 DEF Account, WithFailure, Closed
<1>3. CASE Refused(t) \/ Answered(t) \/ Resend(t) \/ GiveUp(t)
  BY <1>3 DEF Refused, Answered, Resend, GiveUp
<1>4. QED
  BY <1>1, <1>2, <1>3

-----------------------------------------------------------------------------
(* The invariant.                                                          *)

\* The initial states satisfy it.
LEMMA InvInit == Init => IInv
<1> SUFFICES ASSUME Init
             PROVE  IInv
  OBVIOUS
<1> USE ClientAssumption DEF Init
<1>1. TypeOK
  <2>0. now \in 0..MaxTime /\ route \in Nat /\ streak \in Nat
    OBVIOUS
  <2>1. opts \in Options /\ degraded \in BOOLEAN
    OBVIOUS
  <2>2. circuit \in [failures : Nat, until : Nat]
    BY DEF Closed
  <2>3. 0 \in 0..(Retries + 1) /\ 0 \in 0..Rounds
    OBVIOUS
  <2>4. /\ tries \in [Tasks -> 0..(Retries + 1)]
        /\ round \in [Tasks -> 0..Rounds]
    BY <2>3
  <2>5. /\ call \in [Tasks -> Calls]
        /\ accepted \in [Tasks -> SUBSET Hosts]
    BY DEF Calls
  <2>6. QED
    BY <2>0, <2>1, <2>2, <2>4, <2>5 DEF TypeOK
<1>2. BreakerInv
  BY DEF BreakerInv, Closed
<1>3. ASSUME NEW t \in Tasks
      PROVE  TaskInv(t)
  BY DEF TaskInv, AttemptInv, SourceInv, OutputInv, Requesting, Hosts
<1>4. QED
  BY <1>1, <1>2, <1>3 DEF IInv

\* Every step preserves it.
LEMMA InvStep == IInv /\ [Next]_vars => IInv'
<1> SUFFICES ASSUME IInv, [Next]_vars
             PROVE  IInv'
  OBVIOUS
<1>1. ASSUME NEW t \in Tasks, TaskStep(t)
      PROVE  IInv'
  <2>1. TypeOK /\ BreakerInv /\ TaskInv(t)
    BY DEF IInv
  <2>2. TypeOK' /\ TaskInv(t)' /\ Frame(t) /\ BreakerInv'
    <3>1. CASE BeginSession(t) \/ UseCachedRoute(t) \/ FetchRoute(t) \/ RouteArrives(t)
      BY <2>1, <3>1, SessionStep DEF BreakerInv, breakerVars
    <3>2. CASE \/ Execute(t) \/ RouterBlockhash(t) \/ OverrideBlockhash(t)
               \/ Simulated(t) \/ Sent(t)
      BY <2>1, <3>2, ExecuteStep DEF BreakerInv, breakerVars
    <3>3. CASE \/ Refused(t) \/ Admitted(t) \/ Answered(t) \/ Resend(t)
               \/ GiveUp(t) \/ Account(t)
      BY <2>1, <3>3, RequestStep, BreakerStep
    <3>4. QED
      BY <1>1, <3>1, <3>2, <3>3 DEF TaskStep
  <2>3. ASSUME NEW u \in Tasks \ {t}
        PROVE  TaskInv(u)'
    BY <2>2 DEF IInv, Frame, TaskInv, AttemptInv, SourceInv, OutputInv,
                Submits, SubmitHost, HostOf
  <2>4. QED
    BY <2>2, <2>3 DEF IInv
<1>2. CASE Tick
  BY <1>2, ClientAssumption
     DEF Tick, IInv, TypeOK, BreakerInv, TaskInv, AttemptInv, SourceInv, OutputInv,
         Submits, SubmitHost, HostOf, breakerVars, requestVars, sessionVars
<1>3. CASE UNCHANGED vars
  BY <1>3
     DEF vars, IInv, TypeOK, BreakerInv, TaskInv, AttemptInv, SourceInv, OutputInv,
         Submits, SubmitHost, HostOf, sharedVars, breakerVars, requestVars,
         sessionVars
<1>4. QED
  BY <1>1, <1>2, <1>3 DEF Next, Terminated

\* The invariant holds in every reachable state.
THEOREM InductiveInvariant == Spec => []IInv
<1>1. Init => IInv
  BY InvInit
<1>2. IInv /\ [Next]_vars => IInv'
  BY InvStep
<1>3. QED
  BY <1>1, <1>2, PTL DEF Spec

\* The types of the shared state and of the locals of the tasks; no request is
\* tried more than retries + 1 times.
THEOREM TypeCorrect == Spec => []TypeOK
<1>1. IInv => TypeOK
  BY DEF IInv
<1>2. QED
  BY <1>1, InductiveInvariant, PTL

\* execute names a host only if that host has accepted the transaction.
THEOREM OutputsHonest == Spec => []HonestOutput
<1>1. IInv => HonestOutput
  BY DEF IInv, TaskInv, OutputInv, HonestOutput
<1>2. QED
  BY <1>1, InductiveInvariant, PTL

\* The router only takes transactions built on a blockhash of its own, and
\* with require_router no other blockhash is used at all.
THEOREM RouterHashesOwn == Spec => []RouterGetsItsOwnHash
<1>1. IInv => RouterGetsItsOwnHash
  BY DEF IInv, TaskInv, SourceInv, RouterGetsItsOwnHash
<1>2. QED
  BY <1>1, InductiveInvariant, PTL

-----------------------------------------------------------------------------
(* The breaker that the sessions share implements Breaker.                 *)

\* No step but the breaker's refusal, and the reading of it, changes who was
\* refused: a request that reached the wire has an attempt.
LEMMA RefusedSame ==
    ASSUME TypeOK, NEW t \in Tasks, TaskInv(t), Frame(t),
           pc'[t] # "answered" \/ tries'[t] # 0,
           pc[t] # "answered" \/ tries[t] # 0
    PROVE  RefusedTasks' = RefusedTasks
BY DEF RefusedTasks, Frame

\* A step out of "answered" hands back a refused request, or is no step of the
\* breaker.
LEMMA AnsweredStep ==
    ASSUME TypeOK, NEW t \in Tasks, Frame(t), UNCHANGED <<now, breakerVars>>,
           pc[t] = "answered", pc'[t] # "answered"
    PROVE  PromisedBreaker!HandBack(t) \/ UNCHANGED PromisedBreaker!vars
<1>1. CASE tries[t] = 0
  <2>1. t \in RefusedTasks /\ RefusedTasks' = RefusedTasks \ {t}
    BY <1>1 DEF RefusedTasks, Frame
  <2>2. QED
    BY <2>1 DEF PromisedBreaker!HandBack, breakerVars
<1>2. CASE tries[t] # 0
  <2>1. RefusedTasks' = RefusedTasks
    BY <1>2 DEF RefusedTasks, Frame
  <2>2. QED
    BY <2>1 DEF PromisedBreaker!vars, breakerVars
<1>3. QED
  BY <1>1, <1>2

\* The accounting at the end of a request is a failure or a success of Breaker.
LEMMA AccountStep ==
    ASSUME TypeOK, BreakerInv, NEW t \in Tasks, TaskInv(t), Frame(t), Account(t)
    PROVE  PromisedBreaker!Fail \/ PromisedBreaker!Succeed
<1> USE DEF TypeOK, Account, Goto, sharedVars, requestVars
<1>1. RefusedTasks' = RefusedTasks /\ now' = now
  <2>1. tries[t] >= 1 /\ tries'[t] = tries[t] /\ pc[t] = "account"
    BY DEF TaskInv, AttemptInv
  <2>2. QED
    BY <2>1, RefusedSame
<1>2. CASE answer[t] = "failed"
  <2>1. /\ streak' = streak + 1
        /\ circuit' = [failures |-> circuit.failures + 1,
                       until |-> IF circuit.failures + 1 >= Threshold
                                 THEN now + Cooldown ELSE circuit.until]
    BY <1>2 DEF WithFailure
  <2>2. circuit'.until = IF circuit.failures + 1 >= Threshold
                         THEN now + Cooldown ELSE circuit.until
    BY <2>1
  <2>3. circuit.failures + 1 >= Threshold => streak' >= Threshold
    BY <2>1, ClientAssumption DEF BreakerInv
  <2>4. QED
    BY <1>1, <2>1, <2>2, <2>3 DEF PromisedBreaker!Fail
<1>3. CASE answer[t] # "failed"
  BY <1>1, <1>3 DEF PromisedBreaker!Succeed, Closed
<1>4. QED
  BY <1>2, <1>3

\* Every step of the client is a step of Breaker, or changes nothing of it.
LEMMA RefinementStep ==
    ASSUME IInv, [Next]_vars
    PROVE  [PromisedBreaker!Next]_(PromisedBreaker!vars)
<1>1. ASSUME NEW t \in Tasks, TaskStep(t)
      PROVE  [PromisedBreaker!Next]_(PromisedBreaker!vars)
  <2> USE DEF Goto, sharedVars, breakerVars, requestVars, Request, Return
  <2>0. TypeOK /\ BreakerInv /\ TaskInv(t)
    BY DEF IInv
  <2>1. CASE \/ BeginSession(t) \/ UseCachedRoute(t) \/ FetchRoute(t)
             \/ Execute(t)
    <3>1. /\ Frame(t) /\ UNCHANGED <<now, breakerVars>>
          /\ pc[t] # "answered" /\ pc'[t] # "answered"
      BY <2>0, <2>1, SessionStep, ExecuteStep
         DEF TypeOK, BeginSession, UseCachedRoute, FetchRoute, Execute
    <3>2. QED
      BY <2>0, <3>1, RefusedSame DEF PromisedBreaker!vars
  <2>2. CASE \/ RouteArrives(t) \/ RouterBlockhash(t) \/ OverrideBlockhash(t)
             \/ Simulated(t) \/ Sent(t)
    <3>1. /\ Frame(t) /\ UNCHANGED <<now, breakerVars>>
          /\ pc[t] = "answered" /\ pc'[t] # "answered"
      BY <2>0, <2>2, SessionStep, ExecuteStep
         DEF TypeOK, RouteArrives, RouterBlockhash, OverrideBlockhash, Submit,
             Simulated, Sent
    <3>2. QED
      BY <2>0, <3>1, AnsweredStep DEF PromisedBreaker!Next
  <2>3. CASE Refused(t)
    <3>1. Frame(t) /\ tries[t] = 0
      BY <2>0, <2>3, RequestStep DEF Refused, TaskInv, AttemptInv
    <3>2. t \notin RefusedTasks /\ RefusedTasks' = RefusedTasks \cup {t}
      BY <2>0, <2>3, <3>1 DEF TypeOK, Refused, RefusedTasks, Frame
    <3>3. now < circuit.until
      BY <2>0, <2>3 DEF TypeOK, Refused, Tripped
    <3>4. QED
      BY <2>3, <3>2, <3>3
         DEF PromisedBreaker!Next, PromisedBreaker!Refuse, PromisedBreaker!Open,
             Refused
  <2>4. CASE Admitted(t)
    <3>1. RefusedTasks' = RefusedTasks /\ now' = now /\ streak' = streak
      BY <2>0, <2>4, RequestStep, RefusedSame DEF TypeOK, Admitted
    <3>2. CASE AppliesCircuit(t) /\ circuit.until > 0
      BY <2>0, <2>4, <3>1, <3>2
         DEF TypeOK, Admitted, Tripped, Closed, PromisedBreaker!Next,
             PromisedBreaker!Close, PromisedBreaker!Open
    <3>3. CASE ~ (AppliesCircuit(t) /\ circuit.until > 0)
      BY <2>4, <3>1, <3>3 DEF Admitted, PromisedBreaker!vars
    <3>4. QED
      BY <3>2, <3>3
  <2>5. CASE Answered(t) \/ Resend(t) \/ GiveUp(t)
    <3>1. pc[t] = "wire" /\ tries[t] >= 1 /\ UNCHANGED <<now, breakerVars>>
      BY <2>0, <2>5 DEF Answered, Resend, GiveUp, TaskInv, AttemptInv
    <3>2. tries'[t] >= 1 /\ tries'[t] # 0
      BY <2>0, <2>5, <3>1 DEF TypeOK, Answered, Resend, GiveUp
    <3>3. RefusedTasks' = RefusedTasks
      BY <2>0, <2>5, <3>1, <3>2, RequestStep, RefusedSame
    <3>4. QED
      BY <3>1, <3>3 DEF PromisedBreaker!vars
  <2>6. CASE Account(t)
    BY <2>0, <2>6, RequestStep, AccountStep DEF PromisedBreaker!Next
  <2>7. QED
    BY <1>1, <2>1, <2>2, <2>3, <2>4, <2>5, <2>6 DEF TaskStep
<1>2. CASE Tick
  BY <1>2
     DEF Tick, breakerVars, requestVars, RefusedTasks, PromisedBreaker!Next,
         PromisedBreaker!Tick
<1>3. CASE UNCHANGED vars
  BY <1>3
     DEF vars, sharedVars, breakerVars, requestVars, RefusedTasks,
         PromisedBreaker!vars
<1>4. QED
  BY <1>1, <1>2, <1>3 DEF Next, Terminated

\* The client implements Breaker: it refuses only within a cooldown after a
\* failure, and only when enough requests failed with no success since.
THEOREM BreakerImplemented == Spec => ImplementsBreaker
<1>1. Init => PromisedBreaker!Init
  BY DEF Init, Closed, RefusedTasks, PromisedBreaker!Init
<1>2. IInv /\ [Next]_vars => [PromisedBreaker!Next]_(PromisedBreaker!vars)
  BY RefinementStep
<1>3. QED
  BY <1>1, <1>2, InductiveInvariant, PTL
     DEF Spec, PromisedBreaker!Spec, ImplementsBreaker

=============================================================================

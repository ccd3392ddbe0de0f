-------------------------- MODULE SdkClient_proofs --------------------------
(***************************************************************************)
(* Proofs about SdkClient and the submitters it calls (SdkSubmit), for any *)
(* callers and workloads, any bounds of the fee policy and any number of   *)
(* calls and attempts.                                                     *)
(***************************************************************************)
EXTENDS SdkClient, TLAPS

-----------------------------------------------------------------------------
(* The invariant of a caller.                                              *)

\* The phases of the attempts, and of a call before it is submitted.
Attempting == {"simulate", "send", "backoff"}
Before == {"idle", "fees", "blockhash", "estimate", "submit"}

\* The locals of a submission.
Submission ==
    [pc : {"none", "simulate", "send", "backoff", "done", "failed"},
     options : SubmitOptionRecord, tx : Transaction, attempts : Nat,
     error : Kinds \cup {"none", "BlockhashStale", "RpcRetriable"}]

\* The variables have their types, as functions.
Types ==
    /\ now \in 0 .. MaxTime
    /\ routerUrl \in BOOLEAN /\ emaState \in Nat /\ lastPrice \in Nat
    /\ request \in Workloads
    /\ pc \in [Callers -> Before \cup {"submitted", "over"}]
    /\ plan \in [Callers -> Transaction]
    /\ reported \in [Callers -> BOOLEAN] /\ calls \in [Callers -> 0 .. MaxCalls]
    /\ submission \in [Callers -> Submission]
    /\ taken \in [Callers -> SUBSET [lane : Lanes, tx : Transaction]]
    /\ lost \in [Callers -> BOOLEAN]

\* The counter stops short of maxRetries when another attempt is to come, and
\* only a submission that failed holds an error.
AttemptInv(c) ==
    /\ submission[c].attempts <= OptionsOf(c).maxRetries
    /\ At(c, "backoff") => submission[c].attempts < OptionsOf(c).maxRetries
    /\ submission[c].error # "none" => At(c, "failed")
    /\ pc[c] # "submitted" => submission[c] = NoSubmission

\* What is submitted is what the caller's own call planned, by its own lane.
ReceiptInv(c) ==
    /\ submission[c].pc \in Attempting \cup {"done"} =>
          /\ TxOf(c) = plan[c] /\ OptionsOf(c) = request[c].submit
          /\ OptionsOf(c).lane = "router" => routerUrl
    /\ TxOf(c) \in {NoTransaction, plan[c]}
    /\ At(c, "done") => Taken(c)
    /\ \A copy \in taken[c] :
          copy.lane = request[c].submit.lane /\ (copy.lane = "router" => routerUrl)

\* Unless an answer was lost nothing is taken until a submission is done, and
\* then the caller calls no more.
LedgerInv(c) ==
    ~ lost[c] =>
        /\ (pc[c] # "over" /\ ~ At(c, "done")) => taken[c] = {}
        /\ \A a, b \in taken[c] : a = b

\* Whether the plan of a caller's call is made.
Planned(c) ==
    \/ pc[c] \in {"blockhash", "estimate", "submit"}
    \/ submission[c].pc \in Attempting \cup {"done"}
    \/ TxOf(c) # NoTransaction

\* The policy's bounds on a plan; its limit is zero only if no other is allowed.
Bounded(tx) ==
    /\ tx.price \in MinCuPrice .. MaxCuPrice
    /\ tx.limit <= MaxCuLimit
    /\ tx.limit = 0 => MaxCuLimit = 0

\* Plans and what is taken of them keep the bounds; a reported use fits.
PlanInv(c) ==
    /\ plan[c].limit <= MaxCuLimit
    /\ Planned(c) => Bounded(plan[c])
    /\ \A copy \in taken[c] : Bounded(copy.tx)
    /\ reported[c] => pc[c] \in {"submit", "submitted"}
    /\ request[c].tighten /\ reported[c] => request[c].use <= plan[c].limit

\* The invariant of a caller.
CallerInv(c) == AttemptInv(c) /\ ReceiptInv(c) /\ LedgerInv(c) /\ PlanInv(c)

\* The inductive invariant.
IInv == Types /\ \A c \in Callers : CallerInv(c)

\* A step of c changes nothing of another caller's.
Frame(c) ==
    /\ request' = request /\ routerUrl' = routerUrl
    /\ \A d \in Callers \ {c} :
          /\ pc'[d] = pc[d] /\ plan'[d] = plan[d] /\ reported'[d] = reported[d]
          /\ submission'[d] = submission[d] /\ taken'[d] = taken[d]
          /\ lost'[d] = lost[d]

-----------------------------------------------------------------------------
(* Constants and conversions.                                              *)

\* What the assumptions say of the constants, one by one.
LEMMA ConstantTypes ==
    /\ HashLife \in Nat \ {0} /\ MaxTime \in Nat /\ MaxCalls \in Nat \ {0}
    /\ MaxCuLimit \in Nat /\ MinCuPrice \in Nat /\ MaxCuPrice \in Nat
    /\ MinCuPrice <= MaxCuPrice
    /\ EmaShare \in Nat \ {0} /\ Hysteresis \in Nat \ {0}
    /\ Samples \subseteq Nat \ {0}
    /\ Workloads \subseteq [Callers -> Request]
BY SubmitAssumption, ClientAssumption

\* The record of a caller that submits nothing, and its transaction.
LEMMA EmptyTypes ==
    /\ NoTransaction \in Transaction
    /\ NoSubmission \in Submission
    /\ NoSubmission.pc = "none" /\ NoSubmission.error = "none"
    /\ NoSubmission.tx = NoTransaction
    /\ NoSubmission.attempts = 0 /\ NoSubmission.options.maxRetries = 0
<1>1. NoTransaction \in Transaction
  BY ConstantTypes DEF NoTransaction, Transaction
<1>2. [lane |-> "l1", skipPreflight |-> FALSE, maxRetries |-> 0] \in SubmitOptionRecord
  BY DEF SubmitOptionRecord, Lanes
<1>3. QED
  BY <1>1, <1>2 DEF NoSubmission, Submission

\* The moving average stays between the old value and the sample, so that it
\* never falls to zero, which would read as "no state yet".
LEMMA SmoothedType ==
    ASSUME Types, NEW raw \in Samples
    PROVE  Smoothed(raw) \in Nat
<1>1. raw \in Nat \ {0} /\ EmaShare \in Nat \ {0} /\ emaState \in Nat
  BY ConstantTypes DEF Types
<1>2. CASE emaState = 0
  BY <1>1, <1>2 DEF Smoothed
<1>3. CASE emaState # 0
  <2>1. emaState + (raw - emaState) \div EmaShare \in Nat
    BY <1>1, <1>3
  <2>2. QED
    BY <1>3, <2>1 DEF Smoothed
<1>4. QED
  BY <1>2, <1>3

\* A plan keeps the policy's bounds whatever price is suggested and whatever
\* the caller overrides.
LEMMA OverriddenBounds ==
    ASSUME Types, NEW c \in Callers, NEW price \in Nat,
           NEW p \in {FallbackPlan, Clamp([limit |-> MaxCuLimit, price |-> price])}
    PROVE  /\ Overridden(c, p).limit \in Nat /\ Overridden(c, p).price \in Nat
           /\ Overridden(c, p).price \in MinCuPrice .. MaxCuPrice
           /\ Overridden(c, p).limit <= MaxCuLimit
           /\ Overridden(c, p).limit = 0 => MaxCuLimit = 0
<1>1. /\ MaxCuLimit \in Nat /\ MinCuPrice \in Nat /\ MaxCuPrice \in Nat
      /\ MinCuPrice <= MaxCuPrice
  BY ConstantTypes
<1>2. request[c].cuLimit \in Nat /\ request[c].cuPrice \in Nat
  BY ConstantTypes DEF Types, Request
<1>3. p.limit = MaxCuLimit /\ p.price \in Nat
  BY <1>1 DEF FallbackPlan, Clamp, Least, Greatest
<1>4. QED
  BY <1>1, <1>2, <1>3 DEF Overridden, Clamp, Least, Greatest

\* The tightened limit covers what the simulation reported, within the plan's
\* own, and is zero only if that is.
LEMMA TightenedBounds ==
    ASSUME NEW used \in Nat, NEW limit \in Nat
    PROVE  /\ Tightened(used, limit) \in Nat
           /\ Tightened(used, limit) <= limit
           /\ used <= limit => used <= Tightened(used, limit)
           /\ Tightened(used, limit) = 0 => limit = 0
BY DEF Tightened, Least, SafetyMarginCU

-----------------------------------------------------------------------------
(* Steps of a caller.                                                      *)

\* A call begins: before that nothing is planned.
LEMMA CallStep ==
    ASSUME Types, NEW c \in Callers, CallerInv(c), Call(c)
    PROVE  Types' /\ CallerInv(c)' /\ Frame(c)
<1> USE DEF submitVars, policyVars, Goto
<1>1. calls[c] + 1 \in 0 .. MaxCalls
  BY ConstantTypes DEF Types, Call
<1>2. Types'
  BY <1>1 DEF Types, Call, Before
<1>3. Frame(c)
  BY DEF Types, Call, Frame
<1>4. AttemptInv(c)' /\ ReceiptInv(c)' /\ LedgerInv(c)'
  BY DEF Types, Call, CallerInv, AttemptInv, ReceiptInv, LedgerInv, At,
         OptionsOf, TxOf, Taken, Copy, Before
<1>5. PlanInv(c)'
  BY DEF Types, Call, CallerInv, PlanInv, Planned, Bounded, TxOf, Attempting
<1>6. QED
  BY <1>2, <1>3, <1>4, <1>5 DEF CallerInv

\* The plan of a call is made.
LEMMA ProceedStep ==
    ASSUME Types, NEW c \in Callers, CallerInv(c), FeesArrive(c) \/ NoFees(c)
    PROVE  Types' /\ CallerInv(c)' /\ Frame(c)
<1> USE DEF submitVars, policyVars
<1>1. /\ pc[c] = "fees"
      /\ UNCHANGED <<now, submitVars, routerUrl, request, reported, calls>>
  BY DEF FeesArrive, NoFees
<1>2. /\ emaState' \in Nat /\ lastPrice' \in Nat
      /\ \E price \in Nat :
            \E p \in {FallbackPlan, Clamp([limit |-> MaxCuLimit, price |-> price])} :
               Proceed(c, p)
  <2>1. CASE FeesArrive(c)
    <3>1. PICK raw \in Samples :
            /\ emaState' = Smoothed(raw)
            /\ lastPrice' = Steadied(Smoothed(raw))
            /\ Proceed(c, Clamp([limit |-> MaxCuLimit,
                                 price |-> Steadied(Smoothed(raw))]))
      BY <2>1 DEF FeesArrive
    <3>2. Smoothed(raw) \in Nat
      BY SmoothedType
    <3>3. Steadied(Smoothed(raw)) \in Nat
      BY <3>2 DEF Steadied, Types
    <3>4. QED
      BY <3>1, <3>2, <3>3
  <2>2. CASE NoFees(c)
    BY <2>2 DEF NoFees, Types
  <2>3. QED
    BY <2>1, <2>2
<1>3. PICK price \in Nat :
        \E p \in {FallbackPlan, Clamp([limit |-> MaxCuLimit, price |-> price])} :
           Proceed(c, p)
  BY <1>2
<1>4. PICK p \in {FallbackPlan, Clamp([limit |-> MaxCuLimit, price |-> price])} :
        Proceed(c, p)
  BY <1>3
<1> DEFINE tx == [hash |-> 0, limit |-> Overridden(c, p).limit,
                  price |-> Overridden(c, p).price]
<1>5. tx \in Transaction /\ Bounded(tx)
  BY OverriddenBounds, ConstantTypes DEF Transaction, Bounded
<1>6. plan' = [plan EXCEPT ![c] = tx] /\ pc' = [pc EXCEPT ![c] = "blockhash"]
  BY <1>4 DEF Proceed, Goto
<1> HIDE DEF tx
<1>7. Types'
  BY <1>1, <1>2, <1>5, <1>6 DEF Types, Before
<1>8. Frame(c)
  BY <1>1, <1>6 DEF Types, Frame
<1>9. submission[c] = NoSubmission /\ submission'[c] = NoSubmission
  BY <1>1 DEF CallerInv, AttemptInv
<1>10. AttemptInv(c)' /\ ReceiptInv(c)' /\ LedgerInv(c)'
  BY <1>1, <1>6, <1>9, EmptyTypes
     DEF Types, CallerInv, AttemptInv, ReceiptInv, LedgerInv, At, OptionsOf, TxOf,
         Attempting
<1>11. PlanInv(c)'
  BY <1>1, <1>5, <1>6 DEF Types, CallerInv, PlanInv, Bounded
<1>12. QED
  BY <1>7, <1>8, <1>10, <1>11 DEF CallerInv

\* The transaction is built, and its limit may be tightened.
LEMMA BuildStep ==
    ASSUME Types, NEW c \in Callers, CallerInv(c), Built(c) \/ Estimated(c)
    PROVE  Types' /\ CallerInv(c)' /\ Frame(c)
<1> USE DEF submitVars, policyVars, Goto
<1>1. /\ pc[c] \in {"blockhash", "estimate"}
      /\ \E label \in {"estimate", "submit"} : pc' = [pc EXCEPT ![c] = label]
      /\ UNCHANGED <<now, submitVars, policyVars, request, calls>>
  BY DEF Built, Estimated
<1>2. plan[c] \in Transaction /\ Bounded(plan[c])
  BY <1>1 DEF Types, CallerInv, PlanInv, Planned
<1>3. \E tx \in Transaction, r \in BOOLEAN :
        /\ plan' = [plan EXCEPT ![c] = tx] /\ reported' = [reported EXCEPT ![c] = r]
        /\ Bounded(tx)
        /\ r => pc'[c] = "submit" /\ request[c].use <= tx.limit
  <2>1. CASE Built(c)
    <3>1. reported' = [reported EXCEPT ![c] = FALSE]
      BY <2>1 DEF Built, Types, CallerInv, PlanInv
    <3>2. plan' = [plan EXCEPT ![c] = [@ EXCEPT !.hash = now]]
      BY <2>1 DEF Built
    <3>3. /\ [plan[c] EXCEPT !.hash = now] \in Transaction
          /\ Bounded([plan[c] EXCEPT !.hash = now])
      BY <1>2 DEF Types, Transaction, Bounded
    <3>4. QED
      BY <3>1, <3>2, <3>3
  <2>2. CASE Estimated(c)
    <3>1. PICK r \in BOOLEAN :
            /\ reported' = [reported EXCEPT ![c] = r]
            /\ plan' = [plan EXCEPT ![c].limit =
                           Tightened(IF r THEN request[c].use ELSE UnreportedCU, @)]
      BY <2>2 DEF Estimated
    <3> DEFINE used == IF r THEN request[c].use ELSE UnreportedCU
               tx == [plan[c] EXCEPT !.limit = Tightened(used, plan[c].limit)]
    <3>2. plan' = [plan EXCEPT ![c] = tx]
      BY <3>1
    <3>3. used \in Nat /\ plan[c].limit \in Nat /\ (r => used <= plan[c].limit)
      BY <1>2, <2>2, ConstantTypes
         DEF Estimated, Types, Request, Transaction, UnreportedCU
    <3>4. /\ tx \in Transaction /\ Bounded(tx) /\ tx.limit = Tightened(used, plan[c].limit)
          /\ r => used <= tx.limit
      BY <1>2, <3>3, TightenedBounds, ConstantTypes DEF Transaction, Bounded
    <3>5. pc'[c] = "submit"
      BY <2>2 DEF Estimated, Types
    <3>6. QED
      BY <3>1, <3>2, <3>4, <3>5
  <2>3. QED
    BY <2>1, <2>2
<1>4. PICK tx \in Transaction, r \in BOOLEAN :
        /\ plan' = [plan EXCEPT ![c] = tx] /\ reported' = [reported EXCEPT ![c] = r]
        /\ Bounded(tx)
        /\ r => pc'[c] = "submit" /\ request[c].use <= tx.limit
  BY <1>3
<1>5. Types'
  BY <1>1, <1>4 DEF Types, Before
<1>6. Frame(c)
  BY <1>1, <1>4 DEF Types, Frame
<1>7. submission[c] = NoSubmission /\ submission'[c] = NoSubmission
  BY <1>1 DEF CallerInv, AttemptInv
<1>8. AttemptInv(c)' /\ ReceiptInv(c)' /\ LedgerInv(c)'
  BY <1>1, <1>4, <1>7, EmptyTypes
     DEF Types, CallerInv, AttemptInv, ReceiptInv, LedgerInv, At, OptionsOf, TxOf,
         Attempting
<1>9. PlanInv(c)'
  BY <1>1, <1>4 DEF Types, CallerInv, PlanInv, Bounded
<1>10. QED
  BY <1>5, <1>6, <1>8, <1>9 DEF CallerInv

\* The call fails before anything is submitted.
LEMMA ThrowsStep ==
    ASSUME Types, NEW c \in Callers, CallerInv(c),
           FeesRateLimited(c) \/ NotBuilt(c) \/ NotEstimated(c) \/ NoRouter(c)
    PROVE  Types' /\ CallerInv(c)' /\ Frame(c)
<1> USE DEF policyVars
<1>1. /\ pc[c] \in Before
      /\ \E error \in {"Other", "RpcRetriable"} : Throws(c, error)
  BY DEF FeesRateLimited, NotBuilt, NotEstimated, NoRouter, Before
<1>2. PICK error \in {"Other", "RpcRetriable"} : Throws(c, error)
  BY <1>1
<1> DEFINE s == [NoSubmission EXCEPT !.pc = "failed", !.error = error]
<1>3. /\ submission' = [submission EXCEPT ![c] = s]
      /\ pc' = [pc EXCEPT ![c] = "submitted"]
      /\ UNCHANGED <<now, taken, lost, routerUrl, emaState, lastPrice, request, plan,
                     reported, calls>>
  BY <1>2 DEF Throws, Goto
<1>4. /\ s \in Submission /\ s.pc = "failed" /\ s.tx = NoTransaction
      /\ s.attempts = 0 /\ s.options.maxRetries = 0
  BY EmptyTypes DEF Submission, Kinds
<1> HIDE DEF s
<1>5. Types'
  BY <1>3, <1>4 DEF Types
<1>6. Frame(c)
  BY <1>3 DEF Types, Frame
<1>7. submission[c] = NoSubmission /\ pc[c] # "over"
  BY <1>1 DEF CallerInv, AttemptInv, Before
<1>8. /\ submission'[c] = s /\ pc'[c] = "submitted" /\ taken'[c] = taken[c]
      /\ lost'[c] = lost[c] /\ plan'[c] = plan[c]
  BY <1>3 DEF Types
<1>9. AttemptInv(c)' /\ ReceiptInv(c)' /\ LedgerInv(c)'
  BY <1>3, <1>4, <1>7, <1>8, EmptyTypes
     DEF CallerInv, AttemptInv, ReceiptInv, LedgerInv, At, OptionsOf, TxOf, Attempting
<1>10. PlanInv(c)'
  BY <1>1, <1>3, <1>4, <1>8
     DEF CallerInv, PlanInv, Planned, Bounded, TxOf, Attempting
<1>11. QED
  BY <1>5, <1>6, <1>9, <1>10 DEF CallerInv

\* The transaction that the call planned is handed to the caller's lane.
LEMMA SubmitCallStep ==
    ASSUME Types, NEW c \in Callers, CallerInv(c), Submit(c)
    PROVE  Types' /\ CallerInv(c)' /\ Frame(c)
<1> USE DEF policyVars
<1> DEFINE options == request[c].submit
           s == IF options.maxRetries = 0
                THEN [pc |-> "failed", options |-> options, tx |-> plan[c],
                      attempts |-> 0, error |-> "Other"]
                ELSE [pc |-> FirstStep(options), options |-> options,
                      tx |-> plan[c], attempts |-> 1, error |-> "none"]
<1>1. /\ pc[c] = "submit" /\ (options.lane = "router" => routerUrl)
      /\ submission' = [submission EXCEPT ![c] = s]
      /\ pc' = [pc EXCEPT ![c] = "submitted"]
      /\ UNCHANGED <<now, taken, lost, routerUrl, emaState, lastPrice, request, plan,
                     reported, calls>>
  BY DEF Submit, Begins, Lane, Goto
<1>2. options \in SubmitOptionRecord /\ options.maxRetries \in Nat
  BY ConstantTypes DEF Types, Request, SubmitOptionRecord
<1>3. FirstStep(options) \in {"simulate", "send"}
  BY DEF FirstStep
<1>4. /\ s \in Submission /\ s.options = options /\ s.tx = plan[c]
      /\ s.pc \in {"failed", "simulate", "send"} /\ s.attempts <= options.maxRetries
      /\ s.error # "none" => s.pc = "failed"
  BY <1>2, <1>3 DEF Types, Submission, Kinds
<1> HIDE DEF s
<1>5. Types'
  BY <1>1, <1>4 DEF Types
<1>6. Frame(c)
  BY <1>1 DEF Types, Frame
<1>7. submission[c] = NoSubmission /\ Bounded(plan[c])
  BY <1>1 DEF CallerInv, AttemptInv, PlanInv, Planned
<1>8. /\ submission'[c] = s /\ pc'[c] = "submitted" /\ taken'[c] = taken[c]
      /\ lost'[c] = lost[c] /\ plan'[c] = plan[c]
  BY <1>1 DEF Types
<1>9. AttemptInv(c)' /\ ReceiptInv(c)' /\ LedgerInv(c)'
  BY <1>1, <1>4, <1>7, <1>8, EmptyTypes
     DEF CallerInv, AttemptInv, ReceiptInv, LedgerInv, At, OptionsOf, TxOf, Attempting
<1>10. PlanInv(c)'
  BY <1>1, <1>7, <1>8 DEF CallerInv, PlanInv, Bounded
<1>11. QED
  BY <1>5, <1>6, <1>9, <1>10 DEF CallerInv

\* The caller gets its answer: it calls again only if nothing was done.
LEMMA ReturnsStep ==
    ASSUME Types, NEW c \in Callers, CallerInv(c), Returns(c)
    PROVE  Types' /\ CallerInv(c)' /\ Frame(c)
<1> USE DEF policyVars
<1>1. /\ pc[c] = "submitted"
      /\ pc' = [pc EXCEPT ![c] =
                   IF /\ submission[c].error \in {"BlockhashStale", "RpcRetriable"}
                      /\ calls[c] < MaxCalls
                   THEN "idle" ELSE "over"]
      /\ submission' = [submission EXCEPT ![c] = NoSubmission]
      /\ plan' = [plan EXCEPT ![c] = NoTransaction]
      /\ reported' = [reported EXCEPT ![c] = FALSE]
      /\ UNCHANGED <<now, taken, lost, routerUrl, emaState, lastPrice, request, calls>>
  BY DEF Returns, Goto
<1>2. /\ pc'[c] \in {"idle", "over"} /\ submission'[c] = NoSubmission
      /\ plan'[c] = NoTransaction /\ reported'[c] = FALSE
      /\ taken'[c] = taken[c] /\ lost'[c] = lost[c]
  BY <1>1 DEF Types
<1>3. pc'[c] = "idle" => At(c, "failed")
  BY <1>1 DEF Types, CallerInv, AttemptInv
<1>4. Types'
  BY <1>1, EmptyTypes DEF Types, Before
<1>5. Frame(c)
  BY <1>1 DEF Types, Frame
<1>6. AttemptInv(c)' /\ ReceiptInv(c)'
  BY <1>1, <1>2, EmptyTypes
     DEF CallerInv, AttemptInv, ReceiptInv, At, OptionsOf, TxOf, Attempting
<1>7. LedgerInv(c)'
  BY <1>1, <1>2, <1>3 DEF CallerInv, LedgerInv, At
<1>8. PlanInv(c)'
  BY <1>1, <1>2, EmptyTypes, ConstantTypes
     DEF CallerInv, PlanInv, Planned, Bounded, TxOf, Attempting, NoTransaction
<1>9. QED
  BY <1>4, <1>5, <1>6, <1>7, <1>8 DEF CallerInv

-----------------------------------------------------------------------------
(* Steps of a submission.                                                  *)

\* A submission s that goes on from the one of c.
Continues(c, s) ==
    /\ s \in Submission
    /\ submission' = [submission EXCEPT ![c] = s]
    /\ s.options = OptionsOf(c) /\ s.tx = TxOf(c) /\ s.pc # "none"
    /\ s.attempts <= OptionsOf(c).maxRetries
    /\ s.pc = "backoff" => s.attempts < OptionsOf(c).maxRetries
    /\ s.error # "none" => s.pc = "failed"

\* An attempt that throws is the last one, or another one may follow.
LEMMA AttemptThrowsEffect ==
    ASSUME Types, NEW c \in Callers, CallerInv(c), NEW kind \in Kinds, NEW text,
           submission[c].pc \in Attempting, AttemptThrows(c, kind, text)
    PROVE  \E s \in Submission : Continues(c, s) /\ s.pc \in {"backoff", "failed"}
<1> DEFINE again == [submission[c] EXCEPT !.pc = "backoff"]
           over == [submission[c] EXCEPT !.pc = "failed",
                                         !.error = Thrown(OptionsOf(c).lane, kind, text)]
<1>1. /\ submission[c] \in Submission /\ submission[c].error = "none"
      /\ submission[c].attempts <= OptionsOf(c).maxRetries
  BY DEF Types, CallerInv, AttemptInv, At, Attempting
<1>2. CASE Retriable(text) /\ ~ IsLastAttempt(c)
  <2>1. submission' = [submission EXCEPT ![c] = again]
    BY <1>2 DEF AttemptThrows
  <2>2. submission[c].attempts < OptionsOf(c).maxRetries
    BY <1>1, <1>2 DEF IsLastAttempt, Submission, OptionsOf, SubmitOptionRecord
  <2>3. again \in Submission
    BY <1>1 DEF Submission
  <2>4. QED
    BY <1>1, <2>1, <2>2, <2>3 DEF Continues, OptionsOf, TxOf, Submission
<1>3. CASE ~ (Retriable(text) /\ ~ IsLastAttempt(c))
  <2>1. submission' = [submission EXCEPT ![c] = over]
    BY <1>3 DEF AttemptThrows
  <2>2. Thrown(OptionsOf(c).lane, kind, text)
           \in Kinds \cup {"none", "BlockhashStale", "RpcRetriable"}
    BY DEF Thrown
  <2>3. over \in Submission
    BY <1>1, <2>2 DEF Submission
  <2>4. QED
    BY <1>1, <2>1, <2>3 DEF Continues, OptionsOf, TxOf, Submission
<1>4. QED
  BY <1>2, <1>3

\* What a step of a submission does to it and to what was taken: a lane takes
\* the caller's copy with the answer, or the answer is lost.
LEMMA SubmitStepEffect ==
    ASSUME Types, NEW c \in Callers, CallerInv(c), SubmitStep(c)
    PROVE  /\ submission[c].pc \in Attempting /\ now' = now
           /\ \E s \in Submission :
                 /\ Continues(c, s)
                 /\ \/ s.pc # "done" /\ UNCHANGED <<taken, lost>>
                    \/ s.pc = "done" /\ Takes(c) /\ lost' = lost
                    \/ s.pc # "done" /\ Takes(c) /\ lost' = [lost EXCEPT ![c] = TRUE]
<1>1. /\ submission[c] \in Submission
      /\ submission[c].attempts <= OptionsOf(c).maxRetries
      /\ submission[c].pc \in Attempting => submission[c].error = "none"
  BY DEF Types, CallerInv, AttemptInv, At, Attempting
<1>2. CASE NextAttempt(c)
  <2> DEFINE s == [submission[c] EXCEPT !.pc = FirstStep(OptionsOf(c)), !.attempts = @ + 1]
  <2>1. FirstStep(OptionsOf(c)) \in {"simulate", "send"}
    BY DEF FirstStep
  <2>2. submission[c].attempts < OptionsOf(c).maxRetries /\ submission[c].pc = "backoff"
    BY <1>2 DEF NextAttempt, CallerInv, AttemptInv, At
  <2>3. submission' = [submission EXCEPT ![c] = s]
    BY <1>2 DEF NextAttempt
  <2>4. /\ s \in Submission /\ s.pc \in {"simulate", "send"} /\ s.error = "none"
        /\ s.options = OptionsOf(c) /\ s.tx = TxOf(c)
        /\ s.attempts <= OptionsOf(c).maxRetries
    <3>1. submission[c].attempts \in Nat /\ OptionsOf(c).maxRetries \in Nat
      BY <1>1 DEF Submission, OptionsOf, SubmitOptionRecord
    <3>2. submission[c].attempts + 1 \in Nat
      BY <3>1
    <3>3. s \in Submission /\ s.attempts = submission[c].attempts + 1
      BY <1>1, <2>1, <3>2 DEF Submission
    <3>4. /\ s.pc = FirstStep(OptionsOf(c)) /\ s.error = submission[c].error
          /\ s.options = submission[c].options /\ s.tx = submission[c].tx
      BY <1>1 DEF Submission
    <3>5. QED
      BY <1>1, <2>1, <2>2, <3>1, <3>3, <3>4 DEF OptionsOf, TxOf, Attempting
  <2>5. QED
    BY <1>2, <2>2, <2>3, <2>4 DEF NextAttempt, Continues, Attempting
<1>3. CASE SimulationPasses(c) \/ SendSucceeds(c)
  <2>1. CASE SimulationPasses(c)
    <3> DEFINE p == [submission[c] EXCEPT !.pc = "send"]
    <3>1. At(c, "simulate") /\ submission' = [submission EXCEPT ![c] = p]
      BY <2>1 DEF SimulationPasses
    <3>2. p \in Submission /\ Continues(c, p) /\ p.pc = "send"
      BY <1>1, <3>1 DEF Submission, Continues, OptionsOf, TxOf, At, Attempting
    <3>3. QED
      BY <2>1, <3>1, <3>2 DEF SimulationPasses, At, Attempting
  <2>2. CASE SendSucceeds(c)
    <3> DEFINE p == [submission[c] EXCEPT !.pc = "done"]
    <3>1. At(c, "send") /\ submission' = [submission EXCEPT ![c] = p]
      BY <2>2 DEF SendSucceeds
    <3>2. p \in Submission /\ Continues(c, p) /\ p.pc = "done"
      BY <1>1, <3>1 DEF Submission, Continues, OptionsOf, TxOf, At, Attempting
    <3>3. QED
      BY <2>2, <3>1, <3>2 DEF SendSucceeds, At, Attempting
  <2>3. QED
    BY <1>3, <2>1, <2>2
<1>4. CASE SimulationRefuses(c) \/ SimulationThrows(c) \/ SendRefused(c)
  <2>1. /\ submission[c].pc \in Attempting /\ UNCHANGED <<now, taken, lost>>
        /\ \E kind \in Kinds, text \in Texts : AttemptThrows(c, kind, text)
    <3>1. CASE SimulationRefuses(c)
      BY <3>1 DEF SimulationRefuses, At, Attempting, Kinds, Texts
    <3>2. CASE SimulationThrows(c)
      BY <3>2 DEF SimulationThrows, At, Attempting, Kinds, Texts
    <3>3. CASE SendRefused(c)
      <4>1. PICK e \in SendErrors(OptionsOf(c).lane) : AttemptThrows(c, e[1], e[2])
        BY <3>3 DEF SendRefused
      <4>2. e[1] \in Kinds /\ e[2] \in Texts
        BY DEF SendErrors, Kinds, Texts
      <4>3. QED
        BY <3>3, <4>1, <4>2 DEF SendRefused, At, Attempting
    <3>4. QED
      BY <1>4, <3>1, <3>2, <3>3
  <2>2. QED
    BY <2>1, AttemptThrowsEffect
<1>5. CASE SendLost(c)
  <2>1. /\ submission[c].pc \in Attempting /\ now' = now /\ Takes(c)
        /\ lost' = [lost EXCEPT ![c] = TRUE]
        /\ \E kind \in Kinds, text \in Texts : AttemptThrows(c, kind, text)
    BY <1>5 DEF SendLost, At, Attempting, Kinds, Texts
  <2>2. QED
    BY <2>1, AttemptThrowsEffect
<1>6. QED
  BY <1>2, <1>3, <1>4, <1>5 DEF SubmitStep

\* A step of a submission leaves the caller's plan as it is, and a copy that is
\* taken is a copy of that plan.
LEMMA SubmissionStep ==
    ASSUME Types, NEW c \in Callers, CallerInv(c), SubmitStep(c),
           UNCHANGED <<policyVars, callVars>>
    PROVE  Types' /\ CallerInv(c)' /\ Frame(c)
<1> USE DEF policyVars, callVars
<1>1. submission[c].pc \in Attempting /\ now' = now
  BY SubmitStepEffect
<1>2. PICK s \in Submission :
        /\ Continues(c, s)
        /\ \/ s.pc # "done" /\ UNCHANGED <<taken, lost>>
           \/ s.pc = "done" /\ Takes(c) /\ lost' = lost
           \/ s.pc # "done" /\ Takes(c) /\ lost' = [lost EXCEPT ![c] = TRUE]
  BY SubmitStepEffect
<1>3. /\ submission'[c] = s /\ submission' = [submission EXCEPT ![c] = s]
      /\ pc[c] = "submitted"
      /\ TxOf(c) = plan[c] /\ OptionsOf(c) = request[c].submit
      /\ OptionsOf(c).lane = "router" => routerUrl
  BY <1>1, <1>2, EmptyTypes
     DEF Types, Continues, CallerInv, AttemptInv, ReceiptInv, Attempting
<1>4. Copy(c) \in [lane : Lanes, tx : Transaction]
  <2>1. OptionsOf(c) \in SubmitOptionRecord /\ TxOf(c) \in Transaction
    BY DEF Types, Submission, OptionsOf, TxOf
  <2>2. QED
    BY <2>1 DEF Copy, SubmitOptionRecord
<1>5. /\ taken' \in [Callers -> SUBSET [lane : Lanes, tx : Transaction]]
      /\ taken'[c] \in {taken[c], taken[c] \cup {Copy(c)}}
      /\ s.pc = "done" => Copy(c) \in taken'[c]
      /\ ~ lost'[c] => /\ ~ lost[c]
                       /\ s.pc # "done" => taken'[c] = taken[c]
      /\ lost' \in [Callers -> BOOLEAN]
      /\ \A d \in Callers \ {c} : taken'[d] = taken[d] /\ lost'[d] = lost[d]
  <2>1. CASE s.pc # "done" /\ UNCHANGED <<taken, lost>>
    BY <2>1 DEF Types
  <2>2. CASE s.pc = "done" /\ Takes(c) /\ lost' = lost
    BY <1>4, <2>2 DEF Types, Takes
  <2>3. CASE s.pc # "done" /\ Takes(c) /\ lost' = [lost EXCEPT ![c] = TRUE]
    BY <1>4, <2>3 DEF Types, Takes
  <2>4. QED
    BY <1>2, <2>1, <2>2, <2>3
<1>6. Types'
  BY <1>1, <1>2, <1>3, <1>5 DEF Types
<1>7. Frame(c)
  BY <1>3, <1>5 DEF Types, Frame
<1>8. Copy(c).lane = request[c].submit.lane /\ Copy(c).tx = plan[c]
  BY <1>3 DEF Copy
<1>9. AttemptInv(c)'
  BY <1>2, <1>3 DEF Continues, AttemptInv, At, OptionsOf
<1>10. ReceiptInv(c)'
  <2>1. Copy(c)' = Copy(c)
    BY <1>2, <1>3 DEF Continues, Copy, OptionsOf, TxOf
  <2>2. QED
    BY <1>2, <1>3, <1>5, <1>8, <2>1
       DEF Continues, CallerInv, ReceiptInv, At, Taken, OptionsOf, TxOf
<1>11. LedgerInv(c)'
  <2>1. SUFFICES ASSUME ~ lost'[c]
                 PROVE  /\ (pc'[c] # "over" /\ s.pc # "done") => taken'[c] = {}
                        /\ \A a, b \in taken'[c] : a = b
    BY <1>3 DEF LedgerInv, At
  <2>2. taken[c] = {}
    BY <1>1, <1>3, <1>5, <2>1 DEF CallerInv, LedgerInv, At, Attempting
  <2>3. QED
    BY <1>5, <2>1, <2>2
<1>12. PlanInv(c)'
  <2>1. Bounded(plan[c])
    BY <1>1 DEF CallerInv, PlanInv, Planned
  <2>2. \A copy \in taken'[c] : Bounded(copy.tx)
    BY <1>5, <1>8, <2>1 DEF CallerInv, PlanInv
  <2>3. QED
    BY <2>1, <2>2 DEF CallerInv, PlanInv, Bounded
<1>13. QED
  BY <1>6, <1>7, <1>9, <1>10, <1>11, <1>12 DEF CallerInv

-----------------------------------------------------------------------------
(* The invariant.                                                          *)

\* The initial states satisfy it.
LEMMA InvInit == Init => IInv
<1> SUFFICES ASSUME Init
             PROVE  IInv
  OBVIOUS
<1> USE DEF Init, SubmitInit
<1>1. /\ now \in 0 .. MaxTime /\ emaState \in Nat /\ lastPrice \in Nat
      /\ calls \in [Callers -> 0 .. MaxCalls]
  BY ConstantTypes
<1>2. /\ routerUrl \in BOOLEAN /\ request \in Workloads
      /\ pc \in [Callers -> Before \cup {"submitted", "over"}]
      /\ reported \in [Callers -> BOOLEAN] /\ lost \in [Callers -> BOOLEAN]
  BY DEF Before
<1>3. /\ plan \in [Callers -> Transaction]
      /\ submission \in [Callers -> Submission]
      /\ taken \in [Callers -> SUBSET [lane : Lanes, tx : Transaction]]
  BY EmptyTypes
<1>4. ASSUME NEW c \in Callers
      PROVE  CallerInv(c)
  <2>1. /\ pc[c] = "idle" /\ plan[c] = NoTransaction /\ ~ reported[c]
        /\ submission[c] = NoSubmission /\ taken[c] = {}
    OBVIOUS
  <2>2. NoTransaction.limit = 0
    BY DEF NoTransaction
  <2>3. QED
    BY <2>1, <2>2, EmptyTypes, ConstantTypes
       DEF CallerInv, AttemptInv, ReceiptInv, LedgerInv, PlanInv, Planned, At,
           OptionsOf, TxOf, Attempting
<1>5. QED
  BY <1>1, <1>2, <1>3, <1>4 DEF IInv, Types

\* Every step preserves it.
LEMMA InvStep == IInv /\ [Next]_vars => IInv'
<1> SUFFICES ASSUME IInv, [Next]_vars
             PROVE  IInv'
  OBVIOUS
<1>1. ASSUME NEW c \in Callers, CallerStep(c)
      PROVE  IInv'
  <2>1. Types /\ CallerInv(c)
    BY DEF IInv
  <2>2. Types' /\ CallerInv(c)' /\ Frame(c)
    BY <1>1, <2>1, CallStep, ProceedStep, BuildStep, ThrowsStep, SubmitCallStep,
       ReturnsStep, SubmissionStep DEF CallerStep
  <2>3. ASSUME NEW d \in Callers \ {c}
        PROVE  CallerInv(d)'
    <3>1. CallerInv(d)
      BY DEF IInv
    <3>2. QED
      BY <2>2, <3>1
         DEF Frame, CallerInv, AttemptInv, ReceiptInv, LedgerInv, PlanInv, Planned,
             Bounded, At, OptionsOf, TxOf, Taken, Copy
  <2>4. QED
    BY <2>2, <2>3 DEF IInv
<1>2. ASSUME now' \in 0 .. MaxTime, UNCHANGED <<submitVars, policyVars, callVars>>
      PROVE  IInv'
  BY <1>2
     DEF IInv, Types, submitVars, policyVars, callVars, CallerInv, AttemptInv,
         ReceiptInv, LedgerInv, PlanInv, Planned, Bounded, At, OptionsOf, TxOf,
         Taken, Copy
<1>3. CASE Tick \/ UNCHANGED vars
  <2>1. now' \in 0 .. MaxTime
    BY <1>3, ConstantTypes DEF Tick, SubmitTick, vars, IInv, Types
  <2>2. QED
    BY <1>2, <1>3, <2>1 DEF Tick, SubmitTick, vars
<1>4. QED
  BY <1>1, <1>3 DEF Next, Terminated

\* The invariant holds in every reachable state.
THEOREM InductiveInvariant == Spec => []IInv
<1>1. Init => IInv
  BY InvInit
<1>2. IInv /\ [Next]_vars => IInv'
  BY InvStep
<1>3. QED
  BY <1>1, <1>2, PTL DEF Spec

\* The state keeps its types; no attempt is one too many.
THEOREM TypeCorrect == Spec => []TypeOK
<1>1. IInv => TypeOK
  <2> SUFFICES ASSUME IInv
               PROVE  TypeOK
    OBVIOUS
  <2>1. ASSUME NEW c \in Callers
        PROVE  /\ submission[c].pc \in
                     {"none", "simulate", "send", "backoff", "done", "failed"}
               /\ submission[c].error \in
                     Kinds \cup {"none", "BlockhashStale", "RpcRetriable"}
               /\ OptionsOf(c) \in SubmitOptionRecord /\ TxOf(c) \in Transaction
               /\ submission[c].attempts \in 0 .. OptionsOf(c).maxRetries
               /\ taken[c] \subseteq [lane : Lanes, tx : Transaction]
    <3>1. submission[c] \in Submission /\ AttemptInv(c)
      BY DEF IInv, Types, CallerInv
    <3>2. OptionsOf(c) \in SubmitOptionRecord /\ OptionsOf(c).maxRetries \in Nat
      BY <3>1 DEF Submission, OptionsOf, SubmitOptionRecord
    <3>3. submission[c].attempts \in 0 .. OptionsOf(c).maxRetries
      BY <3>1, <3>2 DEF Submission, AttemptInv
    <3>4. QED
      BY <3>1, <3>2, <3>3 DEF Submission, TxOf, IInv, Types
  <2>2. QED
    BY <2>1 DEF IInv, Types, TypeOK, Before
<1>2. QED
  BY <1>1, InductiveInvariant, PTL

\* A receipt is about the transaction that the call built, which the caller's
\* own lane has taken.
THEOREM ReceiptsHonest == Spec => []HonestReceipt
<1>1. IInv => HonestReceipt
  <2> SUFFICES ASSUME IInv, NEW c \in Callers
               PROVE  /\ At(c, "done") =>
                            [lane |-> request[c].submit.lane, tx |-> plan[c]] \in taken[c]
                      /\ \A copy \in taken[c] :
                            /\ copy.lane = request[c].submit.lane
                            /\ copy.lane = "router" => routerUrl
    BY DEF HonestReceipt
  <2>1. ReceiptInv(c)
    BY DEF IInv, CallerInv
  <2>2. QED
    BY <2>1 DEF ReceiptInv, At, Taken, Copy
<1>2. QED
  BY <1>1, InductiveInvariant, PTL

\* Unless an answer was lost, calling again after an error sends nothing twice.
THEOREM NoDuplicates == Spec => []NoDuplicateWithoutLoss
<1>1. IInv => NoDuplicateWithoutLoss
  <2> SUFFICES ASSUME IInv, NEW c \in Callers, ~ lost[c]
               PROVE  /\ At(c, "failed") => taken[c] = {}
                      /\ \A a, b \in taken[c] : a = b
    BY DEF NoDuplicateWithoutLoss
  <2>1. LedgerInv(c) /\ AttemptInv(c)
    BY DEF IInv, CallerInv
  <2>2. At(c, "failed") => pc[c] = "submitted" /\ ~ At(c, "done")
    BY <2>1, EmptyTypes DEF AttemptInv, At
  <2>3. QED
    BY <2>1, <2>2 DEF LedgerInv
<1>2. QED
  BY <1>1, InductiveInvariant, PTL

\* A plan that is submitted keeps the policy's bounds, and one that was
\* tightened to a reported use allows it.
THEOREM PlansCoverUse == Spec => []PlanCoversUse
<1>1. IInv => PlanCoversUse
  <2> SUFFICES ASSUME IInv, NEW c \in Callers,
                      NEW copy \in taken[c]
                            \cup (IF TxOf(c) = NoTransaction THEN {} ELSE {Copy(c)})
               PROVE  /\ copy.tx.price \in MinCuPrice .. MaxCuPrice
                      /\ copy.tx.limit <= MaxCuLimit
                      /\ request[c].tighten /\ reported[c] /\ copy.tx = TxOf(c)
                            => request[c].use <= copy.tx.limit
    BY DEF PlanCoversUse
  <2>1. ReceiptInv(c) /\ PlanInv(c)
    BY DEF IInv, CallerInv
  <2>2. Bounded(copy.tx)
    <3>1. CASE copy \in taken[c]
      BY <2>1, <3>1 DEF PlanInv
    <3>2. CASE copy \notin taken[c]
      <4>1. TxOf(c) # NoTransaction /\ copy.tx = TxOf(c)
        BY <3>2 DEF Copy
      <4>2. QED
        BY <2>1, <4>1 DEF ReceiptInv, PlanInv, Planned
    <3>3. QED
      BY <3>1, <3>2
  <2>3. ASSUME request[c].tighten, reported[c], copy.tx = TxOf(c)
        PROVE  request[c].use <= copy.tx.limit
    <3>1. request[c].use <= plan[c].limit /\ plan[c].limit <= MaxCuLimit
      BY <2>1, <2>3 DEF PlanInv
    <3>2. CASE TxOf(c) = plan[c]
      BY <2>3, <3>1, <3>2
    <3>3. CASE TxOf(c) = NoTransaction
      <4>1. copy.tx.limit = 0 /\ MaxCuLimit = 0
        BY <2>2, <2>3, <3>3 DEF Bounded, NoTransaction
      <4>2. plan[c].limit \in Nat /\ request[c].use \in Nat
        BY ConstantTypes DEF IInv, Types, Transaction, Request
      <4>3. QED
        BY <3>1, <4>1, <4>2
    <3>4. QED
      BY <2>1, <3>2, <3>3 DEF ReceiptInv
  <2>4. QED
    BY <2>2, <2>3 DEF Bounded
<1>2. QED
  BY <1>1, InductiveInvariant, PTL

=============================================================================

------------------------ MODULE LayerPipeline_proofs ------------------------
(***************************************************************************)
(* Proofs about LayerPipeline, for any layers and plans, any number of     *)
(* permits and attempts that sanitised() allows, and any command lines.    *)
(***************************************************************************)
EXTENDS LayerPipeline, FiniteSetTheorems, TLAPS

-----------------------------------------------------------------------------
(* The invariant of a task, and of the driver.                             *)

\* In the rollup stage, and behind it.
InRouter == {"session", "execute"}
Behind == {"acquire", "occ", "lease", "send"}

\* The variables of the tasks have their types.
TaskTypes ==
    /\ opts \in Options
    /\ driver \in {"plan", "join", "done", "aborted"}
    /\ layer \in 1..Layers
    /\ pc \in [Chunks -> PCs]
    /\ attempt \in [Chunks -> 0..MaxAttempts]
    /\ prepared \in [Chunks -> {"none", "simulated", "real"}]
    /\ result \in [Chunks -> Results]
    /\ routed \in [Chunks -> SUBSET Attempts]
    /\ settled \in [Chunks -> SUBSET Attempts]
    /\ original \in [Chunks -> SUBSET Attempts]

\* The counter stops short of max_attempts when another attempt is to come.
AttemptInv(c) ==
    /\ pc[c] \in {"queued", "attempt", "backoff"} => attempt[c] < MaxAttempts
    /\ pc[c] \in InRouter \cup Behind => attempt[c] >= 1

\* A finished task has a result, which counts the attempts there were.
ResultInv(c) ==
    /\ pc[c] = "finished" <=> result[c] # NoResult
    /\ (result[c].outcome = "Success" /\ ~ opts.dryRun)
          => result[c].attempts \in Submitted(c)
    /\ (result[c].outcome = "Failed" /\ result[c].retriable)
          => result[c].attempts = MaxAttempts

\* What is prepared belongs to the attempt that goes on with it.
PreparedInv(c) ==
    /\ pc[c] \in InRouter => prepared[c] = "none"
    /\ (pc[c] \in Behind /\ prepared[c] = "real") => attempt[c] \in routed[c]
    /\ (/\ pc[c] \in Behind /\ c \in ErEligible /\ opts.er
        /\ opts.requireRouter /\ ~ opts.dryRun) => prepared[c] = "real"

\* A settlement follows an execution, and a required router is not bypassed.
LedgerInv(c) ==
    /\ settled[c] \subseteq routed[c]
    /\ (opts.er /\ opts.requireRouter /\ c \in ErEligible) => original[c] = {}

\* The invariant of a task.
TaskInv(c) ==
    AttemptInv(c) /\ ResultInv(c) /\ PreparedInv(c) /\ LedgerInv(c)

\* The layers before the driver's are finished, those after it have not begun.
PhaseInv ==
    /\ driver = "done" => layer = Layers
    /\ \A c \in Chunks :
          /\ LayerOf[c] < layer => pc[c] = "finished"
          /\ LayerOf[c] > layer => pc[c] = "queued"
          /\ LayerOf[c] = layer =>
                /\ driver \in {"plan", "aborted"} => pc[c] = "queued"
                /\ driver = "join" => pc[c] # "queued"
                /\ driver = "done" => pc[c] = "finished"

\* The plans of the layers up to one.
UpTo(k) == {c \in Chunks : LayerOf[c] <= k}

\* The tally, with the layers joined so far.
TallyInv ==
    /\ tally \in [success : Nat, failure : Nat]
    /\ tally.success + tally.failure =
          Cardinality(UpTo(IF driver = "done" THEN Layers ELSE layer - 1))

\* The inductive invariant.
IInv ==
    /\ TaskTypes
    /\ permits \in 0..MaxConcurrency
    /\ \A c \in Chunks : TaskInv(c)
    /\ PhaseInv
    /\ PermitsConserved
    /\ TallyInv

-----------------------------------------------------------------------------
(* Results.                                                                *)

\* What the constructors of a result build, and how results differ.
LEMMA ResultFacts ==
    /\ NoResult \in Results /\ NoResult.outcome = "None"
    /\ \A n \in Attempts :
          /\ Success(n) \in Results /\ Success(n) # NoResult
          /\ Success(n).outcome = "Success" /\ Success(n).attempts = n
    /\ \A n \in 0..MaxAttempts, r \in BOOLEAN, s \in Stages :
          /\ Failed(n, r, s) \in Results /\ Failed(n, r, s) # NoResult
          /\ Failed(n, r, s).outcome = "Failed"
          /\ Failed(n, r, s).attempts = n /\ Failed(n, r, s).retriable = r
<1>1. NoResult \in Results /\ NoResult.outcome = "None"
  BY DEF NoResult, Results
<1>2. ASSUME NEW n \in Attempts
      PROVE  /\ Success(n) \in Results /\ Success(n) # NoResult
             /\ Success(n).outcome = "Success" /\ Success(n).attempts = n
  <2>1. Success(n) \in Results
    BY DEF Results
  <2>2. Success(n).outcome = "Success" /\ Success(n).attempts = n
    BY DEF Success
  <2>3. QED
    BY <1>1, <2>1, <2>2
<1>3. ASSUME NEW n \in 0..MaxAttempts, NEW r \in BOOLEAN, NEW s \in Stages
      PROVE  /\ Failed(n, r, s) \in Results /\ Failed(n, r, s) # NoResult
             /\ Failed(n, r, s).outcome = "Failed"
             /\ Failed(n, r, s).attempts = n /\ Failed(n, r, s).retriable = r
  <2>1. Failed(n, r, s) \in Results
    BY DEF Results
  <2>2. /\ Failed(n, r, s).outcome = "Failed"
        /\ Failed(n, r, s).attempts = n /\ Failed(n, r, s).retriable = r
    BY DEF Failed
  <2>3. QED
    BY <1>1, <2>1, <2>2
<1>4. QED
  BY <1>1, <1>2, <1>3

\* A failed attempt is the last one, or another one may follow.
LEMMA EndAttemptEffect ==
    ASSUME TaskTypes, NEW c \in Chunks, NEW r \in BOOLEAN, NEW s \in Stages,
           EndAttempt(c, r, s)
    PROVE  \/ /\ pc' = [pc EXCEPT ![c] = "finished"]
              /\ result' = [result EXCEPT ![c] = Failed(attempt[c], r, s)]
              /\ r => attempt[c] = MaxAttempts
           \/ /\ pc' = [pc EXCEPT ![c] = "backoff"]
              /\ result' = result
              /\ attempt[c] < MaxAttempts
<1>1. attempt[c] \in 0..MaxAttempts /\ MaxAttempts \in Nat
  BY ConfigAssumption DEF TaskTypes
<1>2. CASE ~ r \/ Exhausted(c)
  BY <1>1, <1>2 DEF EndAttempt, Goto, Exhausted
<1>3. CASE ~ (~ r \/ Exhausted(c))
  BY <1>1, <1>3 DEF EndAttempt, Goto, Exhausted
<1>4. QED
  BY <1>2, <1>3

\* The fallback of the rollup stage goes on with the original or a simulated
\* chunk, or gives up for good.
LEMMA ErFallbackEffect ==
    ASSUME TaskTypes, NEW c \in Chunks, ErFallback(c)
    PROVE  \/ /\ pc' = [pc EXCEPT ![c] = "acquire"]
              /\ result' = result
              /\ opts.dryRun
              /\ prepared' = [prepared EXCEPT ![c] = "simulated"]
           \/ /\ pc' = [pc EXCEPT ![c] = "acquire"]
              /\ result' = result
              /\ ~ opts.requireRouter
              /\ prepared' = prepared
           \/ /\ pc' = [pc EXCEPT ![c] = "finished"]
              /\ result' = [result EXCEPT ![c] = Failed(attempt[c], FALSE, "Send")]
              /\ prepared' = prepared
BY DEF ErFallback, SimulateOnFailure, MayFallBack, EndAttempt, Goto

-----------------------------------------------------------------------------
(* A step of a task.                                                       *)

\* A step of c changes nothing of the driver's or of another task's.
Frame(c) ==
    /\ UNCHANGED driverVars
    /\ pc[c] \notin {"queued", "finished"} /\ pc'[c] # "queued"
    /\ \A d \in Chunks \ {c} :
          /\ pc'[d] = pc[d] /\ attempt'[d] = attempt[d]
          /\ prepared'[d] = prepared[d] /\ result'[d] = result[d]
          /\ routed'[d] = routed[d] /\ settled'[d] = settled[d]
          /\ original'[d] = original[d]

\* The steps that succeed, up to the send.
LEMMA ForwardStep ==
    ASSUME TaskTypes, NEW c \in Chunks, TaskInv(c),
           \/ Begin(c) \/ SessionOk(c) \/ ExecuteOk(c) \/ Acquire(c)
           \/ Wake(c) \/ OccOk(c) \/ LeaseOk(c)
    PROVE  TaskTypes' /\ TaskInv(c)' /\ Frame(c)
<1> USE ConfigAssumption DEF TaskTypes, PCs, Goto, driverVars, ledgerVars, Attempts
<1> USE DEF TaskInv, AttemptInv, ResultInv, PreparedInv, LedgerInv, Frame,
            Submitted, InRouter, Behind
<1>1. CASE Begin(c)
  <2>1. attempt[c] < MaxAttempts
    BY <1>1 DEF Begin
  <2>2. TaskTypes'
    BY <1>1, <2>1 DEF Begin
  <2>3. TaskInv(c)' /\ Frame(c)
    BY <1>1, <2>1 DEF Begin
  <2>4. QED
    BY <2>2, <2>3
<1>2. CASE SessionOk(c)
  BY <1>2 DEF SessionOk
<1>3. CASE ExecuteOk(c)
  <2>1. attempt[c] \in Attempts
    BY <1>3 DEF ExecuteOk
  <2>2. routed' = [routed EXCEPT ![c] = @ \cup {attempt[c]}]
    BY <1>3 DEF ExecuteOk, Note
  <2>3. TaskTypes'
    BY <1>3, <2>1, <2>2 DEF ExecuteOk
  <2>4. TaskInv(c)' /\ Frame(c)
    BY <1>3, <2>1, <2>2 DEF ExecuteOk
  <2>5. QED
    BY <2>3, <2>4
<1>4. CASE Acquire(c)
  BY <1>4 DEF Acquire
<1>5. CASE Wake(c)
  BY <1>5 DEF Wake
<1>6. CASE OccOk(c)
  BY <1>6 DEF OccOk
<1>7. CASE LeaseOk(c)
  BY <1>7 DEF LeaseOk
<1>8. QED
  BY <1>1, <1>2, <1>3, <1>4, <1>5, <1>6, <1>7

\* The rollup stage fails: what goes on was not prepared for settlement.
LEMMA RouterFailureStep ==
    ASSUME TaskTypes, NEW c \in Chunks, TaskInv(c),
           SessionFails(c) \/ ExecuteFails(c)
    PROVE  TaskTypes' /\ TaskInv(c)' /\ Frame(c)
<1> USE ConfigAssumption DEF TaskTypes, PCs, driverVars, Attempts
<1>1. /\ pc[c] \in InRouter /\ ErFallback(c)
      /\ UNCHANGED <<driverVars, permits, attempt, settled, original>>
      /\ routed' \in {routed, Note(routed, c)}
  BY DEF SessionFails, ExecuteFails, ledgerVars, InRouter
<1>2. attempt[c] \in Attempts /\ prepared[c] = "none"
  BY <1>1 DEF TaskInv, AttemptInv, PreparedInv
<1>3. /\ routed' \in [Chunks -> SUBSET Attempts]
      /\ routed[c] \subseteq routed'[c]
      /\ \A d \in Chunks \ {c} : routed'[d] = routed[d]
  BY <1>1, <1>2 DEF Note
<1>4. \/ pc' = [pc EXCEPT ![c] = "acquire"] /\ result' = result
      \/ /\ pc' = [pc EXCEPT ![c] = "finished"]
         /\ result' = [result EXCEPT ![c] = Failed(attempt[c], FALSE, "Send")]
  BY <1>1, ErFallbackEffect
<1>5. /\ prepared' \in {prepared, [prepared EXCEPT ![c] = "simulated"]}
      /\ pc'[c] = "acquire" => opts.dryRun \/ ~ opts.requireRouter
  BY <1>1, ErFallbackEffect
<1>6. /\ Failed(attempt[c], FALSE, "Send") \in Results
      /\ Failed(attempt[c], FALSE, "Send") # NoResult
      /\ Failed(attempt[c], FALSE, "Send").outcome = "Failed"
      /\ Failed(attempt[c], FALSE, "Send").retriable = FALSE
  BY <1>2, ResultFacts DEF Stages
<1>7. TaskTypes'
  <2>1. pc' \in [Chunks -> PCs] /\ result' \in [Chunks -> Results]
    BY <1>4, <1>6
  <2>2. prepared' \in [Chunks -> {"none", "simulated", "real"}]
    BY <1>5
  <2>3. QED
    BY <1>1, <1>3, <2>1, <2>2
<1>8. Frame(c)
  BY <1>1, <1>3, <1>4, <1>5 DEF Frame, InRouter
<1>9. AttemptInv(c)' /\ PreparedInv(c)'
  <2>1. /\ pc'[c] \in {"acquire", "finished"} /\ attempt'[c] = attempt[c]
        /\ prepared'[c] \in {"none", "simulated"} /\ opts' = opts
    BY <1>1, <1>2, <1>4, <1>5
  <2>2. AttemptInv(c)'
    BY <1>2, <2>1 DEF AttemptInv, InRouter, Behind
  <2>3. PreparedInv(c)'
    BY <1>5, <2>1 DEF PreparedInv, InRouter, Behind
  <2>4. QED
    BY <2>2, <2>3
<1>10. ResultInv(c)'
  BY <1>1, <1>4, <1>6 DEF TaskInv, ResultInv, Submitted, InRouter
<1>11. LedgerInv(c)'
  BY <1>1, <1>3 DEF TaskInv, LedgerInv
<1>12. QED
  BY <1>7, <1>8, <1>9, <1>10, <1>11 DEF TaskInv

\* What the submission of an attempt may add to the ledgers.
MaySubmit(c) ==
    \/ UNCHANGED ledgerVars
    \/ ~ opts.dryRun /\ Submit(c)

\* The ledgers of c after it may have submitted an attempt that it prepared.
LEMMA SubmitEffect ==
    ASSUME TaskTypes, NEW c \in Chunks, TaskInv(c), pc[c] \in Behind, MaySubmit(c)
    PROVE  /\ settled' \in [Chunks -> SUBSET Attempts]
           /\ original' \in [Chunks -> SUBSET Attempts]
           /\ routed' = routed
           /\ \A d \in Chunks \ {c} :
                  settled'[d] = settled[d] /\ original'[d] = original[d]
           /\ settled[c] \subseteq settled'[c] /\ original[c] \subseteq original'[c]
           /\ settled'[c] \subseteq routed[c]
           /\ (opts.er /\ opts.requireRouter /\ c \in ErEligible)
                  => original'[c] = {}
<1> USE ConfigAssumption DEF TaskTypes, Attempts, ledgerVars
<1>1. attempt[c] \in Attempts
  BY DEF TaskInv, AttemptInv
<1>2. CASE UNCHANGED ledgerVars
  BY <1>2 DEF TaskInv, LedgerInv
<1>3. CASE ~ opts.dryRun /\ Submit(c) /\ prepared[c] = "real"
  <2>1. /\ settled' = [settled EXCEPT ![c] = @ \cup {attempt[c]}]
        /\ original' = original /\ routed' = routed
    BY <1>3 DEF Submit, Note
  <2>2. attempt[c] \in routed[c]
    BY <1>3 DEF TaskInv, PreparedInv
  <2>3. QED
    BY <1>1, <2>1, <2>2 DEF TaskInv, LedgerInv
<1>4. CASE ~ opts.dryRun /\ Submit(c) /\ prepared[c] # "real"
  <2>1. /\ original' = [original EXCEPT ![c] = @ \cup {attempt[c]}]
        /\ settled' = settled /\ routed' = routed
    BY <1>4 DEF Submit, Note
  <2>2. ~ (opts.er /\ opts.requireRouter /\ c \in ErEligible)
    BY <1>4 DEF TaskInv, PreparedInv
  <2>3. QED
    BY <1>1, <2>1, <2>2 DEF TaskInv, LedgerInv
<1>5. QED
  BY <1>2, <1>3, <1>4 DEF MaySubmit

\* An attempt fails behind the semaphore, before or after a submission.
LEMMA FailureStep ==
    ASSUME TaskTypes, NEW c \in Chunks, TaskInv(c),
           OccFails(c) \/ LeaseFails(c) \/ SendFails(c) \/ SendStale(c) \/ SendLost(c)
    PROVE  TaskTypes' /\ TaskInv(c)' /\ Frame(c)
<1> USE ConfigAssumption DEF TaskTypes, PCs, driverVars, Attempts
<1>1. /\ pc[c] \in Behind /\ MaySubmit(c)
      /\ UNCHANGED <<driverVars, attempt, prepared>>
      /\ \E r \in BOOLEAN, s \in Stages : EndAttempt(c, r, s)
  <2>1. CASE OccFails(c)
    BY <2>1 DEF OccFails, Behind, MaySubmit, Stages
  <2>2. CASE LeaseFails(c)
    BY <2>2 DEF LeaseFails, Behind, MaySubmit, Stages
  <2>3. CASE SendFails(c)
    BY <2>3 DEF SendFails, Behind, MaySubmit, Stages
  <2>4. CASE SendStale(c)
    BY <2>4 DEF SendStale, Behind, MaySubmit, Stages
  <2>5. CASE SendLost(c)
    BY <2>5 DEF SendLost, Behind, MaySubmit, Stages
  <2>6. QED
    BY <2>1, <2>2, <2>3, <2>4, <2>5
<1>2. attempt[c] \in Attempts
  BY <1>1 DEF TaskInv, AttemptInv
<1>3. PICK r \in BOOLEAN, s \in Stages : EndAttempt(c, r, s)
  BY <1>1
<1>4. \/ /\ pc' = [pc EXCEPT ![c] = "finished"]
         /\ result' = [result EXCEPT ![c] = Failed(attempt[c], r, s)]
         /\ r => attempt[c] = MaxAttempts
      \/ /\ pc' = [pc EXCEPT ![c] = "backoff"]
         /\ result' = result
         /\ attempt[c] < MaxAttempts
  BY <1>3, EndAttemptEffect
<1>5. /\ Failed(attempt[c], r, s) \in Results /\ Failed(attempt[c], r, s) # NoResult
      /\ Failed(attempt[c], r, s).outcome = "Failed"
      /\ Failed(attempt[c], r, s).attempts = attempt[c]
      /\ Failed(attempt[c], r, s).retriable = r
  BY <1>2, ResultFacts
<1>6. /\ settled' \in [Chunks -> SUBSET Attempts]
      /\ original' \in [Chunks -> SUBSET Attempts]
      /\ routed' = routed
      /\ \A d \in Chunks \ {c} :
            settled'[d] = settled[d] /\ original'[d] = original[d]
      /\ settled[c] \subseteq settled'[c] /\ original[c] \subseteq original'[c]
      /\ settled'[c] \subseteq routed[c]
      /\ (opts.er /\ opts.requireRouter /\ c \in ErEligible) => original'[c] = {}
  BY <1>1, SubmitEffect
<1>7. TaskTypes'
  BY <1>1, <1>4, <1>5, <1>6
<1>8. Frame(c)
  BY <1>1, <1>4, <1>6 DEF Frame, Behind
<1>9. AttemptInv(c)' /\ PreparedInv(c)'
  BY <1>1, <1>4 DEF AttemptInv, PreparedInv, InRouter, Behind
<1>10. ResultInv(c)'
  BY <1>1, <1>4, <1>5, <1>6 DEF TaskInv, ResultInv, Submitted, Behind
<1>11. LedgerInv(c)'
  BY <1>1, <1>6 DEF LedgerInv
<1>12. QED
  BY <1>7, <1>8, <1>9, <1>10, <1>11 DEF TaskInv

\* The report of the sender.
LEMMA SendOkStep ==
    ASSUME TaskTypes, NEW c \in Chunks, TaskInv(c), SendOk(c)
    PROVE  TaskTypes' /\ TaskInv(c)' /\ Frame(c)
<1> USE ConfigAssumption DEF TaskTypes, PCs, driverVars, Attempts
<1>1. /\ pc[c] = "send" /\ pc[c] \in Behind /\ MaySubmit(c)
      /\ UNCHANGED <<driverVars, attempt, prepared>>
      /\ pc' = [pc EXCEPT ![c] = "finished"]
      /\ result' = [result EXCEPT ![c] = Success(attempt[c])]
  BY DEF SendOk, Behind, MaySubmit, Goto
<1>2. attempt[c] \in Attempts
  BY <1>1 DEF TaskInv, AttemptInv
<1>3. /\ Success(attempt[c]) \in Results /\ Success(attempt[c]) # NoResult
      /\ Success(attempt[c]).outcome = "Success"
      /\ Success(attempt[c]).attempts = attempt[c]
  BY <1>2, ResultFacts
<1>4. /\ settled' \in [Chunks -> SUBSET Attempts]
      /\ original' \in [Chunks -> SUBSET Attempts]
      /\ routed' = routed
      /\ \A d \in Chunks \ {c} :
            settled'[d] = settled[d] /\ original'[d] = original[d]
      /\ settled'[c] \subseteq routed[c]
      /\ (opts.er /\ opts.requireRouter /\ c \in ErEligible) => original'[c] = {}
  BY <1>1, SubmitEffect
<1>5. ~ opts.dryRun => attempt[c] \in settled'[c] \cup original'[c]
  <2>1. ~ opts.dryRun => Submit(c)
    BY DEF SendOk
  <2>2. QED
    BY <2>1 DEF Submit, Note
<1>6. TaskTypes'
  BY <1>1, <1>3, <1>4
<1>7. Frame(c)
  BY <1>1, <1>4 DEF Frame
<1>8. AttemptInv(c)' /\ PreparedInv(c)'
  BY <1>1 DEF AttemptInv, PreparedInv, InRouter, Behind
<1>9. ResultInv(c)'
  BY <1>1, <1>3, <1>5 DEF ResultInv, Submitted
<1>10. LedgerInv(c)'
  BY <1>1, <1>4 DEF LedgerInv
<1>11. QED
  BY <1>6, <1>7, <1>8, <1>9, <1>10 DEF TaskInv

\* A panic: the join reports a failure.
LEMMA PanicStep ==
    ASSUME TaskTypes, NEW c \in Chunks, TaskInv(c), Panic(c)
    PROVE  TaskTypes' /\ TaskInv(c)' /\ Frame(c)
<1> USE ConfigAssumption DEF TaskTypes, PCs, driverVars, Attempts
<1>1. /\ pc[c] \in InRouter \cup Behind
      /\ UNCHANGED <<driverVars, attempt, prepared, settled, original>>
      /\ pc' = [pc EXCEPT ![c] = "finished"]
      /\ result' = [result EXCEPT ![c] = Failed(0, FALSE, "Send")]
      /\ routed' \in {routed, Note(routed, c)}
  BY DEF Panic, InRouter, Behind, Goto
<1>2. /\ Failed(0, FALSE, "Send") \in Results
      /\ Failed(0, FALSE, "Send") # NoResult
      /\ Failed(0, FALSE, "Send").outcome = "Failed"
      /\ Failed(0, FALSE, "Send").retriable = FALSE
  <2>1. PICK none \in 0..MaxAttempts : none = 0
    OBVIOUS
  <2>2. /\ Failed(none, FALSE, "Send") \in Results
        /\ Failed(none, FALSE, "Send") # NoResult
        /\ Failed(none, FALSE, "Send").outcome = "Failed"
        /\ Failed(none, FALSE, "Send").retriable = FALSE
    BY ResultFacts DEF Stages
  <2>3. QED
    BY <2>1, <2>2
<1>3. attempt[c] \in Attempts
  BY <1>1 DEF TaskInv, AttemptInv
<1>4. /\ routed' \in [Chunks -> SUBSET Attempts]
      /\ routed[c] \subseteq routed'[c]
      /\ \A d \in Chunks \ {c} : routed'[d] = routed[d]
  BY <1>1, <1>3 DEF Note
<1>5. TaskTypes'
  BY <1>1, <1>2, <1>4
<1>6. Frame(c)
  BY <1>1, <1>4 DEF Frame, InRouter, Behind
<1>7. AttemptInv(c)' /\ PreparedInv(c)'
  BY <1>1 DEF AttemptInv, PreparedInv, InRouter, Behind
<1>8. ResultInv(c)'
  BY <1>1, <1>2 DEF ResultInv
<1>9. LedgerInv(c)'
  BY <1>1, <1>4 DEF TaskInv, LedgerInv
<1>10. QED
  BY <1>5, <1>6, <1>7, <1>8, <1>9 DEF TaskInv

\* The steps of a task, taken together.
LEMMA TaskStepEffect ==
    ASSUME TaskTypes, NEW c \in Chunks, TaskInv(c), TaskStep(c)
    PROVE  TaskTypes' /\ TaskInv(c)' /\ Frame(c)
BY ForwardStep, RouterFailureStep, FailureStep, SendOkStep, PanicStep DEF TaskStep

\* What a step of a task preserves, for every task: it is made while the
\* driver joins.
LEMMA TaskStepInvariant ==
    ASSUME TaskTypes, \A d \in Chunks : TaskInv(d), PhaseInv,
           NEW c \in Chunks, TaskStep(c)
    PROVE  /\ TaskTypes' /\ (\A d \in Chunks : TaskInv(d)') /\ PhaseInv'
           /\ driver = "join" /\ UNCHANGED driverVars
<1>1. TaskTypes' /\ TaskInv(c)' /\ Frame(c)
  BY TaskStepEffect
<1>2. LayerOf[c] = layer /\ driver = "join"
  <2>1. pc[c] \notin {"queued", "finished"}
    BY <1>1 DEF Frame
  <2>2. LayerOf[c] \in 1..Layers /\ layer \in 1..Layers
    BY LayersAssumption DEF TaskTypes
  <2>3. LayerOf[c] = layer
    BY <2>1, <2>2, LayersAssumption DEF PhaseInv
  <2>4. QED
    BY <2>1, <2>3 DEF PhaseInv, TaskTypes
<1>3. ASSUME NEW d \in Chunks
      PROVE  TaskInv(d)'
  <2>1. CASE d = c
    BY <1>1, <2>1
  <2>2. CASE d # c
    <3>1. /\ pc'[d] = pc[d] /\ attempt'[d] = attempt[d]
          /\ prepared'[d] = prepared[d] /\ result'[d] = result[d]
          /\ routed'[d] = routed[d] /\ settled'[d] = settled[d]
          /\ original'[d] = original[d] /\ opts' = opts
      BY <1>1, <2>2 DEF Frame, driverVars
    <3>2. TaskInv(d)
      OBVIOUS
    <3>3. AttemptInv(d)' /\ PreparedInv(d)'
      BY <3>1, <3>2 DEF TaskInv, AttemptInv, PreparedInv
    <3>4. ResultInv(d)' /\ LedgerInv(d)'
      BY <3>1, <3>2 DEF TaskInv, ResultInv, LedgerInv, Submitted
    <3>5. QED
      BY <3>3, <3>4 DEF TaskInv
  <2>3. QED
    BY <2>1, <2>2
<1>4. PhaseInv'
  <2>1. driver' = driver /\ layer' = layer
    BY <1>1 DEF Frame, driverVars
  <2>2. /\ pc'[c] # "queued"
        /\ \A d \in Chunks \ {c} : pc'[d] = pc[d]
    BY <1>1 DEF Frame
  <2>3. layer \in 1..Layers
    BY DEF TaskTypes
  <2>4. QED
    BY <1>2, <2>1, <2>2, <2>3, LayersAssumption DEF PhaseInv
<1>5. QED
  BY <1>1, <1>2, <1>3, <1>4 DEF Frame

-----------------------------------------------------------------------------
(* The permits.                                                            *)

\* The tasks that have a permit.
Holders == {d \in Chunks : HoldsPermit(d)}

\* A task takes a permit, gives its own back, or leaves the semaphore alone.
LEMMA PermitEffect ==
    ASSUME TaskTypes, NEW c \in Chunks, TaskStep(c)
    PROVE  \/ /\ permits > 0 /\ permits' = permits - 1
              /\ ~ HoldsPermit(c) /\ HoldsPermit(c)'
           \/ permits' = permits + 1 /\ HoldsPermit(c) /\ ~ HoldsPermit(c)'
           \/ permits' = permits /\ (HoldsPermit(c)' <=> HoldsPermit(c))
<1> USE DEF TaskTypes, HoldsPermit
<1> DEFINE NowAt(labels) == \E l \in labels : pc' = [pc EXCEPT ![c] = l]
<1>1. ASSUME NEW r \in BOOLEAN, NEW s \in Stages, EndAttempt(c, r, s)
      PROVE  NowAt({"finished", "backoff"})
  BY <1>1, EndAttemptEffect
<1>2. CASE Begin(c) \/ SessionOk(c) \/ ExecuteOk(c) \/ Wake(c)
  BY <1>2 DEF Begin, SessionOk, ExecuteOk, Wake, Goto
<1>3. CASE SessionFails(c) \/ ExecuteFails(c)
  <2>1. pc[c] \in {"session", "execute"} /\ permits' = permits /\ ErFallback(c)
    BY <1>3 DEF SessionFails, ExecuteFails
  <2>2. NowAt({"acquire", "finished"})
    BY <2>1, ErFallbackEffect
  <2>3. QED
    BY <2>1, <2>2
<1>4. CASE Acquire(c)
  BY <1>4 DEF Acquire, Goto
<1>5. CASE OccOk(c) \/ LeaseOk(c)
  BY <1>5 DEF OccOk, LeaseOk, Goto
<1>6. CASE \/ OccFails(c) \/ LeaseFails(c) \/ SendFails(c)
           \/ SendStale(c) \/ SendLost(c)
  <2>1. /\ pc[c] \in {"occ", "lease", "send"} /\ permits' = permits + 1
        /\ \E r \in BOOLEAN, s \in Stages : EndAttempt(c, r, s)
    BY <1>6 DEF OccFails, LeaseFails, SendFails, SendStale, SendLost, Release, Stages
  <2>2. NowAt({"finished", "backoff"})
    BY <1>1, <2>1
  <2>3. QED
    BY <2>1, <2>2
<1>7. CASE SendOk(c)
  BY <1>7 DEF SendOk, Release, Goto
<1>8. CASE Panic(c)
  BY <1>8 DEF Panic, Goto
<1>9. QED
  BY <1>2, <1>3, <1>4, <1>5, <1>6, <1>7, <1>8 DEF TaskStep

\* Whatever the step, the free permits and those held add up.
LEMMA PermitsStep ==
    ASSUME TaskTypes, permits \in 0..MaxConcurrency, PermitsConserved,
           Concurrency(layer) <= MaxConcurrency, Concurrency(layer) \in Nat,
           driver = "join", UNCHANGED driverVars,
           NEW c \in Chunks, TaskStep(c),
           \A d \in Chunks \ {c} : pc'[d] = pc[d]
    PROVE  permits' \in 0..MaxConcurrency /\ PermitsConserved'
<1>1. permits + Cardinality(Holders) = Concurrency(layer)
  BY DEF PermitsConserved, Holders
<1>2. IsFiniteSet(Holders) /\ Cardinality(Holders) \in Nat
  BY ChunksAssumption, FS_Subset, FS_CardinalityType DEF Holders
<1>3. \A d \in Chunks \ {c} : d \in Holders' <=> d \in Holders
  BY DEF Holders, HoldsPermit
<1>4. Concurrency(layer)' = Concurrency(layer) /\ layer' = layer
  BY DEF driverVars, Concurrency, Plans
<1>5. /\ permits' \in Nat
      /\ Cardinality(Holders') \in Nat
      /\ permits' + Cardinality(Holders') = permits + Cardinality(Holders)
  <2>1. CASE /\ permits > 0 /\ permits' = permits - 1
             /\ ~ HoldsPermit(c) /\ HoldsPermit(c)'
    <3>1. Holders' = Holders \cup {c} /\ c \notin Holders
      BY <1>3, <2>1 DEF Holders
    <3>2. Cardinality(Holders') = Cardinality(Holders) + 1
      BY <1>2, <3>1, FS_AddElement
    <3>3. QED
      BY <1>2, <2>1, <3>2
  <2>2. CASE permits' = permits + 1 /\ HoldsPermit(c) /\ ~ HoldsPermit(c)'
    <3>1. Holders' = Holders \ {c} /\ c \in Holders
      BY <1>3, <2>2 DEF Holders
    <3>2. Cardinality(Holders') = Cardinality(Holders) - 1 /\ IsFiniteSet(Holders')
      BY <1>2, <3>1, FS_RemoveElement
    <3>3. Cardinality(Holders') \in Nat
      BY <3>2, FS_CardinalityType
    <3>4. QED
      BY <1>2, <2>2, <3>2, <3>3
  <2>3. CASE permits' = permits /\ (HoldsPermit(c)' <=> HoldsPermit(c))
    <3>1. Holders' = Holders
      BY <1>3, <2>3 DEF Holders
    <3>2. QED
      BY <1>2, <2>3, <3>1
  <2>4. QED
    BY <2>1, <2>2, <2>3, PermitEffect
<1>6. permits' \in 0..MaxConcurrency
  BY <1>1, <1>2, <1>5, ConfigAssumption
<1>7. QED
  BY <1>1, <1>4, <1>5, <1>6 DEF PermitsConserved, Holders

-----------------------------------------------------------------------------
(* The driver.                                                             *)

\* A set of plans is finite; a layer has at least one permit and no more than
\* the configuration allows.
LEMMA PlanFacts ==
    /\ \A S \in SUBSET Chunks : IsFiniteSet(S) /\ Cardinality(S) \in Nat
    /\ \A k : Concurrency(k) \in Nat /\ Concurrency(k) <= MaxConcurrency
<1>1. \A S \in SUBSET Chunks : IsFiniteSet(S) /\ Cardinality(S) \in Nat
  BY ChunksAssumption, FS_Subset, FS_CardinalityType
<1>2. \A k : Concurrency(k) \in Nat /\ Concurrency(k) <= MaxConcurrency
  BY ConfigAssumption DEF Concurrency
<1>3. QED
  BY <1>1, <1>2

\* Joining a layer adds its plans to those of the layers before it.
LEMMA UpToNext ==
    ASSUME NEW k \in 1..Layers
    PROVE  Cardinality(UpTo(k)) = Cardinality(UpTo(k - 1)) + Cardinality(Plans(k))
<1>1. /\ UpTo(k) = UpTo(k - 1) \cup Plans(k)
      /\ UpTo(k - 1) \cap Plans(k) = {}
  <2>1. \A c \in Chunks : /\ LayerOf[c] <= k <=> LayerOf[c] <= k - 1 \/ LayerOf[c] = k
                          /\ ~ (LayerOf[c] <= k - 1 /\ LayerOf[c] = k)
    BY LayersAssumption
  <2>2. QED
    BY <2>1 DEF UpTo, Plans
<1>2. /\ IsFiniteSet(UpTo(k - 1)) /\ Cardinality(UpTo(k - 1)) \in Nat
      /\ IsFiniteSet(Plans(k)) /\ Cardinality(Plans(k)) \in Nat
  BY PlanFacts DEF UpTo, Plans
<1>3. Cardinality(UpTo(k - 1) \cup Plans(k)) =
          Cardinality(UpTo(k - 1)) + Cardinality(Plans(k))
              - Cardinality(UpTo(k - 1) \cap Plans(k))
  BY <1>2, FS_Union
<1>4. Cardinality(UpTo(k - 1) \cap Plans(k)) = 0
  BY <1>1, FS_EmptySet
<1>5. QED
  BY <1>1, <1>2, <1>3, <1>4

\* Successes and failures of a layer add up to its plans.
LEMMA TallyOfLayer ==
    ASSUME NEW ok \in SUBSET Counted
    PROVE  /\ Cardinality(ok) \in Nat /\ Cardinality(Counted \ ok) \in Nat
           /\ Cardinality(ok) + Cardinality(Counted \ ok) = Cardinality(Plans(layer))
<1>1. /\ IsFiniteSet(ok) /\ Cardinality(ok) \in Nat
      /\ IsFiniteSet(Counted \ ok) /\ Cardinality(Counted \ ok) \in Nat
  BY PlanFacts DEF Counted, Plans
<1>2. ok \cup (Counted \ ok) = Plans(layer) /\ ok \cap (Counted \ ok) = {}
  BY DEF Counted
<1>3. Cardinality(ok \cup (Counted \ ok)) =
          Cardinality(ok) + Cardinality(Counted \ ok) - Cardinality(ok \cap (Counted \ ok))
  BY <1>1, FS_Union
<1>4. Cardinality(ok \cap (Counted \ ok)) = 0
  BY <1>2, FS_EmptySet
<1>5. QED
  BY <1>1, <1>2, <1>3, <1>4

\* A tally that counts every plan once cannot exceed the plans.
LEMMA TallyBounds ==
    ASSUME TallyInv
    PROVE  /\ tally \in [success : 0..Cardinality(Chunks),
                         failure : 0..Cardinality(Chunks)]
           /\ EveryPlanCounted
<1>1. \A k : /\ Cardinality(UpTo(k)) \in Nat /\ Cardinality(Chunks) \in Nat
             /\ Cardinality(UpTo(k)) <= Cardinality(Chunks)
  BY ChunksAssumption, FS_Subset, FS_CardinalityType DEF UpTo
<1>2. /\ tally = [success |-> tally.success, failure |-> tally.failure]
      /\ tally.success \in Nat /\ tally.failure \in Nat
  BY DEF TallyInv
<1>3. tally.success + tally.failure <= Cardinality(Chunks)
  BY <1>1 DEF TallyInv
<1>4. /\ tally.success \in 0..Cardinality(Chunks)
      /\ tally.failure \in 0..Cardinality(Chunks)
  BY <1>1, <1>2, <1>3
<1>5. tally \in [success : 0..Cardinality(Chunks), failure : 0..Cardinality(Chunks)]
  BY <1>2, <1>4
<1>6. EveryPlanCounted
  BY DEF TallyInv, EveryPlanCounted, UpTo
<1>7. QED
  BY <1>5, <1>6

\* Nothing has begun.
LEMMA InvInit == Init => IInv
<1> SUFFICES ASSUME Init
             PROVE  IInv
  OBVIOUS
<1>1. TaskTypes /\ permits \in 0..MaxConcurrency
  BY LayersAssumption, ConfigAssumption, ResultFacts
     DEF Init, TaskTypes, PCs, NoAttempts, Attempts
<1>2. \A c \in Chunks : TaskInv(c)
  BY ConfigAssumption, ResultFacts
     DEF Init, TaskInv, AttemptInv, ResultInv, PreparedInv, LedgerInv, NoAttempts,
         InRouter, Behind
<1>3. PhaseInv /\ PermitsConserved
  BY LayersAssumption DEF Init, PhaseInv, PermitsConserved
<1>4. TallyInv
  <2>1. UpTo(0) = {}
    BY LayersAssumption DEF UpTo
  <2>2. Cardinality(UpTo(0)) = 0
    BY <2>1, FS_EmptySet
  <2>3. /\ tally = [success |-> 0, failure |-> 0]
        /\ (IF driver = "done" THEN Layers ELSE layer - 1) = 0
    BY DEF Init
  <2>4. QED
    BY <2>2, <2>3 DEF TallyInv
<1>5. QED
  BY <1>1, <1>2, <1>3, <1>4 DEF IInv

\* The tasks of a layer are spawned, with all its permits free.
LEMMA StartLayerStep == IInv /\ StartLayer => IInv'
<1> SUFFICES ASSUME IInv, StartLayer
             PROVE  IInv'
  OBVIOUS
<1>1. /\ TaskTypes /\ (\A c \in Chunks : TaskInv(c)) /\ PhaseInv /\ TallyInv
      /\ driver = "plan" /\ driver' = "join" /\ permits' = Concurrency(layer)
      /\ pc' = [c \in Chunks |-> IF LayerOf[c] = layer THEN "attempt" ELSE pc[c]]
      /\ UNCHANGED <<opts, layer, tally, attempt, prepared, result>>
      /\ UNCHANGED <<routed, settled, original>>
  BY DEF IInv, StartLayer, ledgerVars
<1>2. TaskTypes' /\ permits' \in 0..MaxConcurrency
  <2>1. pc' \in [Chunks -> PCs]
    BY <1>1 DEF TaskTypes, PCs
  <2>2. permits' \in 0..MaxConcurrency
    BY <1>1, PlanFacts, ConfigAssumption
  <2>3. QED
    BY <1>1, <2>1, <2>2 DEF TaskTypes
<1>3. ASSUME NEW c \in Chunks
      PROVE  TaskInv(c)'
  <2>1. \/ pc[c] = "queued" /\ pc'[c] = "attempt"
        \/ pc'[c] = pc[c]
    BY <1>1 DEF PhaseInv
  <2>2. TaskInv(c)
    BY <1>1
  <2>3. AttemptInv(c)' /\ PreparedInv(c)'
    BY <1>1, <2>1, <2>2 DEF TaskInv, AttemptInv, PreparedInv, InRouter, Behind
  <2>4. ResultInv(c)' /\ LedgerInv(c)'
    BY <1>1, <2>1, <2>2 DEF TaskInv, ResultInv, LedgerInv, Submitted
  <2>5. QED
    BY <2>3, <2>4 DEF TaskInv
<1>4. PhaseInv'
  BY <1>1 DEF PhaseInv, TaskTypes
<1>5. PermitsConserved'
  <2>1. \A c \in Chunks : pc'[c] \in {"queued", "finished", "attempt"}
    <3>1. \A c \in Chunks : /\ LayerOf[c] \in 1..Layers /\ layer \in 1..Layers
                            /\ LayerOf[c] < layer \/ LayerOf[c] = layer
                                   \/ LayerOf[c] > layer
      BY <1>1, LayersAssumption DEF TaskTypes
    <3>2. QED
      BY <1>1, <3>1 DEF PhaseInv
  <2>2. {c \in Chunks : HoldsPermit(c)}' = {}
    BY <2>1 DEF HoldsPermit
  <2>3. Concurrency(layer)' = Concurrency(layer)
    BY <1>1 DEF Concurrency, Plans
  <2>4. QED
    BY <1>1, <2>2, <2>3, PlanFacts, FS_EmptySet DEF PermitsConserved
<1>6. TallyInv'
  BY <1>1 DEF TallyInv, UpTo
<1>7. QED
  BY <1>2, <1>3, <1>4, <1>5, <1>6 DEF IInv

\* The planner fails, and nothing of the layer has begun.
LEMMA PlanFailsStep == IInv /\ PlanFails => IInv'
<1> SUFFICES ASSUME IInv, PlanFails
             PROVE  IInv'
  OBVIOUS
<1>1. /\ TaskTypes /\ (\A c \in Chunks : TaskInv(c)) /\ PhaseInv /\ TallyInv
      /\ permits \in 0..MaxConcurrency
      /\ driver = "plan" /\ driver' = "aborted"
      /\ UNCHANGED <<opts, layer, tally, permits, pc, attempt, prepared, result>>
      /\ UNCHANGED <<routed, settled, original>>
  BY DEF IInv, PlanFails, taskVars, ledgerVars
<1>2. TaskTypes' /\ PhaseInv' /\ TallyInv' /\ PermitsConserved'
  BY <1>1 DEF TaskTypes, PhaseInv, TallyInv, UpTo, PermitsConserved
<1>3. ASSUME NEW c \in Chunks
      PROVE  TaskInv(c)'
  BY <1>1 DEF TaskInv, AttemptInv, PreparedInv, ResultInv, LedgerInv, Submitted
<1>4. QED
  BY <1>1, <1>2, <1>3 DEF IInv

\* The layer is joined and counted.
LEMMA JoinLayerStep == IInv /\ JoinLayer => IInv'
<1> SUFFICES ASSUME IInv, JoinLayer
             PROVE  IInv'
  OBVIOUS
<1>1. /\ TaskTypes /\ (\A c \in Chunks : TaskInv(c)) /\ PhaseInv /\ TallyInv
      /\ permits \in 0..MaxConcurrency
      /\ driver = "join" /\ \A c \in Plans(layer) : pc[c] = "finished"
      /\ driver' = IF layer < Layers THEN "plan" ELSE "done"
      /\ layer' = IF layer < Layers THEN layer + 1 ELSE layer
      /\ UNCHANGED <<opts, permits, pc, attempt, prepared, result>>
      /\ UNCHANGED <<routed, settled, original>>
  BY DEF IInv, JoinLayer, Joined, taskVars, ledgerVars
<1>2. layer \in 1..Layers /\ Layers \in Nat /\ layer' \in 1..Layers
  BY <1>1, LayersAssumption DEF TaskTypes
<1>3. TaskTypes' /\ PermitsConserved'
  BY <1>1, <1>2 DEF TaskTypes, PermitsConserved
<1>4. ASSUME NEW c \in Chunks
      PROVE  TaskInv(c)'
  BY <1>1 DEF TaskInv, AttemptInv, PreparedInv, ResultInv, LedgerInv, Submitted
<1>5. PhaseInv'
  <2>1. \A c \in Chunks : /\ LayerOf[c] \in 1..Layers
                          /\ LayerOf[c] = layer => pc[c] = "finished"
    BY <1>1, LayersAssumption DEF Plans
  <2>2. CASE layer < Layers
    BY <1>1, <1>2, <2>1, <2>2 DEF PhaseInv
  <2>3. CASE ~ (layer < Layers)
    BY <1>1, <1>2, <2>1, <2>3 DEF PhaseInv
  <2>4. QED
    BY <2>2, <2>3
<1>6. TallyInv'
  <2>1. PICK ok \in SUBSET Counted :
            tally' = [success |-> tally.success + Cardinality(ok),
                      failure |-> tally.failure + Cardinality(Counted \ ok)]
    BY DEF JoinLayer
  <2>2. /\ Cardinality(ok) \in Nat /\ Cardinality(Counted \ ok) \in Nat
        /\ Cardinality(ok) + Cardinality(Counted \ ok) = Cardinality(Plans(layer))
    BY TallyOfLayer
  <2>3. /\ tally.success \in Nat /\ tally.failure \in Nat
        /\ tally.success + tally.failure = Cardinality(UpTo(layer - 1))
    BY <1>1 DEF TallyInv
  <2>4. Cardinality(UpTo(layer)) =
            Cardinality(UpTo(layer - 1)) + Cardinality(Plans(layer))
    BY <1>2, UpToNext
  <2>5. (IF driver = "done" THEN Layers ELSE layer - 1)' = layer
    BY <1>1, <1>2
  <2>6. /\ tally' \in [success : Nat, failure : Nat]
        /\ tally'.success + tally'.failure = Cardinality(UpTo(layer))
    BY <2>1, <2>2, <2>3, <2>4
  <2>7. QED
    BY <2>5, <2>6 DEF TallyInv, UpTo
<1>7. QED
  BY <1>1, <1>3, <1>4, <1>5, <1>6 DEF IInv

\* A step of a task.
LEMMA TaskStepStep == IInv /\ (\E c \in Chunks : TaskStep(c)) => IInv'
<1> SUFFICES ASSUME IInv, NEW c \in Chunks, TaskStep(c)
             PROVE  IInv'
  OBVIOUS
<1>1. /\ TaskTypes' /\ (\A d \in Chunks : TaskInv(d)') /\ PhaseInv'
      /\ driver = "join" /\ UNCHANGED driverVars
  BY TaskStepInvariant DEF IInv
<1>2. \A d \in Chunks \ {c} : pc'[d] = pc[d]
  BY TaskStepEffect DEF IInv, Frame
<1>3. permits' \in 0..MaxConcurrency /\ PermitsConserved'
  BY <1>1, <1>2, PermitsStep, PlanFacts DEF IInv
<1>4. TallyInv'
  BY <1>1 DEF IInv, TallyInv, UpTo, driverVars
<1>5. QED
  BY <1>1, <1>3, <1>4 DEF IInv

\* A step that changes nothing.
LEMMA StutterStep == IInv /\ UNCHANGED vars => IInv'
<1> SUFFICES ASSUME IInv, UNCHANGED vars
             PROVE  IInv'
  OBVIOUS
<1> USE DEF vars, driverVars, taskVars, ledgerVars
<1>1. TaskTypes' /\ permits' \in 0..MaxConcurrency
  BY DEF IInv, TaskTypes
<1>2. ASSUME NEW c \in Chunks
      PROVE  TaskInv(c)'
  BY DEF IInv, TaskInv, AttemptInv, PreparedInv, ResultInv, LedgerInv, Submitted
<1>3. PhaseInv' /\ TallyInv'
  BY DEF IInv, PhaseInv, TallyInv, UpTo
<1>4. PermitsConserved'
  BY DEF IInv, PermitsConserved, HoldsPermit, Concurrency, Plans
<1>5. QED
  BY <1>1, <1>2, <1>3, <1>4 DEF IInv

-----------------------------------------------------------------------------
(* The theorems.                                                           *)

\* Tasks, driver, semaphore and ledgers keep their relation through every
\* step of a run.
THEOREM InductiveInvariant == Spec => []IInv
<1>1. IInv /\ [Next]_vars => IInv'
  BY StartLayerStep, PlanFailsStep, JoinLayerStep, TaskStepStep, StutterStep
     DEF Next, DriverStep, Terminated
<1>2. QED
  BY <1>1, InvInit, PTL DEF Spec

\* The variables of a run keep their types, and no task makes more than
\* max_attempts attempts.
THEOREM TypeCorrect == Spec => []TypeOK
<1>1. IInv => TypeOK
  BY TallyBounds DEF IInv, TaskTypes, TypeOK
<1>2. QED
  BY <1>1, InductiveInvariant, PTL

\* No permit of a layer's semaphore is lost or returned twice.
THEOREM PermitsConservedCorrect == Spec => []PermitsConserved
<1>1. IInv => PermitsConserved
  BY DEF IInv
<1>2. QED
  BY <1>1, InductiveInvariant, PTL

\* No chunk runs outside its layer, nor before every chunk of the layers
\* before has its result.
THEOREM LayerBarrierCorrect == Spec => []LayerBarrier
<1>1. IInv => LayerBarrier
  <2> SUFFICES ASSUME IInv, NEW c \in Chunks
               PROVE  /\ pc[c] \notin {"queued", "finished"} =>
                             LayerOf[c] = layer /\ driver = "join"
                      /\ pc[c] # "queued" =>
                             \A d \in Chunks :
                                 LayerOf[d] < LayerOf[c] => result[d] # NoResult
    BY DEF LayerBarrier
  <2>1. /\ layer \in 1..Layers /\ driver \in {"plan", "join", "done", "aborted"}
        /\ \A d \in Chunks : LayerOf[d] \in 1..Layers
    BY LayersAssumption DEF IInv, TaskTypes
  <2>2. PhaseInv /\ \A d \in Chunks : pc[d] = "finished" => result[d] # NoResult
    BY DEF IInv, TaskInv, ResultInv
  <2>3. pc[c] \notin {"queued", "finished"} => LayerOf[c] = layer /\ driver = "join"
    BY <2>1, <2>2 DEF PhaseInv
  <2>4. ASSUME pc[c] # "queued", NEW d \in Chunks, LayerOf[d] < LayerOf[c]
        PROVE  result[d] # NoResult
    <3>1. LayerOf[c] <= layer
      BY <2>1, <2>2, <2>4 DEF PhaseInv
    <3>2. LayerOf[d] < layer
      BY <2>1, <2>4, <3>1
    <3>3. QED
      BY <2>2, <3>2 DEF PhaseInv
  <2>5. QED
    BY <2>3, <2>4
<1>2. QED
  BY <1>1, InductiveInvariant, PTL

\* A success was accepted by the node in the attempt it names, a failure that
\* could be retried has used every attempt, and the tally counts every result.
THEOREM HonestResultsCorrect == Spec => []HonestResults
<1>1. IInv => HonestResults
  <2> SUFFICES ASSUME IInv
               PROVE  HonestResults
    OBVIOUS
  <2>1. EveryPlanCounted
    BY TallyBounds DEF IInv
  <2>2. QED
    BY <2>1 DEF IInv, TaskInv, ResultInv, HonestResults
<1>2. QED
  BY <1>1, InductiveInvariant, PTL

\* Every plan of the joined layers is in the tally once.
THEOREM EveryPlanCountedCorrect == Spec => []EveryPlanCounted
<1>1. IInv => EveryPlanCounted
  BY TallyBounds DEF IInv
<1>2. QED
  BY <1>1, InductiveInvariant, PTL

\* With the router required, a chunk that is to run on the rollup is only ever
\* sent in an attempt that the router accepted.
THEOREM RequiredRouterCorrect == Spec => []RequiredRouterNeverBypassed
<1>1. IInv => RequiredRouterNeverBypassed
  BY ChunksAssumption DEF IInv, TaskInv, LedgerInv, Submitted,
     RequiredRouterNeverBypassed
<1>2. QED
  BY <1>1, InductiveInvariant, PTL

\* Every settlement is of an attempt that the router accepted.
THEOREM SettlementCorrect == Spec => []SettlementFollowsExecution
<1>1. IInv => SettlementFollowsExecution
  BY DEF IInv, TaskInv, LedgerInv, SettlementFollowsExecution
<1>2. QED
  BY <1>1, InductiveInvariant, PTL

\* A chunk's result is final: once it has one, no step changes it or sends
\* anything more of the chunk, to the router or to the node.
ResultsAreFinal ==
    [][\A c \in Chunks : result[c] # NoResult =>
          /\ result'[c] = result[c]
          /\ routed'[c] = routed[c] /\ Submitted(c)' = Submitted(c)]_vars

\* A task that has a result is finished and takes no step, and the driver, which
\* only starts tasks that are queued, wakes none.
THEOREM ResultsFinal == Spec => ResultsAreFinal
<1>1. ASSUME IInv, [Next]_vars, NEW c \in Chunks, result[c] # NoResult
      PROVE  /\ result'[c] = result[c]
             /\ routed'[c] = routed[c] /\ Submitted(c)' = Submitted(c)
  <2> USE DEF Submitted
  <2>1. CASE UNCHANGED vars
    BY <2>1 DEF vars, driverVars, taskVars, ledgerVars
  <2>2. CASE DriverStep
    BY <2>2 DEF DriverStep, StartLayer, PlanFails, JoinLayer, taskVars, ledgerVars
  <2>3. ASSUME NEW d \in Chunks, TaskStep(d)
        PROVE  /\ result'[c] = result[c]
               /\ routed'[c] = routed[c] /\ Submitted(c)' = Submitted(c)
    <3>1. Frame(d)
      BY <1>1, <2>3, TaskStepEffect DEF IInv
    <3>2. pc[c] = "finished"
      BY <1>1 DEF IInv, TaskInv, ResultInv
    <3>3. c # d
      BY <3>1, <3>2 DEF Frame
    <3>4. QED
      BY <3>1, <3>3 DEF Frame
  <2>4. QED
    BY <1>1, <2>1, <2>2, <2>3 DEF Next, Terminated
<1>2. IInv /\ [Next]_vars =>
        [\A c \in Chunks : result[c] # NoResult =>
            /\ result'[c] = result[c]
            /\ routed'[c] = routed[c] /\ Submitted(c)' = Submitted(c)]_vars
  BY <1>1
<1>3. QED
  BY <1>2, InductiveInvariant, PTL DEF Spec, ResultsAreFinal

-----------------------------------------------------------------------------
(* Dry runs.                                                               *)

\* What is in the rollup stage, or was taken by the router, is to run there.
RollupInv(c) ==
    (pc[c] \in InRouter \/ routed[c] # {}) => opts.er /\ c \in ErEligible

\* Nothing of a dry run reaches the node.
NodeInv(c) == opts.dryRun => Submitted(c) = {}

\* What the run pipeline_dry_run leaves of the help of --dry-run: a dry run sends
\* nothing to the node, and to the router at most the chunks that are to run on
\* the rollup, and only when the rollup stage is on.
DryRunSparesTheNode ==
    opts.dryRun => \A c \in Chunks :
        /\ Submitted(c) = {}
        /\ routed[c] # {} => opts.er /\ c \in ErEligible

\* A step of a task, through the rollup stage and after it.
LEMMA DryRunStep ==
    ASSUME TaskTypes, NEW c \in Chunks, RollupInv(c), NodeInv(c), TaskStep(c)
    PROVE  RollupInv(c)' /\ NodeInv(c)'
<1> USE DEF TaskTypes, RollupInv, NodeInv, Submitted, InRouter, Goto, Note, ledgerVars,
            driverVars
<1>1. CASE Begin(c)
  BY <1>1 DEF Begin
<1>2. CASE SessionOk(c) \/ Acquire(c) \/ Wake(c) \/ OccOk(c) \/ LeaseOk(c)
  BY <1>2 DEF SessionOk, Acquire, Wake, OccOk, LeaseOk
<1>3. CASE ExecuteOk(c)
  BY <1>3 DEF ExecuteOk
<1>4. CASE SessionFails(c) \/ ExecuteFails(c)
  <2>1. opts.er /\ c \in ErEligible /\ opts' = opts
    BY <1>4 DEF SessionFails, ExecuteFails
  <2>2. settled' = settled /\ original' = original
    BY <1>4 DEF SessionFails, ExecuteFails
  <2>3. QED
    BY <2>1, <2>2
<1>5. CASE OccFails(c) \/ LeaseFails(c) \/ SendFails(c) \/ SendStale(c)
  BY <1>5 DEF OccFails, LeaseFails, SendFails, SendStale, EndAttempt
<1>6. CASE SendOk(c)
  BY <1>6 DEF SendOk, Submit
<1>7. CASE SendLost(c)
  BY <1>7 DEF SendLost, Submit, EndAttempt
<1>8. CASE Panic(c)
  BY <1>8 DEF Panic
<1>9. QED
  BY <1>1, <1>2, <1>3, <1>4, <1>5, <1>6, <1>7, <1>8 DEF TaskStep

\* The driver touches no ledger and puts no task into the rollup stage.
THEOREM DryRunSparesNode == Spec => []DryRunSparesTheNode
<1> DEFINE Inv == \A c \in Chunks : RollupInv(c) /\ NodeInv(c)
<1>1. Init => Inv
  BY DEF Init, RollupInv, NodeInv, Submitted, InRouter, NoAttempts
<1>2. ASSUME IInv, Inv, [Next]_vars
      PROVE  Inv'
  <2> SUFFICES ASSUME NEW c \in Chunks
               PROVE  RollupInv(c)' /\ NodeInv(c)'
    OBVIOUS
  <2>0. RollupInv(c) /\ NodeInv(c) /\ TaskTypes
    BY <1>2 DEF IInv
  <2>1. CASE UNCHANGED vars
    BY <2>0, <2>1 DEF vars, driverVars, taskVars, ledgerVars, RollupInv, NodeInv, Submitted
  <2>2. CASE DriverStep
    <3>1. opts' = opts /\ UNCHANGED ledgerVars /\ (pc' = pc \/ pc'[c] \notin InRouter \/ pc'[c] = pc[c])
      BY <2>0, <2>2 DEF DriverStep, StartLayer, PlanFails, JoinLayer, taskVars, TaskTypes, InRouter
    <3>2. QED
      BY <2>0, <3>1 DEF ledgerVars, RollupInv, NodeInv, Submitted
  <2>3. ASSUME NEW d \in Chunks, TaskStep(d)
        PROVE  RollupInv(c)' /\ NodeInv(c)'
    <3>1. CASE d = c
      BY <1>2, <2>0, <2>3, <3>1, DryRunStep
    <3>2. CASE d # c
      <4>1. Frame(d)
        BY <1>2, <2>3, TaskStepEffect DEF IInv
      <4>2. QED
        BY <2>0, <3>2, <4>1 DEF Frame, driverVars, RollupInv, NodeInv, Submitted
    <3>3. QED
      BY <3>1, <3>2
  <2>4. QED
    BY <1>2, <2>1, <2>2, <2>3 DEF Next, Terminated
<1>3. Inv => DryRunSparesTheNode
  BY DEF DryRunSparesTheNode, RollupInv, NodeInv
<1>4. QED
  <2> HIDE DEF Inv
  <2> QED
    BY <1>1, <1>2, <1>3, InductiveInvariant, PTL DEF Spec

=============================================================================

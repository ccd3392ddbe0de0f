----------------------- MODULE BlockhashManager_proofs -----------------------
(***************************************************************************)
(* Proofs about BlockhashManager, for every set of workers and every       *)
(* policy.                                                                 *)
(***************************************************************************)
EXTENDS BlockhashRefinement, FiniteSetTheorems, TLAPS

-----------------------------------------------------------------------------
(* Types.                                                                  *)

\* Every step leaves every variable in its type.
LEMMA TypeStep ==
    ASSUME TypeOK, [Next]_vars
    PROVE  TypeOK'
<1> USE TasksAssumption, PolicyAssumption, BoundsAssumption, NoLeaseAssumption
<1> USE DEF TypeOK, managerVars, taskVars, historyVars, Goto, PCs, Lease,
            NilLease, DefaultHash, RefreshReasons, NoReason, Cached
<1>1. ASSUME NEW t \in Tasks, CallLease(t)
      PROVE  TypeOK'
  BY <1>1 DEF CallLease, MayCall
<1>2. ASSUME NEW t \in Tasks, LeaseFromRouter(t)
      PROVE  TypeOK'
  BY <1>2 DEF LeaseFromRouter, MayCall
<1>3. ASSUME NEW t \in Tasks, UseStep(t)
      PROVE  TypeOK'
  <2>1. CASE Finish(t)
    BY <2>1 DEF Finish
  <2>2. CASE ReportStale(t)
    BY <2>2 DEF ReportStale
  <2>3. QED
    BY <1>3, <2>1, <2>2 DEF UseStep
<1>4. ASSUME NEW t \in Tasks, LeaseStep(t)
      PROVE  TypeOK'
  <2>1. CASE Decide(t)
    BY <2>1 DEF Decide
  <2>2. CASE WinRefresh(t)
    BY <2>2 DEF WinRefresh
  <2>3. CASE LoseRefresh(t) \/ Wake(t) \/ Release(t)
    BY <2>3 DEF LoseRefresh, Wake, Release
  <2>4. CASE FetchOk(t)
    <3>1. PICK h \in started[t]..slot :
            current' = [lease |-> [hash |-> h, fetchedAt |-> started[t]],
                        uses |-> 0]
      BY <2>4 DEF FetchOk
    <3>2. started[t] \in 0..slot /\ h \in Nat
      OBVIOUS
    <3>3. current' \in Cached
      BY <3>1, <3>2
    <3>4. newest' \in 0..slot' /\ started' \in [Tasks -> 0..slot']
      BY <2>4, <3>2 DEF FetchOk
    <3>5. pc' \in [Tasks -> PCs] /\ pending' \in RefreshReasons \cup {NoReason}
      BY <2>4 DEF FetchOk
    <3>6. UNCHANGED <<inFlight, lease, calls, layer, slot, boundary, failed>>
      BY <2>4 DEF FetchOk
    <3>7. QED
      BY <3>3, <3>4, <3>5, <3>6
  <2>5. CASE FetchErr(t)
    <3>1. started' \in [Tasks -> 0..slot'] /\ pc' \in [Tasks -> PCs]
      BY <2>5 DEF FetchErr
    <3>2. inFlight' \in BOOLEAN /\ failed' \in BOOLEAN
      BY <2>5 DEF FetchErr
    <3>3. UNCHANGED <<current, pending, lease, calls, layer, slot, boundary,
                      newest>>
      BY <2>5 DEF FetchErr
    <3>4. QED
      BY <3>1, <3>2, <3>3
  <2>6. CASE IssueCached(t)
    BY <2>6 DEF IssueCached
  <2>7. CASE IssueDefault(t)
    BY <2>7 DEF IssueDefault
  <2>8. CASE CheckValid(t) \/ CheckInvalid(t) \/ CheckErr(t) \/ DropInvalid(t)
    BY <2>8 DEF CheckValid, CheckInvalid, CheckErr, DropInvalid
  <2>9. QED
    BY <1>4, <2>1, <2>2, <2>3, <2>4, <2>5, <2>6, <2>7, <2>8 DEF LeaseStep
<1>5. CASE MarkLayerBoundary
  <2>1. calls' \in [Tasks -> 0..MaxCalls]
    BY <1>5 DEF MarkLayerBoundary
  <2>2. layer' \in 0..Layers /\ boundary' \in 0..slot'
    BY <1>5 DEF MarkLayerBoundary
  <2>3. QED
    BY <1>5, <2>1, <2>2 DEF MarkLayerBoundary
<1>6. CASE NewSlot
  BY <1>6 DEF NewSlot
<1>7. CASE UNCHANGED vars
  BY <1>7 DEF vars
<1>8. QED
  BY <1>1, <1>2, <1>3, <1>4, <1>5, <1>6, <1>7 DEF Next, TaskStep, Terminated

\* So does the initial state.
LEMMA TypeInit ==
    ASSUME Init
    PROVE  TypeOK
<1> USE TasksAssumption, PolicyAssumption, BoundsAssumption, NoLeaseAssumption
<1> USE DEF Init, RefreshReasons, NoReason, PCs
<1>1. NilLease \in Lease
  BY DEF NilLease, Lease, DefaultHash
<1>2. /\ lease \in [Tasks -> Lease]
      /\ pc \in [Tasks -> PCs]
      /\ started \in [Tasks -> 0..slot]
      /\ calls \in [Tasks -> 0..MaxCalls]
  BY <1>1
<1>3. /\ current \in Cached \cup {NoLease}
      /\ pending \in RefreshReasons \cup {NoReason}
      /\ inFlight \in BOOLEAN
      /\ failed \in BOOLEAN
  OBVIOUS
<1>4. /\ layer \in 0..Layers
      /\ slot \in Nat \ {0}
      /\ boundary \in 0..slot
      /\ newest \in 0..slot
  OBVIOUS
<1>5. QED
  BY <1>2, <1>3, <1>4 DEF TypeOK

\* The manager's state, the tasks' locals and the histories always have the
\* types that blockhash.rs declares for them.
THEOREM TypeCorrect == Spec => []TypeOK
<1>1. Init => TypeOK
  BY TypeInit
<1>2. TypeOK /\ [Next]_vars => TypeOK'
  BY TypeStep
<1>3. QED
  BY <1>1, <1>2, PTL DEF Spec

-----------------------------------------------------------------------------
(***************************************************************************)
(* The inductive invariant.                                                *)
(***************************************************************************)

\* The tasks that have decided on the cached lease and not counted it yet.
Issuing == {t \in Tasks : pc[t] = "issue"}

\* Every task between the two critical sections may still add one use.
UsesInv ==
    current # NoLease
        => current.uses + 1 + Cardinality(Issuing) <= Quota + Cardinality(Tasks)

\* A fetch that is out began after the last boundary and no earlier than the
\* one that produced the last lease installed.
FetchInv ==
    \A t \in Tasks :
        pc[t] = "fetch" => started[t] >= boundary /\ started[t] >= newest

\* A task that has installed its lease and not yet cleared the flag has left
\* nothing from before the boundary.
ReleaseInv ==
    \A t \in Tasks :
        pc[t] = "release" =>
            current = NoLease \/ current.lease.fetchedAt >= boundary

\* The invariant of the lease service.
IInv ==
    /\ TypeOK
    /\ SingleFlight
    /\ UsesInv
    /\ FetchInv
    /\ ReleaseInv
    /\ BoundaryMarkNotLost

-----------------------------------------------------------------------------
(* Single flight.                                                          *)

\* The flag protocol (exchange, fetch, store) preserves SingleFlight.
LEMMA SingleFlightStep ==
    ASSUME TypeOK, SingleFlight, [Next]_vars
    PROVE  SingleFlight'
<1> USE DEF TypeOK, SingleFlight, Refreshing, Goto, managerVars, taskVars,
            historyVars
<1>1. ASSUME NEW t \in Tasks, CallLease(t) \/ LeaseFromRouter(t) \/ UseStep(t)
      PROVE  SingleFlight'
  BY <1>1 DEF CallLease, LeaseFromRouter, MayCall, UseStep, Finish, ReportStale
<1>2. ASSUME NEW t \in Tasks, LeaseStep(t)
      PROVE  SingleFlight'
  <2>1. CASE Decide(t)
    BY <2>1 DEF Decide
  <2>2. CASE WinRefresh(t)
    BY <2>2 DEF WinRefresh
  <2>3. CASE LoseRefresh(t) \/ Wake(t)
    BY <2>3 DEF LoseRefresh, Wake
  <2>4. CASE FetchOk(t)
    BY <2>4 DEF FetchOk
  <2>5. CASE FetchErr(t)
    BY <2>5 DEF FetchErr
  <2>6. CASE Release(t)
    BY <2>6 DEF Release
  <2>7. CASE IssueCached(t)
    BY <2>7 DEF IssueCached
  <2>8. CASE IssueDefault(t)
    BY <2>8 DEF IssueDefault
  <2>9. CASE CheckValid(t) \/ CheckInvalid(t) \/ CheckErr(t) \/ DropInvalid(t)
    BY <2>9 DEF CheckValid, CheckInvalid, CheckErr, DropInvalid
  <2>10. QED
    BY <1>2, <2>1, <2>2, <2>3, <2>4, <2>5, <2>6, <2>7, <2>8, <2>9
       DEF LeaseStep
<1>3. CASE MarkLayerBoundary \/ NewSlot \/ UNCHANGED vars
  BY <1>3 DEF MarkLayerBoundary, NewSlot, vars
<1>4. QED
  BY <1>1, <1>2, <1>3 DEF Next, TaskStep, Terminated

-----------------------------------------------------------------------------
(* The quota.                                                              *)

\* A set of tasks is finite and has no more elements than Tasks.
LEMMA TaskSubset ==
    ASSUME NEW S \in SUBSET Tasks
    PROVE  /\ IsFiniteSet(S)
           /\ Cardinality(S) \in Nat
           /\ Cardinality(S) <= Cardinality(Tasks)
           /\ Cardinality(Tasks) \in Nat
BY TasksAssumption, FS_Subset, FS_CardinalityType

\* A task that enters the second critical section leaves Issuing, which pays
\* for the use it counts; one that passes the quota check found room for
\* every task.
LEMMA UsesStepInv ==
    ASSUME TypeOK, UsesInv, [Next]_vars
    PROVE  UsesInv'
<1> USE DEF UsesInv, Goto, managerVars, taskVars, historyVars
<1>0. /\ Quota \in Nat /\ Quota >= 1
      /\ Issuing \in SUBSET Tasks
      /\ Issuing' \in SUBSET Tasks
  BY PolicyAssumption DEF Quota, Issuing
<1>1. /\ IsFiniteSet(Issuing)
      /\ Cardinality(Issuing) \in Nat
      /\ Cardinality(Issuing') \in Nat
      /\ Cardinality(Issuing') <= Cardinality(Tasks)
      /\ Cardinality(Tasks) \in Nat
  BY <1>0, TaskSubset
<1>2. CASE current' = current /\ Issuing' = Issuing
  BY <1>2
<1>3. CASE current' = NoLease
  BY <1>3
<1>4. ASSUME NEW t \in Tasks, Decide(t)
      PROVE  UsesInv'
  <2>1. CASE RefreshNeeded
    <3>1. Issuing' = Issuing /\ current' = current
      BY <1>4, <2>1 DEF Decide, Issuing, TypeOK
    <3>2. QED
      BY <1>2, <3>1
  <2>2. CASE ~ RefreshNeeded
    <3>1. current' = current /\ current # NoLease /\ ~ QuotaReached(current)
      BY <1>4, <2>2 DEF Decide, RefreshNeeded
    <3>2. current.uses \in Nat
      BY <3>1 DEF TypeOK, Cached
    <3>3. current.uses + 1 <= Quota
      BY <1>0, <3>1, <3>2 DEF QuotaReached
    <3>4. QED
      BY <1>0, <1>1, <3>1, <3>2, <3>3
  <2>3. QED
    BY <2>1, <2>2
<1>5. ASSUME NEW t \in Tasks, FetchOk(t)
      PROVE  UsesInv'
  <2>1. current'.uses = 0
    BY <1>5 DEF FetchOk
  <2>2. QED
    BY <1>0, <1>1, <2>1
<1>6. ASSUME NEW t \in Tasks, IssueCached(t)
      PROVE  UsesInv'
  <2>1. t \in Issuing /\ Issuing' = Issuing \ {t}
    BY <1>6 DEF IssueCached, Issuing, TypeOK
  <2>2. Cardinality(Issuing') = Cardinality(Issuing) - 1
    BY <1>1, <2>1, FS_RemoveElement
  <2>3. current # NoLease /\ current.uses \in Nat
    BY <1>6 DEF IssueCached, TypeOK, Cached
  <2>4. current'.uses = current.uses + 1
    BY <1>6, <2>3 DEF IssueCached, TypeOK, Cached
  <2>5. QED
    BY <1>0, <1>1, <2>2, <2>3, <2>4
<1>7. ASSUME NEW t \in Tasks, CallLease(t) \/ LeaseFromRouter(t) \/ Finish(t)
      PROVE  current' = current /\ Issuing' = Issuing
  BY <1>7 DEF CallLease, LeaseFromRouter, MayCall, Finish, Issuing, TypeOK
<1>8. ASSUME NEW t \in Tasks,
             \/ WinRefresh(t) \/ LoseRefresh(t) \/ Wake(t) \/ FetchErr(t)
             \/ Release(t) \/ CheckValid(t) \/ CheckInvalid(t) \/ CheckErr(t)
      PROVE  current' = current /\ Issuing' = Issuing
  <2>1. CASE WinRefresh(t) \/ LoseRefresh(t) \/ Wake(t) \/ FetchErr(t)
    BY <2>1 DEF WinRefresh, LoseRefresh, Wake, FetchErr, Issuing, TypeOK
  <2>2. CASE Release(t) \/ CheckValid(t) \/ CheckInvalid(t) \/ CheckErr(t)
    BY <2>2 DEF Release, CheckValid, CheckInvalid, CheckErr, Issuing, TypeOK
  <2>3. QED
    BY <1>8, <2>1, <2>2
<1>9. ASSUME NEW t \in Tasks, ReportStale(t) \/ IssueDefault(t) \/ DropInvalid(t)
      PROVE  current' = NoLease
  BY <1>9 DEF ReportStale, IssueDefault, DropInvalid
<1>10. CASE MarkLayerBoundary \/ NewSlot \/ UNCHANGED vars
  <2>1. current' = current /\ Issuing' = Issuing
    BY <1>10 DEF MarkLayerBoundary, NewSlot, vars, Issuing
  <2>2. QED
    BY <1>2, <2>1
<1>11. QED
  BY <1>2, <1>3, <1>4, <1>5, <1>6, <1>7, <1>8, <1>9, <1>10
     DEF Next, TaskStep, LeaseStep, UseStep, Terminated

-----------------------------------------------------------------------------
(* Boundaries and the order of fetches.                                    *)

\* Only the winner of the exchange fetches, and it reads the clock first.
LEMMA FetchStep ==
    ASSUME TypeOK, SingleFlight, FetchInv, [Next]_vars
    PROVE  FetchInv'
<1> USE DEF TypeOK, FetchInv, Goto, managerVars, taskVars, historyVars
<1>1. ASSUME NEW t \in Tasks, CallLease(t) \/ LeaseFromRouter(t) \/ UseStep(t)
      PROVE  FetchInv'
  BY <1>1 DEF CallLease, LeaseFromRouter, MayCall, UseStep, Finish, ReportStale
<1>2. ASSUME NEW t \in Tasks, LeaseStep(t)
      PROVE  FetchInv'
  <2>1. CASE WinRefresh(t)
    BY <2>1 DEF WinRefresh
  <2>2. CASE FetchOk(t)
    <3>1. \A u \in Tasks : pc'[u] = "fetch" => FALSE
      BY <2>2 DEF FetchOk, SingleFlight, Refreshing
    <3>2. QED
      BY <3>1
  <2>3. CASE FetchErr(t)
    BY <2>3 DEF FetchErr
  <2>4. CASE Decide(t) \/ LoseRefresh(t) \/ Wake(t) \/ Release(t)
    BY <2>4 DEF Decide, LoseRefresh, Wake, Release
  <2>5. CASE IssueCached(t) \/ IssueDefault(t)
    BY <2>5 DEF IssueCached, IssueDefault
  <2>6. CASE CheckValid(t) \/ CheckInvalid(t) \/ CheckErr(t) \/ DropInvalid(t)
    BY <2>6 DEF CheckValid, CheckInvalid, CheckErr, DropInvalid
  <2>7. QED
    BY <1>2, <2>1, <2>2, <2>3, <2>4, <2>5, <2>6 DEF LeaseStep
<1>3. CASE MarkLayerBoundary \/ NewSlot \/ UNCHANGED vars
  BY <1>3 DEF MarkLayerBoundary, NewSlot, vars
<1>4. QED
  BY <1>1, <1>2, <1>3 DEF Next, TaskStep, Terminated

\* A step that neither installs a lease nor passes a boundary leaves the age
\* of the cached lease alone.
LEMMA SameLease ==
    ASSUME TypeOK, [Next]_vars,
           \A t \in Tasks : ~ FetchOk(t), ~ MarkLayerBoundary
    PROVE  /\ boundary' = boundary
           /\ \/ current' = NoLease
              \/ /\ current # NoLease
                 /\ current'.lease.fetchedAt = current.lease.fetchedAt
              \/ current' = current
<1> USE DEF managerVars, taskVars, historyVars
<1>1. ASSUME NEW t \in Tasks, IssueCached(t)
      PROVE  /\ boundary' = boundary
             /\ current # NoLease
             /\ current'.lease.fetchedAt = current.lease.fetchedAt
  BY <1>1 DEF IssueCached, TypeOK, Cached, Lease
<1>2. ASSUME NEW t \in Tasks,
             TaskStep(t), ~ FetchOk(t), ~ IssueCached(t)
      PROVE  boundary' = boundary /\ current' \in {current, NoLease}
  BY <1>2 DEF TaskStep, CallLease, LeaseFromRouter, UseStep, Finish,
              ReportStale, LeaseStep, Decide, WinRefresh, LoseRefresh, Wake,
              FetchErr, Release, IssueDefault, CheckValid, CheckInvalid,
              CheckErr, DropInvalid
<1>3. CASE NewSlot \/ UNCHANGED vars
  BY <1>3 DEF NewSlot, vars
<1>4. QED
  BY <1>1, <1>2, <1>3 DEF Next, Terminated

\* Whatever the others do meanwhile, a task that is about to clear the flag
\* leaves nothing from before the boundary.
LEMMA ReleaseStep ==
    ASSUME TypeOK, FetchInv, ReleaseInv, [Next]_vars
    PROVE  ReleaseInv'
<1> USE DEF Goto, managerVars, taskVars, historyVars
<1>1. ASSUME NEW t \in Tasks, FetchOk(t)
      PROVE  ReleaseInv'
  <2>1. current'.lease.fetchedAt = started[t] /\ boundary' = boundary
    BY <1>1 DEF FetchOk
  <2>2. started[t] >= boundary
    BY <1>1 DEF FetchOk, FetchInv
  <2>3. QED
    BY <2>1, <2>2 DEF ReleaseInv
<1>2. CASE MarkLayerBoundary
  BY <1>2 DEF MarkLayerBoundary, ReleaseInv
<1>3. CASE ~ MarkLayerBoundary /\ \A t \in Tasks : ~ FetchOk(t)
  <2>1. \A u \in Tasks : pc'[u] = "release" => pc[u] = "release"
    <3>1. ASSUME NEW t \in Tasks, TaskStep(t), ~ FetchOk(t)
          PROVE  \A u \in Tasks : pc'[u] = "release" => pc[u] = "release"
      BY <3>1 DEF TaskStep, CallLease, LeaseFromRouter, UseStep, Finish,
                  ReportStale, LeaseStep, Decide, WinRefresh, LoseRefresh,
                  Wake, FetchErr, Release, IssueCached, IssueDefault,
                  CheckValid, CheckInvalid, CheckErr, DropInvalid, MayCall,
                  TypeOK
    <3>2. CASE NewSlot \/ UNCHANGED vars
      BY <3>2 DEF NewSlot, vars
    <3>3. QED
      BY <1>3, <3>1, <3>2 DEF Next, Terminated
  <2>2. QED
    BY <1>3, <2>1, SameLease DEF ReleaseInv
<1>4. QED
  BY <1>1, <1>2, <1>3

\* The task that takes the boundary's reason either fetches or finds another
\* task inside the refresh; that one has fetched, or will fetch, since the
\* boundary, because the driver joins every worker before it marks one.
LEMMA BoundaryStep ==
    ASSUME TypeOK, SingleFlight, FetchInv, ReleaseInv, BoundaryMarkNotLost,
           [Next]_vars
    PROVE  BoundaryMarkNotLost'
<1> USE DEF Goto, managerVars, taskVars, historyVars
<1>1. ASSUME NEW t \in Tasks, FetchOk(t)
      PROVE  BoundaryMarkNotLost'
  <2>1. current'.lease.fetchedAt = started[t] /\ boundary' = boundary
    BY <1>1 DEF FetchOk
  <2>2. started[t] \in Nat /\ boundary \in Nat /\ started[t] >= boundary
    BY <1>1 DEF FetchOk, FetchInv, TypeOK
  <2>3. ~ (current'.lease.fetchedAt < boundary')
    BY <2>1, <2>2
  <2>4. QED
    BY <2>3 DEF BoundaryMarkNotLost
<1>2. CASE MarkLayerBoundary
  BY <1>2 DEF MarkLayerBoundary, BoundaryMarkNotLost, NoReason
<1>3. ASSUME NEW t \in Tasks, FetchErr(t)
      PROVE  BoundaryMarkNotLost'
  BY <1>3 DEF FetchErr, BoundaryMarkNotLost
<1>4. CASE /\ ~ MarkLayerBoundary
           /\ \A t \in Tasks : ~ FetchOk(t) /\ ~ FetchErr(t)
  <2> SUFFICES ASSUME current' # NoLease, ~ failed',
                      current'.lease.fetchedAt < boundary'
               PROVE  \/ pending' # NoReason
                      \/ \E u \in Tasks : pc'[u] \in {"cas", "fetch"}
    BY DEF BoundaryMarkNotLost
  <2>1. /\ current # NoLease
        /\ current.lease.fetchedAt < boundary
    BY <1>4, SameLease
  <2>2. failed' = failed
    BY <1>4 DEF Next, TaskStep, CallLease, LeaseFromRouter, UseStep, Finish,
                ReportStale, LeaseStep, Decide, WinRefresh, LoseRefresh, Wake,
                Release, IssueCached, IssueDefault, CheckValid, CheckInvalid,
                CheckErr, DropInvalid, NewSlot, Terminated, vars
  <2>3. \/ pending # NoReason
        \/ \E u \in Tasks : pc[u] \in {"cas", "fetch"}
    BY <2>1, <2>2 DEF BoundaryMarkNotLost
  <2>4. ASSUME NEW t \in Tasks, Decide(t)
        PROVE  \E u \in Tasks : pc'[u] \in {"cas", "fetch"}
    <3>1. CASE pending # NoReason
      BY <2>4, <3>1 DEF Decide, RefreshNeeded, TypeOK
    <3>2. CASE \E u \in Tasks : pc[u] \in {"cas", "fetch"}
      BY <2>4, <3>2 DEF Decide, TypeOK
    <3>3. QED
      BY <2>3, <3>1, <3>2
  <2>5. ASSUME NEW t \in Tasks, WinRefresh(t)
        PROVE  \E u \in Tasks : pc'[u] \in {"cas", "fetch"}
    BY <2>5 DEF WinRefresh, TypeOK
  <2>6. ASSUME NEW t \in Tasks, LoseRefresh(t)
        PROVE  \E u \in Tasks : pc'[u] \in {"cas", "fetch"}
    <3>1. PICK u \in Tasks : pc[u] \in {"fetch", "release"}
      BY <2>6 DEF LoseRefresh, SingleFlight, Refreshing
    <3>2. pc[u] # "release"
      <4>1. current.lease.fetchedAt \in Nat /\ boundary \in Nat
        BY <2>1 DEF TypeOK, Cached, Lease
      <4>2. QED
        BY <2>1, <4>1 DEF ReleaseInv
    <3>3. u # t
      BY <2>6, <3>1 DEF LoseRefresh
    <3>4. QED
      BY <2>6, <3>1, <3>2, <3>3 DEF LoseRefresh, TypeOK
  <2>7. ASSUME NEW t \in Tasks, TaskStep(t), ~ Decide(t), ~ WinRefresh(t),
               ~ LoseRefresh(t)
        PROVE  \/ pending' # NoReason
               \/ pending' = pending /\ pc[t] \notin {"cas", "fetch"}
                  /\ \A u \in Tasks \ {t} : pc'[u] = pc[u]
    BY <1>4, <2>7 DEF TaskStep, CallLease, LeaseFromRouter, MayCall, UseStep,
                Finish, ReportStale, LeaseStep, Wake, Release, IssueCached,
                IssueDefault, CheckValid, CheckInvalid, CheckErr, DropInvalid,
                NoReason, TypeOK
  <2>8. CASE NewSlot \/ UNCHANGED vars
    BY <2>3, <2>8 DEF NewSlot, vars
  <2>9. QED
    BY <1>4, <2>3, <2>4, <2>5, <2>6, <2>7, <2>8 DEF Next, Terminated
<1>5. QED
  BY <1>1, <1>2, <1>3, <1>4

-----------------------------------------------------------------------------
(* The invariants of the manager.                                          *)

\* IInv holds at first, and every step preserves it.
THEOREM InductiveInvariant == Spec => []IInv
<1>1. Init => IInv
  <2> SUFFICES ASSUME Init
               PROVE  SingleFlight /\ UsesInv /\ FetchInv /\ ReleaseInv
                        /\ BoundaryMarkNotLost
    BY TypeInit DEF IInv
  <2>1. SingleFlight /\ FetchInv /\ ReleaseInv
    BY DEF Init, SingleFlight, Refreshing, FetchInv, ReleaseInv
  <2>2. UsesInv /\ BoundaryMarkNotLost
    BY DEF Init, UsesInv, BoundaryMarkNotLost
  <2>3. QED
    BY <2>1, <2>2
<1>2. IInv /\ [Next]_vars => IInv'
  BY TypeStep, SingleFlightStep, UsesStepInv, FetchStep, ReleaseStep,
     BoundaryStep DEF IInv
<1>3. QED
  BY <1>1, <1>2, PTL DEF Spec

\* However many workers race for a refresh, at most one of them is between
\* the compare_exchange of lease() and the store that clears
\* refresh_in_flight, and the flag is up exactly while one is.
THEOREM SingleFlightCorrect == Spec => []SingleFlight
<1>1. IInv => SingleFlight
  BY DEF IInv
<1>2. QED
  BY <1>1, InductiveInvariant, PTL

\* A cached lease is used at most refresh_every times plus once for every
\* worker that was between the quota check and the count.
THEOREM QuotaOvershootCorrect == Spec => []QuotaOvershoot
<1>1. IInv => QuotaOvershoot
  <2> SUFFICES ASSUME TypeOK, UsesInv, current # NoLease
               PROVE  current.uses + 1 <= Quota + Cardinality(Tasks)
    BY DEF IInv, QuotaOvershoot
  <2>1. current.uses \in Nat /\ Quota \in Nat
    BY PolicyAssumption DEF TypeOK, Cached, Quota
  <2>2. Cardinality(Issuing) \in Nat /\ Cardinality(Tasks) \in Nat
    BY TaskSubset DEF Issuing
  <2>3. QED
    BY <2>1, <2>2 DEF UsesInv
<1>2. QED
  BY <1>1, InductiveInvariant, PTL

\* While no fetch fails, what mark_layer_boundary asks for is not lost: a
\* lease from before the boundary is about to be replaced.
THEOREM BoundaryMarkNotLostCorrect == Spec => []BoundaryMarkNotLost
<1>1. IInv => BoundaryMarkNotLost
  BY DEF IInv
<1>2. QED
  BY <1>1, InductiveInvariant, PTL

-----------------------------------------------------------------------------
(* The refinement.                                                         *)

\* fetcherBar and sinceBar name the one task that fetches.
LEMMA OneFetcher ==
    ASSUME SingleFlight, NEW t \in Tasks, pc[t] = "fetch"
    PROVE  fetcherBar = t /\ sinceBar = started[t] /\ Fetching = {t}
<1>1. Fetching = {t}
  BY DEF Fetching, SingleFlight, Refreshing
<1>2. QED
  BY <1>1 DEF fetcherBar, sinceBar

\* A step that moves no task into or out of the fetch and leaves the clock
\* readings alone changes neither.
LEMMA SameFetcher ==
    ASSUME Fetching' = Fetching, started' = started
    PROVE  fetcherBar' = fetcherBar /\ sinceBar' = sinceBar
BY DEF fetcherBar, sinceBar

\* Every step of the manager is a step of SingleFlight or changes nothing
\* that SingleFlight sees.
LEMMA RefinementStep ==
    ASSUME IInv, [Next]_vars
    PROVE  [SF!Next]_(SF!vars)
<1> USE DEF Goto, managerVars, taskVars, historyVars
<1>0. TypeOK /\ SingleFlight /\ FetchInv
  BY DEF IInv
<1>1. ASSUME NEW t \in Tasks, WinRefresh(t)
      PROVE  SF!Begin(t)
  <2>1. Fetching = {} /\ Fetching' = {t}
    BY <1>0, <1>1 DEF WinRefresh, Fetching, SingleFlight, Refreshing, TypeOK
  <2>2. fetcherBar = NoTask /\ fetcherBar' = t
    BY <2>1 DEF fetcherBar
  <2>3. sinceBar' = slot
    BY <1>0, <1>1, <2>1, <2>2 DEF sinceBar, WinRefresh, TypeOK
  <2>4. QED
    BY <1>1, <2>2, <2>3 DEF SF!Begin, WinRefresh
<1>2. ASSUME NEW t \in Tasks, FetchOk(t)
      PROVE  SF!Install(t)
  <2>1. fetcherBar = t /\ sinceBar = started[t] /\ Fetching = {t}
    BY <1>0, <1>2, OneFetcher DEF FetchOk
  <2>2. Fetching' = {}
    BY <1>0, <1>2, <2>1 DEF FetchOk, Fetching, TypeOK
  <2>3. fetcherBar' = NoTask /\ sinceBar' = 0
    BY <2>2 DEF fetcherBar, sinceBar
  <2>4. sinceBar >= newest
    BY <1>0, <1>2, <2>1 DEF FetchOk, FetchInv
  <2>5. newest' = sinceBar /\ slot' = slot
    BY <1>2, <2>1 DEF FetchOk
  <2>6. QED
    BY <2>1, <2>3, <2>4, <2>5 DEF SF!Install
<1>3. ASSUME NEW t \in Tasks, FetchErr(t)
      PROVE  SF!Abandon(t)
  <2>1. fetcherBar = t /\ Fetching = {t}
    BY <1>0, <1>3, OneFetcher DEF FetchErr
  <2>2. Fetching' = {}
    BY <1>0, <1>3, <2>1 DEF FetchErr, Fetching, TypeOK
  <2>3. fetcherBar' = NoTask /\ sinceBar' = 0
    BY <2>2 DEF fetcherBar, sinceBar
  <2>4. QED
    BY <1>3, <2>1, <2>3 DEF SF!Abandon, FetchErr
<1>4. ASSUME NEW t \in Tasks, TaskStep(t), ~ WinRefresh(t), ~ FetchOk(t),
             ~ FetchErr(t)
      PROVE  UNCHANGED SF!vars
  <2>1. /\ started' = started /\ slot' = slot /\ newest' = newest
    BY <1>4 DEF TaskStep, CallLease, LeaseFromRouter, UseStep, Finish,
                ReportStale, LeaseStep, Decide, LoseRefresh, Wake, Release,
                IssueCached, IssueDefault, CheckValid, CheckInvalid, CheckErr,
                DropInvalid
  <2>2. Fetching' = Fetching
    BY <1>0, <1>4 DEF TaskStep, CallLease, LeaseFromRouter, MayCall, UseStep,
                Finish, ReportStale, LeaseStep, Decide, LoseRefresh, Wake,
                Release, IssueCached, IssueDefault, CheckValid, CheckInvalid,
                CheckErr, DropInvalid, Fetching, TypeOK
  <2>3. QED
    BY <2>1, <2>2, SameFetcher DEF SF!vars
<1>5. CASE MarkLayerBoundary \/ UNCHANGED vars
  <2>1. /\ Fetching' = Fetching /\ started' = started
        /\ slot' = slot /\ newest' = newest
    BY <1>5 DEF MarkLayerBoundary, vars, Fetching
  <2>2. QED
    BY <2>1, SameFetcher DEF SF!vars
<1>6. CASE NewSlot
  <2>1. /\ Fetching' = Fetching /\ started' = started
        /\ slot' = slot + 1 /\ newest' = newest
    BY <1>6 DEF NewSlot, Fetching
  <2>2. QED
    BY <2>1, SameFetcher DEF SF!Next, SF!Tick
<1>7. QED
  BY <1>1, <1>2, <1>3, <1>4, <1>5, <1>6 DEF Next, Terminated, SF!Next

\* The blockhash manager implements SingleFlight: fetches never overlap, and
\* no lease is replaced by one that was asked for earlier.
THEOREM Refinement == Spec => ImplementsSingleFlight
<1>1. Init => SF!Init
  <2> SUFFICES ASSUME Init
               PROVE  SF!Init
    OBVIOUS
  <2>1. Fetching = {}
    BY DEF Init, Fetching
  <2>2. fetcherBar = NoTask /\ sinceBar = 0
    BY <2>1 DEF fetcherBar, sinceBar
  <2>3. QED
    BY <2>2 DEF Init, SF!Init
<1>2. IInv /\ [Next]_vars => [SF!Next]_(SF!vars)
  BY RefinementStep
<1>3. QED
  BY <1>1, <1>2, InductiveInvariant, PTL
     DEF Spec, SF!Spec, ImplementsSingleFlight

-----------------------------------------------------------------------------
(* A worker alone.                                                         *)

\* What keeps the default hash away from a worker nobody interferes with: the
\* lease it saw in the first critical section is still there in the second.
SoleInv ==
    /\ current # NoLease => current.lease.hash # DefaultHash
    /\ \A t \in Tasks :
          /\ pc[t] = "fetch" => started[t] # 0
          /\ pc[t] = "issue" => current # NoLease
          /\ pc[t] \in {"check", "held"} => lease[t].hash # DefaultHash

\* A worker without company finds the lease where it left it.
LEMMA SoleStep ==
    ASSUME \A t, u \in Tasks : t = u, TypeOK, SoleInv, [Next]_vars
    PROVE  SoleInv'
<1> USE DEF TypeOK, SoleInv, Goto, managerVars, taskVars, historyVars,
            DefaultHash
<1>1. ASSUME NEW t \in Tasks, CallLease(t) \/ UseStep(t)
      PROVE  SoleInv'
  BY <1>1 DEF CallLease, MayCall, UseStep, Finish, ReportStale
<1>2. ASSUME NEW t \in Tasks, LeaseFromRouter(t)
      PROVE  SoleInv'
  <2>1. PICK h \in 1..slot :
          lease' = [lease EXCEPT ![t] = [hash |-> h, fetchedAt |-> slot]]
    BY <1>2 DEF LeaseFromRouter
  <2>2. lease'[t].hash # 0
    BY <2>1
  <2>3. QED
    BY <1>2, <2>2 DEF LeaseFromRouter, MayCall
<1>3. ASSUME NEW t \in Tasks, FetchOk(t)
      PROVE  SoleInv'
  <2>1. PICK h \in started[t]..slot :
          current' = [lease |-> [hash |-> h, fetchedAt |-> started[t]],
                      uses |-> 0]
    BY <1>3 DEF FetchOk
  <2>2. started[t] # 0 /\ started[t] \in 0..slot
    BY <1>3 DEF FetchOk
  <2>3. current'.lease.hash # 0
    BY <2>1, <2>2
  <2>4. pc' = [pc EXCEPT ![t] = "release"] /\ lease' = lease
    BY <1>3 DEF FetchOk
  <2>5. QED
    BY <2>3, <2>4
<1>4. ASSUME NEW t \in Tasks, Decide(t)
      PROVE  SoleInv'
  BY <1>4 DEF Decide, RefreshNeeded
<1>5. ASSUME NEW t \in Tasks, WinRefresh(t)
      PROVE  SoleInv'
  BY <1>5 DEF WinRefresh
<1>6. ASSUME NEW t \in Tasks,
             LoseRefresh(t) \/ Wake(t) \/ FetchErr(t) \/ Release(t)
      PROVE  SoleInv'
  BY <1>6 DEF LoseRefresh, Wake, FetchErr, Release
<1>7. ASSUME NEW t \in Tasks, IssueCached(t)
      PROVE  SoleInv'
  <2>1. /\ lease'[t].hash # 0
        /\ current'.lease.hash # 0
        /\ pc'[t] \in {"check", "held"}
    BY <1>7 DEF IssueCached, Cached, Lease
  <2>2. \A u \in Tasks : u = t
    OBVIOUS
  <2>3. QED
    BY <2>1, <2>2
<1>8. ASSUME NEW t \in Tasks, IssueDefault(t)
      PROVE  FALSE
  BY <1>8 DEF IssueDefault
<1>9. ASSUME NEW t \in Tasks,
             CheckValid(t) \/ CheckInvalid(t) \/ CheckErr(t) \/ DropInvalid(t)
      PROVE  SoleInv'
  BY <1>9 DEF CheckValid, CheckInvalid, CheckErr, DropInvalid
<1>10. CASE MarkLayerBoundary \/ NewSlot \/ UNCHANGED vars
  BY <1>10 DEF MarkLayerBoundary, NewSlot, vars
<1>11. QED
  BY <1>1, <1>2, <1>3, <1>4, <1>5, <1>6, <1>7, <1>8, <1>9, <1>10
     DEF Next, TaskStep, LeaseStep, Terminated

\* A caller that shares the manager with nobody, as the baseline of
\* rollup_cli.rs does, is never handed the default hash: the branch that
\* returns it is reached only when another worker clears the lease between
\* the two critical sections of lease().
THEOREM SoleWorkerGetsNoDefaultLease ==
    ASSUME \A t, u \in Tasks : t = u
    PROVE  Spec => []NoDefaultLease
<1>1. Init => SoleInv
  BY DEF Init, SoleInv
<1>2. TypeOK /\ SoleInv /\ [Next]_vars => SoleInv'
  BY SoleStep
<1>3. SoleInv => NoDefaultLease
  BY DEF SoleInv, NoDefaultLease
<1>4. QED
  BY <1>1, <1>2, <1>3, TypeCorrect, PTL DEF Spec

=============================================================================

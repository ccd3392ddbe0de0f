\* Two workers that share the manager; every policy is switched on, behind
\* the ER-aware provider, under the fairness of the runtime.
CONSTANTS
    Tasks = {t1, t2}
    RefreshEvery = 1
    MaxAge = 1
    PreCheck = TRUE
    ErAware = TRUE
    ValidFor = 1
    Layers = 2
    MaxCalls = 3
    MaxSlot = 3
    NoLease = NoLease
    NoTask = NoTask
SPECIFICATION FairSpec
INVARIANTS
    TypeOK
    SingleFlight
    QuotaOvershoot
    BoundaryMarkNotLost
PROPERTY
    ImplementsSingleFlight
    LeaseReturns

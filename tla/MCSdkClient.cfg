\* Two callers of one client.
CONSTANTS
    Callers = {c1, c2}
    c1 = c1
    c2 = c2
    HashLife = 1
    MaxTime = 1
    Workloads <- SomeWorkloads
    Samples = {16, 160}
    MaxCalls = 2
    MaxCuLimit = 1400
    MinCuPrice = 10
    MaxCuPrice = 100
    EmaShare = 2
    Hysteresis = 2
SPECIFICATION Spec
INVARIANTS
    TypeOK
    HonestReceipt
    NoDuplicateWithoutLoss
    PlanCoversUse

\* Two workers: one drops the lease between the other's two critical sections.
CONSTANTS
    Tasks = {t1, t2}
    RefreshEvery = 2
    MaxAge = 2
    PreCheck = TRUE
    ErAware = FALSE
    ValidFor = 1
    Layers = 1
    MaxCalls = 3
    MaxSlot = 4
    NoLease = NoLease
    NoTask = NoTask
SPECIFICATION Spec
INVARIANT
    NoDefaultLease

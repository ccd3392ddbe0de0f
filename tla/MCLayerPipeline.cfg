\* Two plans and one permit in the first layer, one plan in the second, under
\* the fairness of the runtime.
CONSTANTS
    c1 = c1
    c2 = c2
    c3 = c3
    Layers = 2
    Chunks = {c1, c2, c3}
    LayerOf <- TwoThenOne
    Unmerged <- LastIsMerged
    ErEligible = {c1, c3}
    MaxConcurrency = 1
    MaxAttempts = 2
    Options <- AllOptions
SPECIFICATION FairSpec
INVARIANTS
    TypeOK
    PermitsConserved
    LayerBarrier
    HonestResults
    RequiredRouterNeverBypassed
    SettlementFollowsExecution
PROPERTY
    RunEnds

\* Dry runs, with and without the rollup.
CONSTANTS
    c1 = c1
    c2 = c2
    c3 = c3
    Layers = 1
    Chunks = {c1, c2, c3}
    LayerOf <- OneLayer
    Unmerged <- ThreePlans
    ErEligible = {c1}
    MaxConcurrency = 2
    MaxAttempts = 2
    Options <- DryRuns
SPECIFICATION Spec
INVARIANT
    DryRunSendsNothing

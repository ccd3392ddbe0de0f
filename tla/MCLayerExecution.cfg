\* Two layers of one plan each.
CONSTANTS
    c1 = c1
    c2 = c2
    Layers = 2
    Chunks = {c1, c2}
    LayerOf <- OneThenOne
    Unmerged <- OneEach
    ErEligible = {}
    MaxConcurrency = 1
    MaxAttempts = 1
    Options <- PlainOption
SPECIFICATION ExecutionSpec
INVARIANT
    LayersExecuteInOrder

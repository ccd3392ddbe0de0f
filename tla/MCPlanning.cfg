\* Runs of four intents.
CONSTANTS
    NodeCount = 4
    Accounts = {1, 2, 3, 4, 5, 6, 7, 8}
    Priorities = {0, 1}
    Keys = {0, 1, 2, 3, 4, 5, 6, 7, 8}
    Actors = {"x", "y"}
    Footprints <- SomeFootprints
    MaxLayer = 4
    Options <- AllOptions
    Payer = 1
    Batches <- SomeBatches
SPECIFICATION PlanningSpec
INVARIANTS
    TypeOK
    PlannerTypeOK
    LayersPartition
    WritesComeFirst
    WaitsAreJustified
    EveryIntentPlanned
    BudgetsKept
    MergedPartsIndependent
    PackingIsTight
    SentOnceInOrder
    RefinedBudgetBuilds

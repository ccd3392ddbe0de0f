\* The command line's own budgets and an intent of fifty keys.
CONSTANTS
    Keys <- FiftyKeys
    Actors = {"x"}
    Footprints <- ManyAccounts
    MaxLayer = 2
    Options <- CommandLineOnly
SPECIFICATION PlannerSpec
PROPERTY
    AssertionHolds

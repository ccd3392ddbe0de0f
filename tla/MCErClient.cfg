\* Two tasks; a breaker that opens at the second failure.
CONSTANTS
    Tasks = {"t1", "t2"}
    Rounds = 1
    Retries = 1
    Threshold = 2
    Cooldown = 1
    RouteTtl = 1
    MaxTime = 1
    Options <- AllOptions
SPECIFICATION FairSpec
INVARIANTS
    TypeOK
    HonestOutput
    RouterGetsItsOwnHash
PROPERTIES
    ImplementsBreaker
    SessionsReturn

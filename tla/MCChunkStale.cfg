\* A drift of one slot is allowed; the node that answers may be two behind.
CONSTANTS
    payer = payer
    key1 = key1
    key2 = key2
    Tasks = {t1, t2}
    Keys = {payer, key1, key2}
    Payer = payer
    Chunks <- SomeChunks
    Layers = 2
    MaxAttempts = 2
    PerScope = TRUE
    MaxSlotDrift = 1
    MaxRetries = 2
    MaxSlot = 2
    Reserve = 1
    MaxAlt = 1
    IndexByte = 1
    Ttl = 1
    Catalogs <- SomeCatalogs
    Quotes = {3, 6, 10}
    Consumed = {100000, 1300000}
    Slack = 10000
    Percent = 20
    WindowCap = 1
    FeeOptions <- SomeFees
SPECIFICATION FocusedSpec
INVARIANT
    AcceptedSnapshotIsRecent

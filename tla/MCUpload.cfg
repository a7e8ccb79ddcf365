SPECIFICATION FairSpec
CONSTANTS
    f1 = f1
    f2 = f2
    h1 = h1
    h2 = h2
    None = None
    Torn = Torn
    File = {f1, f2}
    Order <- MCOrder
    Batches <- MCBatches
    Chunks <- MCChunks
    Handler = {h1, h2}
    MaxId = 4
    Twice = {f1}
    MaxAttempts = 2
    Limit = 3
    Pages <- MCPages
    Faults <- MCFaults
    Faulty = 2
    MaxFaults <- MCMaxFaults
    Long = 2
INVARIANTS TypeOK StoredIntact PromisedIsStored
PROPERTIES EveryRunEnds
CHECK_DEADLOCK FALSE

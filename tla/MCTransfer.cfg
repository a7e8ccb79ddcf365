SPECIFICATION FairSpec
CONSTANTS
    Files = {f1, f2, f3}
    NoFile = NoFile
    Uploaded = {f1, f2}
    Infected = {f3}
    Recipients = {p1}
    Registered = {p1}
    MaxConcurrent = 2
    MaxRequests = 3
    MaxReverts = 1
    MaxCrashes = 1
INVARIANTS
    TypeOK
    LockedIsDelivered
    GoneServesNothing
    PromisedInArchive
PROPERTIES
    EveryTransferSettles
CHECK_DEADLOCK FALSE

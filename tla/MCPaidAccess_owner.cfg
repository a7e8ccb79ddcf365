SPECIFICATION Spec
CONSTANTS
    Shares = {h1}
    NoShare = NoShare
    Sessions = {s1}
    Workers = {w1}
    OwnerOps = {"remove", "expire", "update"}
    ExpiryChoices = {0, 1, 3}
    MaxTime = 4
    Window = 1
    RetryAge = 1
    Retention = 0
    MaxCrashes = 0
SYMMETRY Symmetry
INVARIANTS
    ExpirationJustified
    RemovalSparesSeenRights
    RefundHonoured
CHECK_DEADLOCK FALSE

SPECIFICATION Spec
CONSTANTS
    Shares = {h1}
    NoShare = NoShare
    Sessions = {s1}
    Workers = {w1, w2}
    OwnerOps = {}
    ExpiryChoices = {0}
    MaxTime = 2
    Window = 1
    RetryAge = 9
    Retention = 9
    MaxCrashes = 0
SYMMETRY Symmetry
INVARIANTS
    RefundHonoured
CHECK_DEADLOCK FALSE

SPECIFICATION Spec
CONSTANTS
    Shares = {h1}
    NoShare = NoShare
    Sessions = {s1}
    Workers = {w1, w2}
    OwnerOps = {"remove"}
    ExpiryChoices = {0, 1}
    MaxTime = 3
    Window = 1
    RetryAge = 0
    Retention = 9
    MaxCrashes = 1
SYMMETRY Symmetry
INVARIANTS
    TypeOK
    MoneyTraced
PROPERTIES
    ImplementsLedger
CHECK_DEADLOCK FALSE

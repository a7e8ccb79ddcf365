SPECIFICATION FairSpec
CONSTANTS
    Shares = {h1}
    NoShare = NoShare
    Sessions = {s1}
    Workers = {w1, w2}
    OwnerOps = {}
    ExpiryChoices = {1}
    MaxTime = 2
    Window = 1
    RetryAge = 0
    Retention = 0
    MaxCrashes = 1
PROPERTIES
    PaidEventuallyRecorded
    RefundEventuallySettled
CHECK_DEADLOCK FALSE

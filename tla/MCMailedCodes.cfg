SPECIFICATION Spec
CONSTANTS
    a1 = a1
    a2 = a2
    x1 = x1
    x2 = x2
    x3 = x3
    NoAddress = NoAddress
    Account = {a1, a2}
    Newcomer = a1
    Address = {x1, x2, x3}
    Initially <- MCInitially
    Request = {r1, r2}
    MaxAttempts = 2
    Explored <- MCExplored
    MaxAsked <- MCMaxAsked
    MaxCodes = 6
INVARIANTS TypeOK GuessesBounded
PROPERTIES EmailProved
CHECK_DEADLOCK FALSE

SPECIFICATION Spec
CONSTANTS
    NoOne = NoOne
    Address = {v, away}
    Visitor = {v}
    Guests = {{v}, {away}}
    Limits = {0, 1}
    Ends = {0, 1}
    Request = {r1, r2}
    MaxTime = 2
    MaxMade = 2
    MaxPasswords = 2
    MaxRequests = 4
CONSTRAINT OneAtATime
SYMMETRY Symmetry
INVARIANTS
    TypeOK
    AdmittedByVisit
    OnlyTheNamed
PROPERTIES
    LimitHolds
CHECK_DEADLOCK FALSE

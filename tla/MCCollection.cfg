SPECIFICATION Spec
CONSTANTS
    Contributions = {c1, c2}
    NoContribution = NoContribution
    Files = {f1, f2}
    NoFile = NoFile
    Requests = {r1, r2}
    Jobs = {j1, j2}
    MaxUseCount = 2
    MaxRemovals = 1
    MaxFaults = 1
    MaxCrashes = 1
SYMMETRY Symmetry
INVARIANTS
    TypeOK
    RemovedStaysOut
    DepositInArchive
    InfectedRemoved
PROPERTIES
    OnlyOwnDepositRemoved
CHECK_DEADLOCK FALSE

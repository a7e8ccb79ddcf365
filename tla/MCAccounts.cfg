SPECIFICATION Spec
CONSTANTS
    p1 = p1
    p2 = p2
    NoUser = NoUser
    NoProvider = NoProvider
    User = {u1, u2, u3}
    Established = {u1, u2}
    Provider = {p1, p2}
    Request = {r1, r2}
    Explored <- MCExplored
    Batches <- MCBatches
    Starts <- MCStarts
    MaxAsked <- MCMaxAsked
    MaxRestarts = 1
SYMMETRY Symmetry
INVARIANTS TypeOK
PROPERTIES AdministratorRemains UnlinkKeepsADoor SettingsKeepADoor
CHECK_DEADLOCK FALSE

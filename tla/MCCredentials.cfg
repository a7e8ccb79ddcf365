SPECIFICATION Spec
CONSTANTS
    Tokens = {t1, t2, t3}
    NoToken = NoToken
    Requests = {r1, r2}
    Served = {"signIn", "federated", "totp", "trusted", "update", "admin", "reset",
              "requestReset", "enable", "verify", "disable", "resetTotp"}
    MaxVersion = 3
    MaxCrashes = 1
CONSTRAINT OneBoundAtATime
SYMMETRY Symmetry
INVARIANTS
    TypeOK
    NoSupersededAccess
    VerifiedIsCurrent
    TokensWorkOnce
CHECK_DEADLOCK FALSE

SPECIFICATION Spec
CONSTANTS
    Requests = {r1, r2}
    Tokens = {t1, t2, t3}
    ResetTokens = {k1}
    Passwords = {p1, p2}
    NoToken = NoToken
    NoReset = NoReset
    NoPassword = NoPassword
    Operations = {"login", "refresh", "forgot", "reset"}
    MaxAttempts = 2
    ResetLimit = 1
SYMMETRY Symmetry
CHECK_DEADLOCK FALSE
INVARIANTS
    SingleExchange
    RevocationHolds
    GuessBudget
PROPERTIES
    StoreRefined

SPECIFICATION Spec
CONSTANTS
    Requests = {r1, r2}
    Tokens = {t1, t2}
    ResetTokens = {k1}
    Passwords = {p1, p2}
    NoToken = NoToken
    NoReset = NoReset
    NoPassword = NoPassword
    Operations = {"login", "forgot", "reset"}
    MaxAttempts = 2
    ResetLimit = 1
SYMMETRY Symmetry
CHECK_DEADLOCK FALSE
INVARIANTS
    ResetTokenSingleUse

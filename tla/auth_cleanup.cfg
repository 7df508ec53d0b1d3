SPECIFICATION Spec
CONSTANTS
    Requests = {r1, r2}
    Tokens = {t1, t2, t3}
    ResetTokens = {}
    Passwords = {p1}
    NoToken = NoToken
    NoReset = NoReset
    NoPassword = NoPassword
    Operations = {"login", "refresh"}
    MaxAttempts = 2
    ResetLimit = 1
CHECK_DEADLOCK FALSE
PROPERTIES
    ExpiredRecordsCleaned

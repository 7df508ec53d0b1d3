SPECIFICATION FairSpec
CONSTANTS
    Requests = {r1, r2}
    Tokens = {t1, t2}
    ResetTokens = {}
    Passwords = {p1}
    NoToken = NoToken
    NoReset = NoReset
    NoPassword = NoPassword
    Operations = {"login", "refresh", "logout", "change"}
    MaxAttempts = 5
    ResetLimit = 1
CHECK_DEADLOCK FALSE
PROPERTIES
    RequestsEnd

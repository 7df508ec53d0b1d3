SPECIFICATION Spec
CONSTANTS
    Requests = {r1, r2, r3}
    Tokens = {t1, t2, t3}
    Invites = {i1, i2}
    NoToken = NoToken
    NoInvite = NoInvite
    Operations = {"register", "apply", "claim", "resend", "activate", "erase", "invite", "revoke", "reinvite", "drop", "enroll", "approve", "reject", "delete"}
    Budget = 6
SYMMETRY Symmetry
CHECK_DEADLOCK FALSE
INVARIANTS
    PendingHasLink
    LinkMatchesPassword
    LinksOverlap
    ActiveHasProfile
    InviteSpent

SPECIFICATION Spec
CONSTANTS
    Requests = {r1, r2, r3}
    Applications = {a1, a2}
    Candidates = {c1, c2}
    NoApplication = NoApplication
    NoCandidate = NoCandidate
    Operations = {"apply", "withdraw", "status", "purge", "approve", "reject", "update", "remove", "delete"}
    Budget = 5
SYMMETRY Symmetry
CHECK_DEADLOCK FALSE
INVARIANTS
    OneApplication
    NoticeEarned
    WithdrawalHolds
PROPERTY BookRefined

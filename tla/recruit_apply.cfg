SPECIFICATION Spec
CONSTANTS
    Requests = {r1, r2}
    Applications = {a1, a2}
    Candidates = {c1, c2}
    NoApplication = NoApplication
    NoCandidate = NoCandidate
    Operations = {"apply", "update"}
    Budget = 4
SYMMETRY Symmetry
CHECK_DEADLOCK FALSE
PROPERTIES
    ApplyOnlyPublished

SPECIFICATION Spec
CONSTANTS
    Requests = {r1, r2}
    Applications = {a1, a2}
    Keys = {k1, k2, k3}
    NoKey = NoKey
SYMMETRY Symmetry
CHECK_DEADLOCK FALSE
INVARIANTS
    OwnFileKept
    ProfileFileKept

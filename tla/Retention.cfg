CONSTANTS
    NAttempts = 2
    NFiles = 2
    Retained = {1}
    Plans = {p1, p2}
    Owners = {g1, g2}
    Callers = {c1}
    MaxCalls = 1
    MaxCrashes = 1
    None = None
SYMMETRY Symmetry
SPECIFICATION Spec
CHECK_DEADLOCK FALSE
INVARIANTS
    OnlyExpiredIsPruned
    WorktreeFirst
    DeletionIsAccounted
    CompletedMeansRemoved
    NoReplay

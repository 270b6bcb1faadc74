CONSTANTS
    solo = solo
    c1 = c1
    c2 = c2
    None = None
    Jobs = {solo}
    Deps <- MCDeps
    Rank <- MCRank
    MaxConcurrent = 1
    MaxAttempts <- MCTwoAttempts
    MaxAutoRetries <- MCMaxAutoRetries
    Retained = {solo}
    Removable = {}
    Contained = {}
    Callers = {c1, c2}
    Actions = {a1}
SPECIFICATION MatrixSpec
CONSTRAINT OneByOne
SYMMETRY MCSymmetry
INVARIANTS
    EveryInconsistencyHasAnAction
    AppliedOnce
PROPERTIES
    RepairsConverge

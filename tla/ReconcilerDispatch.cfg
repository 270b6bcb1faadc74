CONSTANTS
    solo = solo
    c1 = c1
    c2 = c2
    None = None
    Jobs = {solo}
    Deps <- MCDeps
    Rank <- MCRank
    MaxConcurrent = 1
    MaxAttempts <- MCTwoAttempts
    MaxAutoRetries <- MCMaxAutoRetries
    Retained = {solo}
    Removable = {}
    Contained = {solo}
    Callers = {c1}
    Actions = {a1}
SPECIFICATION ReconcilerSpec
CONSTRAINT Calm
VIEW Pending
INVARIANTS
    NoDuplicateWork
    CompletedHasEvidence
PROPERTIES
    OutcomesAreImmutable

CONSTANTS
    solo = solo
    parent = parent
    child = child
    Jobs = {parent, child}
    Deps <- MCDeps
    Rank <- MCRank
    MaxConcurrent = 1
    MaxAttempts <- MCMaxAttempts
    MaxAutoRetries <- MCMaxAutoRetries
    Retained = {parent, child}
    Removable = {parent}
    Contained = {parent}
SPECIFICATION Spec
CONSTRAINT Unfinished
INVARIANTS
    LineageIsEvidence
    ConcurrencyBound

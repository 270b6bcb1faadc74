CONSTANTS
    solo = solo
    parent = parent
    child = child
    Jobs = {solo}
    Deps <- MCDeps
    Rank <- MCRank
    MaxConcurrent = 1
    MaxAttempts <- MCMaxAttempts
    MaxAutoRetries <- MCMaxAutoRetries
    Retained = {}
    Removable = {solo}
    Contained = {solo}
SPECIFICATION FairSpec
PROPERTIES
    OrphanIsRequeued

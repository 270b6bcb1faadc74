CONSTANTS
    Platforms = {"posix", "win32"}
    MaxKills = 1
SPECIFICATION FairSpec
CHECK_DEADLOCK FALSE
INVARIANTS
    ProvenMeansGone
    IdentityBeforeWorker
    EvidenceIsNotLost
PROPERTIES
    SettledRunStartsNothing
    StopEndsTree
    RunSettles

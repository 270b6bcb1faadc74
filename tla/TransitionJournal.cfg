CONSTANTS
    Writers = {w1, w2}
    Values <- MCValues
    Legal <- MCLegal
    InitVal = "reserved"
    MaxRevision = 3
SPECIFICATION Spec
INVARIANTS
    TypeOK
    ProjectionNeverAhead
    NoLostUpdate
    AcknowledgedIsDurable
PROPERTIES
    ImplementsAtomicRecord

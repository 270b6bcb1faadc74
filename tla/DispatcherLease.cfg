CONSTANTS
    Procs = {p1, p2, p3, p4}
    Ids = {i1, i2, i3, i4}
    None = None
    MaxGeneration = 2
SPECIFICATION Spec
SYMMETRY MCSymmetry
CHECK_DEADLOCK FALSE
INVARIANTS
    TypeOK
    OneRepairer
    MutualExclusion
    LeaseIsNeverStolen
PROPERTIES
    OnlyTheDeadArePreserved
    GenerationsFence

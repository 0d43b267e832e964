SPECIFICATION PeepSpec
CONSTANTS
    MaxNodes = 12
    MaxOps = 0
    Kinds <- MCKinds
    Interned <- MCInterned
    Ctrl = {}
    Sinks <- MCSinks
    Args <- MCArgs
    PhiOf <- MCPhiOf
    Hash <- SumHash
    Programs <- SmallPrograms
INVARIANTS
    UseDefConsistent
    GvnUnique
    MeaningKept
    FixpointUpToMerges
PROPERTIES
    PeepsEnd

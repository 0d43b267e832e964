SPECIFICATION Spec
CONSTANTS
    MaxNodes = 4
    MaxOps = 3
    Kinds <- LoopKinds
    Interned <- LoopInterned
    Ctrl = {}
    Sinks <- MCSinks
    Args <- LoopArgs
    PhiOf <- LoopPhiOf
    Hash <- SmallHash
INVARIANTS
    UseDefConsistent
    GvnUnique
PROPERTIES
    CallsEnd

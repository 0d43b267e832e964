SPECIFICATION Spec
CONSTANTS
    MaxNodes = 5
    MaxOps = 2
    Kinds <- DagKinds
    Interned <- DagInterned
    Ctrl <- MCCtrl
    Sinks <- MCSinks
    Args <- DagArgs
    PhiOf <- DagPhiOf
    Hash <- PerfectHash
INVARIANTS
    TypeOK
    UseDefConsistent
    
    NoDanglingCall

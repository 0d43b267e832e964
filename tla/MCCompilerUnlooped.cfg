SPECIFICATION CompilerSpec
CONSTANTS
    MaxNodes = 50
    MaxOps = 0
    Fuel = 120
    Size = 1
    Programs <- UnloopedPrograms
    Consts <- MCConsts
    Kinds <- MCKinds
    Interned <- MCInterned
    Ctrl <- ControlKinds
    Sinks <- MCSinks
    Args <- MCArgs
    PhiOf <- MCPhiOf
    Hash <- MCHash
INVARIANTS
    MeaningKept

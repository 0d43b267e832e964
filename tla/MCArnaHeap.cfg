SPECIFICATION Spec
CONSTANTS
    PageSize = 2
    CommitChunk = 2
    Sizes <- MCSizes
    Aligns <- MCAligns
    Reservations <- MCReservations
    MaxBlocks = 3
    MaxScopes = 1
INVARIANTS
    TypeOK
    BlocksSafe
    BlocksAligned
    ScopesKeepOuterBlocks
    CommitAlwaysCovers
PROPERTIES
    IsBlockAllocator
CHECK_DEADLOCK FALSE

SPECIFICATION Spec
CONSTANTS
    PageSize = 2
    CommitChunk = 2
    Sizes <- MCSizes
    Aligns <- MCAligns
    Reserved = 4
    MaxFrames = 4
    MaxBlocks = 3
INVARIANTS
    TypeOK
    NoClobber
    ReturnsKeepCallers

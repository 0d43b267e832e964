SPECIFICATION BindingsSpec
CONSTANTS
    o = o
    b = b
    Owned = {o}
    Borrowed = {b}
    Base <- MCBase
    Cap = 6
    TempCap = 8
    TempPos = {3}
    MaxSlice = 2
    MaxGiven = 1
    MaxRefs = 2
    MaxBufs = 2
    MaxStencils = 2
    MaxOps = 3
    LEN = 2
    Value = {i64}
    Arrays = {}
    Uninit = Uninit
    None = None
    Panic = Panic
INVARIANTS   TempsSafe BuffersOwned 
  
CHECK_DEADLOCK FALSE

SPECIFICATION Spec
CONSTANTS
    d1 = d1
    d2 = d2
    p1 = p1
    b1 = b1
    Devices = {d1, d2}
    Programs = {p1}
    Buffers = {b1}
    Sizes = {1}
    OneShot = 1
    FirstPage = 4
    MaxPage = 9
    MaxHandles = 6
    MaxOpens = 2
    MaxSubmits = 2
    RepeatClose = FALSE
INVARIANTS
    TypeOK
    JobsApart
    UploadsSafe
    LostStaysFailed
    SuccessMeansFinished
    NoLeak
    AddressesFresh
CHECK_DEADLOCK FALSE

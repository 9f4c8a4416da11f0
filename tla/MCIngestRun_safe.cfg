SPECIFICATION Spec
CONSTANTS
    a = a
    b = b
    c = c
    x = x
    y = y
    n1 = n1
    n2 = n2
    Bad = Bad
    Skip = Skip
    More = More
    Blank = Blank
    NoRow = NoRow
    NoFile = NoFile
    Files <- TwoFiles
    Text <- TwoText
    Base <- TwoNames
    BadHeader <- NoFiles
    Missing <- NoFiles
    Broken <- NoFiles
    Gated = FALSE
    InitWorkers = 2
    MaxWorkers = 2
    MinWorkers = 0
    QueueSize = 1
    MayCancel <- OnlyA
    MayInterrupt = TRUE
INVARIANTS
    WaitGroupExact
    SettledWhenPublished
    ProcessedOnce
    RecordsAccounted
    CancelIsolated
CHECK_DEADLOCK FALSE

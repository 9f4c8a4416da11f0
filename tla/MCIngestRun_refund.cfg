SPECIFICATION Spec
CONSTANTS
    a = a
    b = b
    c = c
    x = x
    y = y
    n1 = n1
    n2 = n2
    Bad = Bad
    Skip = Skip
    More = More
    Blank = Blank
    NoRow = NoRow
    NoFile = NoFile
    Files <- TwoFiles
    Text <- TwinText
    Base <- TwoNames
    BadHeader <- NoFiles
    Missing <- NoFiles
    Broken <- NoFiles
    Gated = TRUE
    InitWorkers = 1
    MaxWorkers = 1
    MinWorkers = 1
    QueueSize = 1
    MayCancel <- OnlyA
    MayInterrupt = FALSE
INVARIANTS
    CancelledRowsRefunded
CHECK_DEADLOCK FALSE

SPECIFICATION FairSpec
CONSTANTS
    a = a
    b = b
    c = c
    x = x
    y = y
    n1 = n1
    n2 = n2
    Bad = Bad
    Skip = Skip
    More = More
    Blank = Blank
    NoRow = NoRow
    NoFile = NoFile
    Files <- TwoFiles
    Text <- TwinText
    Base <- TwoNames
    BadHeader <- NoFiles
    Missing <- NoFiles
    Broken <- NoFiles
    Gated = FALSE
    InitWorkers = 1
    MaxWorkers = 1
    MinWorkers = 1
    QueueSize = 1
    MayCancel <- NoFiles
    MayInterrupt = TRUE
PROPERTIES
    InterruptedRunReturns
CHECK_DEADLOCK FALSE

SPECIFICATION FairSpec
CONSTANTS
    a = a
    b = b
    c = c
    x = x
    y = y
    n1 = n1
    n2 = n2
    Bad = Bad
    Skip = Skip
    More = More
    Blank = Blank
    NoRow = NoRow
    NoFile = NoFile
    Files <- TwoFiles
    Text <- ShortText
    Base <- TwoNames
    BadHeader <- NoFiles
    Missing <- NoFiles
    Broken <- OnlyA
    Gated = FALSE
    InitWorkers = 1
    MaxWorkers = 2
    MinWorkers = 0
    QueueSize = 1
    MayCancel <- OnlyA
    MayInterrupt = FALSE
PROPERTIES
    RunReturns
    CancelFinishes
CHECK_DEADLOCK FALSE

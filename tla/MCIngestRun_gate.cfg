SPECIFICATION Spec
CONSTANTS
    a = a
    b = b
    c = c
    x = x
    y = y
    n1 = n1
    n2 = n2
    Bad = Bad
    Skip = Skip
    More = More
    Blank = Blank
    NoRow = NoRow
    NoFile = NoFile
    Files <- ThreeFiles
    Text <- OddText
    Base <- SharedNames
    BadHeader <- OnlyB
    Missing <- OnlyA
    Broken <- NoFiles
    Gated = TRUE
    InitWorkers = 1
    MaxWorkers = 1
    MinWorkers = 1
    QueueSize = 0
    MayCancel <- TwoFiles
    MayInterrupt = TRUE
INVARIANTS
    BilledExactly
    NeverUnderbilled
    NamesTheRightFile
PROPERTIES
    KeepsStopContract
CHECK_DEADLOCK FALSE

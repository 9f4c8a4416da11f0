SPECIFICATION FairSpec
CONSTANTS
    j1 = j1
    j2 = j2
    NoJob = NoJob
    Jobs <- TwoJobs
    MaxWorkers = 3
    QueueSize = 1
    Contract = "closed"
INVARIANTS
    TypeOK
    OnePlace
    StackExact
    ExecutorExists
    StopSettles
PROPERTIES
    ImplementsLedger
    SubmitReturns
    StopTerminates
    StopRunsAll
    RemovedLeaves
    QueuedRuns
CHECK_DEADLOCK FALSE

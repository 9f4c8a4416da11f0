SPECIFICATION Spec
CONSTANTS
    u1 = u1
    u2 = u2
    c1 = c1
    c2 = c2
    NoId = NoId
    UserIds <- TwoUsers
    Defaults <- SmallDefaults
    MaxInt = 7
    Rpcs <- TwoCalls
    Https <- NoRequests
    RpcRequests <- TokenRequests
    HttpRequests <- NoRequests
    Sources <- SomeSources
    MaxTime = 1
    MaxBoots = 2
SYMMETRY Symmetry
INVARIANTS
    OneBucketPerUser
    BudgetAcrossRestarts
    ClientsAreCovered
CHECK_DEADLOCK FALSE

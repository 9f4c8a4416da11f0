SPECIFICATION FairSpec
CONSTANTS
    u1 = u1
    u2 = u2
    c1 = c1
    c2 = c2
    NoId = NoId
    UserIds <- TwoUsers
    Defaults <- SmallDefaults
    MaxInt = 7
    Rpcs <- OneCall
    Https <- TwoHttps
    RpcRequests <- OtherRequests
    HttpRequests <- SomeHttpRequests
    Sources <- SomeSources
    MaxTime = 0
    MaxBoots = 1
INVARIANTS
    HandledIsLogged
    TransportsAgree
PROPERTIES
    GracefulEnd
    SignalEnds
CHECK_DEADLOCK FALSE

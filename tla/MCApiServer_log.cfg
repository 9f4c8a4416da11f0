SPECIFICATION Spec
CONSTANTS
    u1 = u1
    u2 = u2
    c1 = c1
    c2 = c2
    NoId = NoId
    UserIds <- TwoUsers
    Defaults <- SmallDefaults
    MaxInt = 7
    Rpcs <- NoRequests
    Https <- OneCall
    RpcRequests <- NoRequests
    HttpRequests <- InvalidRequest
    Sources <- SomeSources
    MaxTime = 0
    MaxBoots = 1
INVARIANTS
    EveryRequestLogged
CHECK_DEADLOCK FALSE

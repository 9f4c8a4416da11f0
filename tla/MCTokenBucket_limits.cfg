SPECIFICATION Spec
CONSTANTS
    Capacity = 3
    Num = 3
    Den = 5
    MaxInt = 7
    Amounts <- SmallAmounts
    Honest = TRUE
    MaxTime = 12
    MaxOps = 5
INVARIANTS
    TypeOK
    RateLimited
    NeverShort
    WithinOneToken
CHECK_DEADLOCK FALSE

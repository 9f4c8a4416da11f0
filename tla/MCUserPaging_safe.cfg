SPECIFICATION PagingSpec
CONSTANTS
    alice = alice
    Alice = Alice
    bob = bob
    n1 = n1
    c1 = c1
    c2 = c2
    c3 = c3
    c4 = c4
    Sorted = TRUE
    DefaultLimit = 1
    MaxLimit = 2
    Limits <- TwoLimits
    Offsets <- Negative
    NoUser = NoUser
    Unset = Unset
    Ids <- TwoIds
    Names <- OneName
    Emails <- TwoAddresses
    Key <- Lowered
    Calls <- FourCalls
    Requests <- AllRequests
SYMMETRY CallSymmetry
INVARIANTS
    EmailsUnique
    RegisteredStay
    PagesCover
CHECK_DEADLOCK FALSE

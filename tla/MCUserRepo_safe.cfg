SPECIFICATION Spec
CONSTANTS
    alice = alice
    Alice = Alice
    bob = bob
    n = n
    api = api
    cli = cli
    NoUser = NoUser
    NoWrite = NoWrite
    Partial = Partial
    NoFile = NoFile
    Ids <- ThreeIds
    Names = {n}
    Emails <- TwoAddresses
    Key <- Lowered
    Procs = {api}
INVARIANTS
    TypeOK
    MemoryIsDisk
    IndexExact
PROPERTIES
    ImplementsDirectory
CHECK_DEADLOCK FALSE

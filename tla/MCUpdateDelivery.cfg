CONSTANTS
    alice = alice
    bob = bob
    a1 = a1
    b1 = b1
    User <- MCUser
    Session <- MCSession
    owner <- MCOwner
    Writer = {a1}
    Flaky = {b1}
    Handler = {h1, h2}
    Nobody = Nobody
    DifferenceLimit = 1
    LookupMayFail = TRUE
    MaxPts = 2
    MaxDelete = 2
SPECIFICATION FairSpec
INVARIANTS
    TypeOK
    MissesExplained
    ClientInStep
PROPERTIES
    EventuallyInSync
CHECK_DEADLOCK FALSE

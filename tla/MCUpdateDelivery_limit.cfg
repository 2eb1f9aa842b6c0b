CONSTANTS
    alice = alice
    bob = bob
    a1 = a1
    b1 = b1
    User <- MCUser
    Session <- MCSession
    owner <- MCOwner
    Writer = {a1}
    Flaky = {b1}
    Handler = {h1, h2}
    Nobody = Nobody
    DifferenceLimit = 1
    LookupMayFail = FALSE
    MaxPts = 2
    MaxDelete = 2
SPECIFICATION Spec
SYMMETRY Symmetry
INVARIANTS
    NoMissedUpdate
CHECK_DEADLOCK FALSE

CONSTANTS
    User = {alice, bob}
    NoUser = NoUser
    Text = {t1, t2}
    RandomID = {r1}
    MaxMessages = 2
    MaxPts = 3
    MaxDelete = 2
SPECIFICATION Spec
SYMMETRY Symmetry
INVARIANTS
    TypeOK
    LogContiguous
    CopiesMatch
    LogTellsMessages
    ReceiptsExact
    UnreadFollowsLog
PROPERTIES
    UpdateStream
    CopiesPersist
CHECK_DEADLOCK FALSE

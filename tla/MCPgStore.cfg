CONSTANTS
    User = {alice, bob}
    NoUser = NoUser
    Text = {t1, t2}
    RandomID = {r1}
    Tx = {x1, x2}
    KnownReads = TRUE
    MaxOps = 3
    MaxDelete = 2
SPECIFICATION FairSpec
INVARIANTS
    AsInMemory
    ConversationOrder
PROPERTIES
    UpdateStream
    CopiesPersist
    EveryTxEnds
CHECK_DEADLOCK FALSE

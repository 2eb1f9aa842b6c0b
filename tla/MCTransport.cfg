CONSTANTS
    s1 = s1
    k1 = k1
    Session <- MCSession
    Key <- MCKey
    keyOf <- MCKeyOf
    Conn = {1, 2, 3}
    None = None
    StorageMayFail = TRUE
    MsgId = {m1, m2}
    Exchange = Exchange
    MaxRestarts = 1
SPECIFICATION FairSpec
INVARIANTS
    TypeOK
    NoDeadEntry
    AnswerReachesClient
PROPERTIES
    StoredKeysServed
    EventuallyAnswered
CHECK_DEADLOCK FALSE

CONSTANTS
    User = {alice, bob}
    Viewer = {alice}
    NoUser = NoUser
    Text = {t1}
    RandomID = {r1}
    MaxMessages = 3
    MaxPts = 3
    MaxDelete = 1
    HistoryLimit = 1
    DialogsLimit = 1
    Peers = 2
    MaxDrafts = 1
SPECIFICATION MailboxSpec
INVARIANTS
    HistoryComplete
    DialogsWhole
    ReadStateReal
CHECK_DEADLOCK FALSE

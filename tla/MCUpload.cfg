CONSTANTS
    c1 = c1
    x = x
    y = y
    Client <- MCClient
    Byte = {x, y}
    file <- MCFile
    Handler = {h1, h2, h3}
    Reader = {r1}
    Backend = {"fs", "memory"}
    Limit = 1
    MaxFaults = 2
SPECIFICATION FairSpec
INVARIANTS
    TypeOK
    DownloadsExact
    SentWhole
PROPERTIES
    MediaPersists
    EventuallySent
CHECK_DEADLOCK FALSE

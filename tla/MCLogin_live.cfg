CONSTANTS
    s1 = s1
    s2 = s2
    p1 = p1
    p2 = p2
    Session <- MCSession
    Perm <- MCTwoPerms
    permOf <- MCTwoClients
    Temp = {}
    Phone = {f1}
    Token = {b1}
    Hash = {h1, h2, h3, h4}
    None = None
    RotatesInTime = TRUE
SPECIFICATION LoginSpec
INVARIANT OneAccountEach
PROPERTY EventuallyLoggedIn
CHECK_DEADLOCK FALSE

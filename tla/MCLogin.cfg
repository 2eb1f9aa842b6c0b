CONSTANTS
    s1 = s1
    s2 = s2
    p1 = p1
    p2 = p2
    Session <- MCSession
    Perm <- MCOnePerm
    permOf <- MCOneClient
    Temp = {t1, t2}
    Phone = {f1, f2}
    Token = {}
    Hash = {h1}
    None = None
    RotatesInTime = TRUE
SPECIFICATION Spec
SYMMETRY Symmetry
INVARIANTS
    TypeOK
    LoginNeedsCode
    LoginHolds
CHECK_DEADLOCK FALSE

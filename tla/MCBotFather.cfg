CONSTANTS
    Humans = 1
    Username = {n1, n2}
    fold <- MCFold
    NoName = NoName
    Handler = {h1, h2}
    MaxAccounts = 3
    MaxSecrets = 2
SPECIFICATION Spec
SYMMETRY Symmetry
INVARIANTS
    TypeOK
    UsernameOnce
    LoginsReuseAccount
    AskedIsStored
CHECK_DEADLOCK FALSE

CONSTANTS
    Users = {u1, u2}
    USER_JOURNALS_MAX = 1
    SyncInterval = 1
    BootTime = 9
    Scopes <- MCScopes
SPECIFICATION ServerSpec
SYMMETRY UserSymmetry
INVARIANTS ServerTypeOK SeqnumsIncrease OfflineIntact NothingLost CritDurable
           OrderKept
CHECK_DEADLOCK FALSE

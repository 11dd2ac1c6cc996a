CONSTANTS
    FILE_SIZE_MIN = 2
    MAX_USE_LOWER = 4
    MAX_USE_UPPER = 8
    MAX_SIZE_UPPER = 3
    KEEP_FREE_UPPER = 5
    Page = 2
    Capacity = 40
    RECHECK = 2
    Scopes <- MCScopes
SPECIFICATION VacuumSpec
INVARIANT RetentionKept
PROPERTIES OldestDeletedFirst NoSpin SpaceFresh
VIEW MCView
CHECK_DEADLOCK FALSE

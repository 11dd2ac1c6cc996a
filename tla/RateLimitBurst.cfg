SPECIFICATION RateLimitSpec
CONSTANTS
    Priorities = {3, 6}
    MaxLevelStore = 6
    RateLimitInterval = 1
    RateLimitBurst = 1
    DEFAULT_INTERVAL = 3
    DEFAULT_BURST = 2
    Space = {20, 21}
    MaxTime = 4
    MaxMessages = 5
INVARIANT
    BurstGranted
CHECK_DEADLOCK FALSE

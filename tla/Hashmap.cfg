CONSTANTS
    Maps = {1, 2}
    Pairs <- MCPairs
    HashKeys = {1}
    Hash <- MCHash
    INITIAL_N_BUCKETS = 2
    Busy = {1}
    MaxTiles = 3
SPECIFICATION HashmapSpec
INVARIANTS LoopOnTrack
PROPERTY ImplementsOrderedMap
VIEW MCView
CHECK_DEADLOCK FALSE

\* Two data objects and arrays of at least one item: chains of up to three
\* arrays (1, 2 and 8 items), each of them failing to be allocated or not.
CONSTANTS
    Data = {1, 2}
    ARRAY_MIN = 1
    MaxEntries = 5
    Items <- MCItems
    CHAIN_CACHE_MAX = 1
    Scopes <- MCScopes
SPECIFICATION SearchSpec
INVARIANTS CountedItemsSet ChainsSorted IndexSound
           IndexComplete VerifyAccepts
           SearchExact SearchSafe SeekBothExact
PROPERTIES AppendOnly OperationEnds
CHECK_DEADLOCK FALSE

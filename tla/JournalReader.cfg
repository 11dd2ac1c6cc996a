CONSTANTS
    Files = {"f1", "f2", "f3"}
    SeqnumId <- MCSeqnumId
    Data = {1, 2, 4, 8}
    FieldOf <- MCFieldOf
    Payloads <- MCPayloads
    Jumps = {2}
    MaxEntries = 3
    Scopes <- MCScopes
SPECIFICATION ReaderSpec
INVARIANT PointsToEntry
PROPERTIES NextExact UniqueExact
VIEW MCView
CHECK_DEADLOCK FALSE

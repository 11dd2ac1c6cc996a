CONSTANTS
    Root = "root"
    Subs = {"sub"}
    Names = {"a", "b"}
    Scopes <- MCScopes
SPECIFICATION WatchSpec
INVARIANT FilesCurrent
PROPERTY InvalidateTold
CHECK_DEADLOCK FALSE

CONSTANTS
    Root = "root"
    Subs = {"sub"}
    Names = {"a", "b"}
    Scopes <- MCScopes
SPECIFICATION WatchSpec
INVARIANT RotationFollowed
CHECK_DEADLOCK FALSE

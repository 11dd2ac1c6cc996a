CONSTANTS
    Contexts = {1, 2}
    Fds = {1, 2}
    PAGE = 2
    WINDOW_SIZE = 4
    WINDOWS_MIN = 1
    Requests <- MCRequests
    Sizes = {4, 7}
    MaxWindows = 4
    MaxOpens = 2
    MaxNoMem = 2
SPECIFICATION MMapSpec
INVARIANTS ListsAgree RegionsBacked
CHECK_DEADLOCK FALSE

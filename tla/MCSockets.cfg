SPECIFICATION FairSpec
CONSTANTS
    Programs = {p1, p2}
    Remotes = {r1, r2}
    NAddrs = 3
    MaxIds = 2
    MaxQueue = 2
    MAX_ASYNC_TASKS = 2
INVARIANTS TypeOK BoundLive  OneChild
 
CHECK_DEADLOCK FALSE

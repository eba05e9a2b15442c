CONSTANTS
    NServices = 2
    MAX_RETRIES = 1
    Clients = {c1}
    Names = {1, 3}
    Ops = {"start", "stop", "restart"}
    WAIT_RETRIES = 1
    Pids = {1, 2, 3}
    SpawnFails = TRUE
    MaxQueue = 1
SPECIFICATION FairSpec
INVARIANTS TypeOK Tracked StoppedStays
PROPERTY Restarted
CHECK_DEADLOCK FALSE

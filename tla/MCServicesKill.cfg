CONSTANTS
    NServices = 1
    MAX_RETRIES = 2
    Clients = {c1, c2}
    Names = {1}
    Ops = {"start", "stop", "restart"}
    WAIT_RETRIES = 2
    Pids = {1, 2}
    SpawnFails = FALSE
    MaxQueue = 1
SPECIFICATION Spec
INVARIANT ManagerSurvives
SYMMETRY Symmetry
CHECK_DEADLOCK FALSE

CONSTANTS
    MaxTasks = 2
    Threads = FALSE
    Codes = {7}
    MaxPid = 2
SPECIFICATION Spec
INVARIANT OnlyLiveTasksRun
CHECK_DEADLOCK FALSE

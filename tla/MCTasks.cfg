CONSTANTS
    MaxTasks = 3
    Threads = TRUE
    Codes = {7}
    MaxPid = 4
SPECIFICATION FairSpec
INVARIANTS TypeOK UniquePids CleanExits ExitCodesKept
PROPERTIES NoStarvation ExitCompletes
CHECK_DEADLOCK FALSE

SPECIFICATION FairSpec
CONSTANTS
    MAX_WINDOWS = 2
    WM_MAX_SLOTS = 2
    WM_MAX_EVENTS = 1
    ConnectYields = 1
    CloseYields = 1
    MaxPid = 2
    Quota <- MCQuota
INVARIANTS TypeOK OwnWindow
PROPERTIES SameWindow  FlushReturns
CHECK_DEADLOCK FALSE

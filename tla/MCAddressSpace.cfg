CONSTANTS
    NPhys = 13
    NTables = 20
    PerTable = 12
    NDirs = 5
    Offset = 24
    Programs <- MCPrograms
    Heap <- MCHeap
    NTasks = 2
    MaxSpawns = 3
    MaxKernel = 1
SPECIFICATION Spec
INVARIANTS TypeOK Isolation  FreesHeld
CHECK_DEADLOCK FALSE

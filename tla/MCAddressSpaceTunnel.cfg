CONSTANTS
    NPhys = 14
    NTables = 13
    PerTable = 14
    NDirs = 4
    Offset = 14
    Programs <- MCPrograms
    Heap <- MCHeap
    NTasks = 2
    MaxSpawns = 4
    MaxKernel = 1
SPECIFICATION Spec
INVARIANT NoStrayPages
CHECK_DEADLOCK FALSE

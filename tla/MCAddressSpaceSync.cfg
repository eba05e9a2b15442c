CONSTANTS
    NPhys = 16
    NTables = 20
    PerTable = 4
    NDirs = 13
    Offset = 16
    Programs <- MCPrograms
    Heap <- MCHeap
    NTasks = 2
    MaxSpawns = 4
    MaxKernel = 1
SPECIFICATION Spec
INVARIANT KernelMapped
CHECK_DEADLOCK FALSE

CONSTANTS
    Hdr = 16
    Granule = 16
    MinSplit = 16
    Canary = 4
    Page = 64
    WordSize = 1024
    HeapSize = 128
    MaxHeap = 128
    MaxBlocks = 3
    Sizes = {12, 13, 44}
SPECIFICATION Spec
INVARIANTS TypeOK Linked BlocksHold
PROPERTIES OverrunDetected AllocationSpec
CHECK_DEADLOCK FALSE

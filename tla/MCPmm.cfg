CONSTANTS
    NPages = 13
    KernelStart = 3
    PagingStart = 5
    PagingEnd = 7
    MaxCount = 3
    WordPages = 16
    Usable <- MCUsable
    BootMarks <- MCBootMarks
SPECIFICATION Spec
INVARIANTS TypeOK BitmapExact Accounting
PROPERTIES GrantsAreFresh OwnershipSpec
CHECK_DEADLOCK FALSE

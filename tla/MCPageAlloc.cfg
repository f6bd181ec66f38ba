SPECIFICATION AllocSpec
CONSTANTS
    RamStart = 2
    RamEnd = 7
    PAGE_SIZE = 4
    ENTRY_COUNT = 2
    InitArgs <- MCInitArgs
    NULL = NULL
    Junk = Junk
    Data = {Junk}
INVARIANTS
    AllocTypeOK
    ListInMemory
    EveryPageOnce
    WholePagesOnly
PROPERTIES
    HeldPagesUntouched
    ClearedWhenAsked
    ImplementsPool

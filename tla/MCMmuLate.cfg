SPECIFICATION MmuSpec
CONSTANTS
    RamStart = 128
    RamEnd = 140
    PAGE_SIZE = 4
    ENTRY_COUNT = 8
    PTE_SPAN = 4
    LEAF_SPAN = 16
    SIGN_BITS = 1024
    text_start = 516
    ro_data_start = 520
    data_start = 524
    pages_bottom = 532
    InitArgs <- MCInitArgs
    MapVirt <- MCMapVirt
    MapFlags <- MCMapFlags
    MaxHeld = 1
    NULL = NULL
    Junk <- MCJunk
    Data <- MCData
INVARIANT MapsReachHardware

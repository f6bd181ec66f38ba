SPECIFICATION ConsoleSpec
CONSTANTS
    INT_BITS = 9
    LONG_BITS = 12
    Worlds <- MCWorldsDump
    FILE <- MCFile
    FUNC <- MCFunc
    LINE = 42
    Report <- MCReport
INVARIANTS
    HexdumpShowsOffset

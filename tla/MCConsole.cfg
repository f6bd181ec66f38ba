SPECIFICATION ConsoleSpec
CONSTANTS
    INT_BITS = 9
    LONG_BITS = 12
    Worlds <- MCWorlds
    FILE <- MCFile
    FUNC <- MCFunc
    LINE = 42
    Report <- MCReport
INVARIANTS
    ScreenAsCalled
    ReportComplete
PROPERTIES
    CallsReturn

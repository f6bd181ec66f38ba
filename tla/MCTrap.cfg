SPECIFICATION TrapSpec
CONSTANTS
    Val <- MCVal
    FRAME = 21
    STACK_TOP = 22
    OTHER_TOP = 23
    Cause = {24, 25}
    Files <- MCFiles
    Pcs = {26, 27}
INVARIANTS
    RunsOnOwnFrames
    FrameIsInterrupted
PROPERTIES
    ResumesExactly

SPECIFICATION DtSpec
CONSTANTS
    Trees <- MCTrees
    Paths <- MCPaths
    Names <- MCNames
    PropNames <- MCPropNames
    NULL = NULL
INVARIANTS
    DtTypeOK
    CursorOnToken
    SkipCountsDepth
    DumpInOrder
    DumpComplete
    PathFindsNode
    CountsReservations
    SearchYieldsAll
    PropOfThatNode
PROPERTIES
    CallsEnd

SPECIFICATION Spec
CONSTANTS
    Side = 3
    Cells <- MCCells
    PerfectCube <- MCPerfectCube
    MaxMoves = 5
INVARIANTS
    CarriedCell
    HistogramPreserved
    TraceConnected
    Retraceable
CHECK_DEADLOCK FALSE

SPECIFICATION RSpec
CONSTANTS
    L = 3
    Nodes <- LoopNodes
    Reverse <- LoopReverse
    Engineers = {1}
    Edges <- LoopEdges
    StopDistance = 3
    MaxRelease = 16
    MaxReserve = 16
    Settings = {{2, 4, 9, 17, 19, 24}}
    Starts <- LoopStarts
INVARIANTS
    OnOwnTrack

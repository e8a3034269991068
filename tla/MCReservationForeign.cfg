SPECIFICATION RSpec
CONSTANTS
    L = 4
    Nodes <- MCNodes
    Reverse <- MCReverse
    Engineers = {1, 2}
    Edges <- MCEdges
    StopDistance = 1
    MaxRelease = 2
    MaxReserve = 16
    Settings <- MCSettings
    Starts <- MCStarts
INVARIANTS
    NoCollision

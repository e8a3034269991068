SPECIFICATION RouteSpec
CHECK_DEADLOCK FALSE
CONSTANTS
    TrackNodes <- MCNodes
    Edges <- MCEdges
    ReverseNode <- MCReverse
    Owners = {1, 2}
    Reservations <- MCReservations
    Starts = {1, 6, 22}
    Ends = {7, 11, 17}
    EXPLORE_SIZE = 40
    HEAP_SIZE = 7
INVARIANT ShortestPath
PROPERTIES TurnoutsLead RouteFound

SPECIFICATION Spec
CONSTANTS
    Nodes <- MCNodes
    NextNode <- MCNextNode
    Reverse <- MCReverse
    Sensors = {1, 3, 4, 6}
    Speeds = {0, 1}
    Targets = {2}
    Size = 3
INVARIANTS
    ViewsAgree
    StateFits
    PositionFollows
    LastOrderWins
PROPERTIES
    OrdersDone
    LocationFlows

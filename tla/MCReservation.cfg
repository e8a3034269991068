SPECIFICATION RSpec
CONSTANTS
    L = 3
    Nodes <- MCNodes
    Reverse <- MCReverse
    Engineers = {1, 2}
    Edges <- MCEdges
    StopDistance = 1
    MaxRelease = 4
    MaxReserve = 16
    Settings <- MCSettings
    Starts <- MCStarts
INVARIANTS
    NoHeadOn
    AnswerIsTrue
    UnharmedApart
    UnharmedOnOwnTrack
PROPERTIES
    NoneTaken

SPECIFICATION FairSpec
CONSTANTS
    Clients = {1, 2, 3}
    Ticks = {1, 2, 3}
    Period = 8
    MaxTick = 3
INVARIANTS
    RingHoldsDelayed
    NoTickLost
PROPERTIES
    NotEarly
    DelayEnds
CHECK_DEADLOCK FALSE

SPECIFICATION Spec
CONSTANTS
    Clients = {1, 2, 3}
    Ticks = {1, 2, 3}
    Period = 8
    MaxTick = 3
PROPERTIES
    OnTime
CHECK_DEADLOCK FALSE

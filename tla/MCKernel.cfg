SPECIFICATION Spec
CONSTANTS
    MaxPriority = 2
    MaxTasks = 5
    StackSlots = 3
    Lengths = {1, 2}
    Events = {0}
    Production = TRUE
    OneWaiter = TRUE
INVARIANTS
    OnePlace
    NobodyLost
    BitmapExact
    NoMissedRendezvous
    HighestPriorityRuns
PROPERTIES
    NoOvertaking
    ImplementsRendezvous
CHECK_DEADLOCK FALSE

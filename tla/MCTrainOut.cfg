SPECIFICATION FairSpec
CONSTANTS
    Clients = {1, 2}
    Strings <- MCStrings
    Size = 4
    MaxBytes = 5
INVARIANTS
    InOrder
    OwesOnlyWhenEmpty
PROPERTIES
    OneByteAtATime
    Delivered
CHECK_DEADLOCK FALSE

SPECIFICATION FairSpec
CHECK_DEADLOCK FALSE
CONSTANTS
    Callers = {1, 2}
    Writers = {3}
    Text <- MCText
    Size = 3
    MaxKeys = 3
    MaxCalls = 2
    MaxTexts = 1
INVARIANTS KeysInOrder EchoesInOrder
PROPERTY TerminalServes

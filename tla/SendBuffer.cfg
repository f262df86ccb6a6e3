SPECIFICATION Spec
CONSTANTS
    Lengths = {2, 3}
    Limits = {12}
    SmallBuffer = 6
    SendLimit = 4
    CallLimit = 2
    MaxCommands = 6
    KeepSlow = {TRUE, FALSE}
INVARIANTS
    InBounds
    WholeCommands
    NothingLost
    OwnSearchRemoved
CHECK_DEADLOCK FALSE

SPECIFICATION FairSpec
CONSTANTS
    Clients = {c1, c2}
    NoSocket = NoSocket
    SuspendTimes = {0, 2, 3}
    AddedLate = FALSE
INVARIANTS
    HeldByThread
    StoppedPortIsFree
PROPERTIES
    StopCompletes
    AcceptedIsServed
CHECK_DEADLOCK FALSE

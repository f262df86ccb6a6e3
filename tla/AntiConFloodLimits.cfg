SPECIFICATION TablesSpec
CONSTANTS
    Threads = {t1, t2}
    Ips = {i1, i2}
    Count = 2
    Window = 1
    Cap = 1
    HitsLimit = 4
    MaxTick = 3
    NoEntry = NoEntry
    NoIp = NoIp
INVARIANTS
    AtMostCount
    TotalCapped
CHECK_DEADLOCK FALSE

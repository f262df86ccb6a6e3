SPECIFICATION Spec
CONSTANTS
    Conns = {c1, c2}
    IPv6Conns = {c1}
    Listers = {c2}
    Hideable = {c1}
    Nicks = {n1, n2}
    Regable = {n1}
    Shares = {0, 1}
    SupportSets = {{"QUICKLIST", "IPV4"}}
    KeyTimeout = 0
    LoginTimeout = 0
    AddTimeout = 0
    IPv4Timeout = 0
    CloseLoops = 0
    CounterRange = 2
    NoConn = NoConn
    NoNick = NoNick
INVARIANTS
    NickInvariant
    LoggedExact
    TotalShareExact
    NickListExact
PROPERTIES
    OnlyForward
    ImplementsNickOwnership

SPECIFICATION FairSpec
CONSTANTS
    Conns = {c1, c2}
    IPv6Conns = {c1}
    Listers = {}
    Hideable = {}
    Nicks = {n1}
    Regable = {}
    Shares = {0}
    SupportSets = {{"BOTINFO"}, {"QUICKLIST", "IPV4"}}
    KeyTimeout = 0
    LoginTimeout = 1
    AddTimeout = 1
    IPv4Timeout = 0
    CloseLoops = 1
    CounterRange = 2
    NoConn = NoConn
    NoNick = NoNick
INVARIANTS
    TypeOK
PROPERTIES
    LoginResolves
    ClosingResolves

SPECIFICATION Spec
CONSTANTS
    u1 = u1
    u2 = u2
    u3 = u3
    u4 = u4
    i1 = i1
    i2 = i2
    Null = Null
    Users <- McUsers
    Ips = {i1, i2}
    IpOf <- McIpOf
    Exempt = {u2}
    MaxConns = 2
    CountLimit = 3
INVARIANTS
    LinksMatch
    ListExact
PROPERTIES
    WalkClosesAll
CHECK_DEADLOCK FALSE

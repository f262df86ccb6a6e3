SPECIFICATION BroadcastSpec
CONSTANTS
    c1 = c1
    c2 = c2
    c3 = c3
    NoConn = NoConn
    Conns = {c1, c2, c3}
    Nick <- NickOf
    Form <- FormOf
    Bots = {"bot"}
    FullMyINFOOption = 1
    MaxItems = 3
INVARIANTS
    ViewsExact

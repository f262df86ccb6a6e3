SPECIFICATION Spec
CONSTANTS
    i1 = i1  i2 = i2  n1 = n1  n2 = n2  r1 = r1
    Ips = {i1, i2}
    Nicks = {n1, n2}
    Ranges = {r1}
    InRange <- Around
    LastTick = 3
    Nothing = Nothing
    MaxBans = 2
    SaveEvery = 0
SYMMETRY Alike
INVARIANTS
    TablesExact
    NobodyPastTheDoor
PROPERTIES
    OnlyLiftingWeakens
    RestartKeeps
CHECK_DEADLOCK FALSE

SPECIFICATION RegistrySpec
CONSTANTS
    n1 = n1  n2 = n2  op = op  vip = vip
    Nicks = {n1}
    Names = {op, vip}
    Operator = op
    MaxProfiles = 2
    MaxListed = 2
    SaveEvery = 1
    Garbled = Garbled
    NotAsked = NotAsked
INVARIANTS
    OperatorsShown
PROPERTIES
    EntriesMatchMembers
    MembersFollowRegistrations
CHECK_DEADLOCK FALSE

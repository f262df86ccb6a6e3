SPECIFICATION Spec
CONSTANTS
    Scripts = {s1, s2}
    MaxDepth = 2
    MaxPending = 3
    GoesOn = FALSE
SYMMETRY Alike
INVARIANTS
    ListExact
    RoundsExact
    StatesOutliveCalls
    RunsUnlessClosing
CHECK_DEADLOCK FALSE

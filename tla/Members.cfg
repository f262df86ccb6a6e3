SPECIFICATION Spec
CONSTANTS
    Slots = {s1, s2}
    Nicks = {"op", "a"}
    NoNick = NoNick
    Profile <- ProfileOf
    Rights <- RightsOf
    Forms <- SomeForms
    MaxPm = 1
    MaxAnswers = 1
    SearchRounds = 2
    ActiveMany = 1
    Many = 2
SYMMETRY AnySlot
INVARIANTS
    PendingPointersSafe
    WaitingSearchesCounted
PROPERTIES
    DeliveredAsMeant

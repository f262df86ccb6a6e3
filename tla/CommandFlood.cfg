SPECIFICATION Spec
CONSTANTS
    WarnLimit = 2
    WarnAction = 1
    Limits <- SomeLimits
    DataLimits <- SomeDataLimits
    Texts = {"line", "verse"}
    Lines <- LinesOf
    MaxCount = 6
    Backlog = 2
    Chunk = 1
    NoText = NoText
INVARIANTS
    TypeOK
    NoBurst
    NoDeluge

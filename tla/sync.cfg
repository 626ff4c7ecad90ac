SPECIFICATION Spec
CONSTANTS
    N = 2
    NodeText <- LongerIdFirst
    Keys = {k1}
    Cols = {a, b}
    ChangeSets <- AllUpdates
    Replaces = TRUE
    Paged = TRUE
    Origins = {"any", "own"}
    MaxTime = 3
    MaxWire = 2
INVARIANTS
    TypeOK
    PrefilterHidesOnlyTies
    NoZombie
    ClockCovers
PROPERTY
    ColumnsNeverRegress

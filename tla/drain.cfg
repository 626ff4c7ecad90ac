SPECIFICATION DrainSpec
CONSTANTS
    N = 2
    NodeText <- LongerIdFirst
    Keys = {k1}
    Cols = {a, b}
    ChangeSets <- TrackedUpdates
    Replaces = FALSE
    Paged = TRUE
    Origins = {"own"}
    MaxTime = 3
    MaxWire = 0
    Filter = "own"
    Budget = 3
    MaxFaults = 1
CHECK_DEADLOCK FALSE
INVARIANTS
    DrainTypeOK
    CursorCovers
PROPERTY
    DrainEnds

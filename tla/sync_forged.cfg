SPECIFICATION Spec
CONSTANTS
    N = 2
    NodeText <- LongerIdFirst
    Keys = {k1}
    Cols = {a, b}
    ChangeSets <- TrackedUpdates
    Replaces = FALSE
    Paged = TRUE
    Origins = {"any"}
    MaxTime = 4
    MaxWire = 1
INVARIANTS
    ShippedAsWritten

SPECIFICATION Spec
CONSTANTS
    N = 2
    NodeText <- LongerIdFirst
    Keys = {k1}
    Cols = {a, b}
    ChangeSets <- TrackedUpdates
    Replaces = FALSE
    Paged = FALSE
    Origins = {"any"}
    MaxTime = 4
    MaxWire = 2
INVARIANTS
    Agreement
    ShippedAsWritten

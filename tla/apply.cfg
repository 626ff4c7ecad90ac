SPECIFICATION Spec
CONSTANTS
    k = k
    k2 = k2
    gone = gone
    e = e
    a = a
    b = b
    unknown = unknown
    Keys <- MCKeys
    Entries <- MCEntries
    Missing <- MCMissing
    Target <- MCTarget
    Cols <- MCCols
    OtherCols <- MCOtherCols
    Kept <- MCKept
    Limit = 4
    Batches <- MCBatches
INVARIANTS
    TypeOK
    NoSilentDrop
    SkipReasonsTrue
    RestoredAtRest
    NoZombie
PROPERTY
    MergesAtomically

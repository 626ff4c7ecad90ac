SPECIFICATION Spec
CONSTANTS
    Procs = {"first", "second", "fork", "third", "broken"}
    Names <- MCNames
    Contents <- MCContents
    Tables <- MCTables
    Creates <- MCCreates
    Release <- MCRelease
    Paths <- MCPaths
    Link <- MCLink
    Spelling <- MCSpelling
INVARIANTS
    TypeOK
    ExclusiveOpen
    NeverHalfMigrated
    OpenMatchesSource
    RefusedForCause
    TriggersNotOutdated
PROPERTY
    OpenEnds

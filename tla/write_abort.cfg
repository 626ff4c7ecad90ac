SPECIFICATION Spec
CONSTANTS
    Names = {"p", "n", "c", "l"}
    NoSync = {"l"}
    Child = "c"
    Keys = {1}
    Cols = {"a", "b", "m"}
    NoSyncCols = {"m"}
    FirstDb <- OneParentOneChild
    Statements <- Migration
    MaxBytes = 1
    MaxStatements = 4
    MaxCalls = 2
CHECK_DEADLOCK FALSE
INVARIANTS
    NothingWrittenOnErr

SPECIFICATION Spec
CONSTANTS
    Nodes = {0, 1}
    Self = 0
    Days = {0, 1, 2}
    NsPerDay = 1
    TicksPerDay = 4
    SignedMax = 4
    MaxTime = 3
INVARIANT RetentionKept

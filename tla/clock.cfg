SPECIFICATION Spec
CONSTANTS
    CounterSpan = 2
    MaxDrift = 2
    MaxWall = 3
    MaxTime = 6
INVARIANTS TypeOK OneHlcPerTransaction StampsPassHeard AdvanceRefusedOnlyIfSetBack
PROPERTY CommittedHlcsIncrease

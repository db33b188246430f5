SPECIFICATION Spec

CONSTANTS
    NrList = 2
    Modes <- PassModes
    StartTime = 3
    MaxStep = 1
    MaxGap = 2

INVARIANTS
    TypeOK
    NeededIsLinked
    PairsSafe
    PairsRight
    DetailComplete
    MinevtimeOldest

CHECK_DEADLOCK FALSE

SPECIFICATION Spec

CONSTANTS
    NrList = 2
    Modes <- UnsortedModes
    StartTime = 3
    MaxStep = 1
    MaxGap = 2

INVARIANTS
    PairsSafe

CHECK_DEADLOCK FALSE

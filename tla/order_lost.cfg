SPECIFICATION Spec

CONSTANTS
    NrMaps = 2
    NrStreams = 0
    RingSize = 5
    Watermark = 3
    SampleSize = 1
    LostSize = 1
    OtherSize = 1
    HasLost = TRUE
    Sideband = {}
    Clocked = FALSE
    MaxNest = 0
    MaxClock = 8
    MaxOther = 0
    MaxItems = 0

INVARIANTS
    NoUnsafeLost
    LostReported

SPECIFICATION PushSpec

CONSTANTS
    NrMaps = 2
    NrStreams = 0
    RingSize = 4
    Watermark = 2
    SampleSize = 1
    LostSize = 1
    OtherSize = 1
    HasLost = TRUE
    Sideband = {}
    Clocked = FALSE
    MaxNest = 0
    MaxClock = 5
    MaxOther = 0
    MaxItems = 0

PROPERTIES
    PushOrdered

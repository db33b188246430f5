SPECIFICATION PushSpec

CONSTANTS
    NrMaps = 2
    NrStreams = 1
    RingSize = 8
    Watermark = 3
    SampleSize = 1
    LostSize = 1
    OtherSize = 1
    HasLost = FALSE
    Sideband = {}
    Clocked = FALSE
    MaxNest = 2
    MaxClock = 3
    MaxOther = 0
    MaxItems = 2

PROPERTIES
    ImplementsDelivery
    PushOrdered

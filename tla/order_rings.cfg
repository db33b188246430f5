SPECIFICATION FairSpec

CONSTANTS
    NrMaps = 2
    NrStreams = 0
    RingSize = 3
    Watermark = 3
    SampleSize = 1
    LostSize = 1
    OtherSize = 1
    HasLost = TRUE
    Sideband = {1}
    Clocked = TRUE
    MaxNest = 1
    MaxClock = 3
    MaxOther = 1
    MaxItems = 0

INVARIANTS
    TypeOK
    NotOverwritten

PROPERTIES
    DeliveredInOrder
    ImplementsDelivery
    EventuallyHandedOn

SPECIFICATION FairSpec

CONSTANTS
    Modes <- PassModes
    BUF_LEN = 8
    PipeLen = 3
    HdrLen = 2
    TpLen = 3
    LostLen = 3
    Sizes = {3, 4}
    MaxEvents = 3
    MaxBreaks = 1
    None = None

INVARIANTS
    TypeOK
    NobodyForgotten
    ArrivesWhole

PROPERTIES
    ImplementsQueue
    EventsArrive
    LossTold

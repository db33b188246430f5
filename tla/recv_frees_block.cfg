SPECIFICATION Spec

CONSTANTS
    Modes <- ShutModes
    BUF_LEN = 8
    PipeLen = 3
    HdrLen = 2
    TpLen = 3
    LostLen = 3
    Sizes = {3, 4}
    MaxEvents = 3
    MaxBreaks = 1
    None = None

INVARIANTS
    BlockLives

SPECIFICATION FairSpec

CONSTANTS
    Fd = {f1, f2, f3}
    Addr = {a1, a2, a3}
    Callback = {c1}
    MaxEvents = 2
    NULL = NULL

INVARIANTS
    BatchLive
    TreeAgrees

PROPERTIES
    ImplementsCallbacks
    EveryReadyHandled

SPECIFICATION FairSpec

CONSTANTS
    NrSources = 1
    NrClones = 1
    Modes <- PassModes
    MaxEvents = 2

INVARIANTS
    TypeOK
    NoDanglingCall
    LinksLive
    RefsBalanced
    RunningCounts
    NothingLeftBehind
    AllFreed

PROPERTIES
    Terminates

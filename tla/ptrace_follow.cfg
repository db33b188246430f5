SPECIFICATION FairSpec

CONSTANTS
    Pids = {p1, p2, p3}
    Attached = {p1}
    Roots = {r1, r2}
    Workloads = {FALSE}
    Stoppable = {p2}
    None = None

INVARIANTS
    TypeOK
    NoBug
    RefsBalanced
    RunsFollowed
    NobodyLeftTraced

PROPERTIES
    StopsEnd
    DetachEnds

SPECIFICATION FairSpec

CONSTANTS
    Pids = {p1, p2, p3}
    Attached = {p1}
    Roots = {r1}
    Workloads = {TRUE}
    Stoppable = {}
    None = None

PROPERTIES
    DetachEnds

CHECK_DEADLOCK FALSE

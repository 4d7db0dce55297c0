SPECIFICATION Spec
CONSTANTS
    p1 = p1
    p2 = p2
    e1 = e1
    e2 = e2
    NoEnonce = NoEnonce
    NoJob = NoJob
    Pools <- OnePool
    NumSlots = 2
    HasSlave = TRUE
    Enonces <- OneEnonce
    Diffs = {1}
    MaxNotify = 2
    MaxSession = 2
INVARIANTS
    SlaveJobsClearedOnFirstJob

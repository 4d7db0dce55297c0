SPECIFICATION FairSpec
CONSTANTS
    p1 = p1
    p2 = p2
    e1 = e1
    e2 = e2
    NoEnonce = NoEnonce
    NoJob = NoJob
    Pools <- TwoPools
    NumSlots = 2
    HasSlave = FALSE
    Enonces <- OneEnonce
    Diffs = {1}
    MaxNotify = 2
    MaxSession = 1
INVARIANT TableFollowsAsic
PROPERTIES
    AbandonedJobsAreReplaced
    NotifyReachesAsic

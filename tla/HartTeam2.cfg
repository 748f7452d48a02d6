SPECIFICATION FairSpec
CONSTANTS
    N = 2
    MaxJobs = 3
INVARIANTS
    IInv
    Joined
PROPERTIES
    LoopEnds
    FailureReported
    FrameSent
    ImplementsForkJoin
CHECK_DEADLOCK FALSE

SPECIFICATION PartsSpec
CONSTANTS
    Parts = {"allocation"}
    Low = 4
    Words = 16
    MaxIterations = 50
    MaxRegion = 5
    Regions <- MCRegions
    Jobs <- MCJobs
    Starts <- MCStarts
    v1 = v1
    v2 = v2
    v3 = v3
    r1 = r1
    r2 = r2
    None = None
    Programs <- Redefined
    Scanned <- WrittenAgain
INVARIANT SameValues
CHECK_DEADLOCK FALSE

CONSTANTS
    Chunks = 0
    Setups <- GapSetups
    Parts = {"forward"}
    MaxSignals = 2
SPECIFICATION PartsSpec
CHECK_DEADLOCK FALSE
INVARIANT NoOrphan

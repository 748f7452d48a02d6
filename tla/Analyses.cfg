SPECIFICATION PartsSpec
CONSTANTS
    Parts = {"liveness", "propagation", "optimizer"}
    b1 = b1
    b2 = b2
    b3 = b3
    x = x
    y = y
    Block <- Blocks
    Value <- Values
    Graphs <- MCGraphs
    FlowGraphs <- DefiningGraphs
    Inputs = {0, 1}
    LargestValue = 3
    Compilations <- MCCompilations
    Width = 3
    Fuel = 45
INVARIANTS BelowEverySolution LiveMeansRead FactsHold SameOutcome StillVerified
PROPERTY BothConverge
CHECK_DEADLOCK FALSE

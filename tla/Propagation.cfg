SPECIFICATION PartsSpec
CONSTANTS
    Parts = {"propagation"}
    b1 = b1
    b2 = b2
    b3 = b3
    x = x
    y = y
    Block <- Blocks
    Value <- Values
    Graphs <- MCGraphs
    FlowGraphs <- SparseGraphs
    Inputs = {0, 1}
    LargestValue = 3
    Compilations <- MCCompilations
    Width = 3
    Fuel = 45
INVARIANT FactsHold
CHECK_DEADLOCK FALSE

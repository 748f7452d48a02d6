SPECIFICATION PartsSpec
CONSTANTS
    Teams = {1, 2, 4}
    MaxCount = 20
    N = 4
    MaxJobs = 1
INVARIANT ExactlyOnce
PROPERTY FirstFailureWins
CHECK_DEADLOCK FALSE

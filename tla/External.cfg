CONSTANTS
    Chunks = 1
    Setups <- MCSetups
    Parts = {"forward", "command"}
    MaxSignals = 2
SPECIFICATION PartsSpec
CHECK_DEADLOCK FALSE
INVARIANTS
    PassMeansGood NoOrphanButForGaps CompletionNotMissed
    FailureKeepsCopies ReportMatchesOutcome ResidualTruth Reclaimed
PROPERTIES CallerSurvives CallsEnd

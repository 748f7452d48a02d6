CONSTANTS
    alice = alice
    bob = bob
    NoOne = NoOne
    Talks <- MCTalks
    Budgets <- MCBudgets
    Capacity = 5
    MaxTurns = 2
    Bytes = {a, b}
    Tensors = 2
    MaxTampers = 2
SPECIFICATION PartsSpec
CHECK_DEADLOCK FALSE
INVARIANTS
    WithinBounds GuestSerial RunsMatchDirs RepliesToHistory
    PublishedWhole AcceptedWasThere RejectedForCause
PROPERTY CancelHeeded

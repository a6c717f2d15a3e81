SPECIFICATION MCSpec
CONSTANTS
    NoRow = NoRow
    Tokens <- MCTokens
    Hashes = {"h1", "h2"}
    ExpiryOf <- MCExpiryOf
    RunOf <- MCRunOf
    Skew = 1
    MaxEntries = 2
    MaxTime = 2
    MaxAttempts = 3
    FaultKinds = {"broker", "replay", "transport", "write", "executor", "kill"}
    MaxFaults = 2
INVARIANTS
    RejectedNeverReachesExecutor
    RowTellsOutcome
PROPERTIES
    ImplementsOnce
    AttemptsSettle
    StopCompletes
CHECK_DEADLOCK FALSE

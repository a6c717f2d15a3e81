SPECIFICATION Spec
CONSTANTS
    NoRow = NoRow
    Tokens <- MCTokens
    Hashes = {"h1", "h2"}
    ExpiryOf <- MCExpiryOf
    RunOf <- MCRunOf
    Skew = 1
    MaxEntries = 2
    MaxTime = 3
    MaxAttempts = 1
    FaultKinds = {"write"}
    MaxFaults = 1
INVARIANTS
    ServesUntilStopped
CHECK_DEADLOCK FALSE

SPECIFICATION Spec
CONSTANTS
    NoRow = NoRow
    Tokens <- MCTokens
    Hashes = {"h1", "h2"}
    ExpiryOf <- MCExpiryOf
    RunOf <- MCRunOf
    Skew = 1
    MaxEntries = 2
    MaxTime = 7
INVARIANTS
    RunAttemptBeginsOnce
CHECK_DEADLOCK FALSE

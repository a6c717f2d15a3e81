SPECIFICATION MCSpec
CONSTANTS
    Procs = {p1, p2}
    Values = {s1, s2}
    None = None
    MaxFaults = 3
    Ids = {1, 2, 3, 4, 5}
    MaxStamp = 3
    DayOf <- MCDayOf
    HashRank <- MCHashRank
    MaxLines = 2
    Retention = 2
    MaxRecords = 6
    MaxErrors = 2
    Threads = {t1, t2}
    Kids = {k1, k2}
    MAX_CACHE_TTL = 1
    MaxDelay = 1
    MaxTime = 3
    MaxRefreshes = 4
    MaxRotations = 1
INVARIANTS
    StaysUsable
    RetainedSuffix
    KeyIsTimely
    WaiterHasRefresher
PROPERTIES
    ImplementsRegister
    CacheMovesForward
CHECK_DEADLOCK FALSE
SYMMETRY Symmetry

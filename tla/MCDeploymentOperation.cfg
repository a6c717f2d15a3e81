SPECIFICATION FairSpec
CONSTANTS
    Nil = Nil
    first = first
    again = again
    upgrade = upgrade
    reuse = reuse
    Requests <- MCRequests
    Releases <- MCReleases
    ReleaseOf <- MCReleaseOf
    Version <- MCVersion
    Digest <- MCDigest
    FaultKinds = {"runtime", "save", "load", "append", "interrupt", "crash"}
    MaxFaults = 2
    MaxDeploys = 3
INVARIANTS
    RouteMatchesState
    TrafficGated
    SuccessIsDurable
    FailureLeavesOriginalOrPrepared
    EventLinkAudited
    AuditOrder
PROPERTIES
    LiveSlotUntouched
    StartedTerminates
CHECK_DEADLOCK FALSE

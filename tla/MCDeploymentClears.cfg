SPECIFICATION Spec
CONSTANTS
    Nil = Nil
    first = first
    again = again
    upgrade = upgrade
    reuse = reuse
    Requests <- MCRequests
    Releases <- MCReleases
    ReleaseOf <- MCReleaseOf
    Version <- MCVersion
    Digest <- MCDigest
    FaultKinds = {"save"}
    MaxFaults = 1
    MaxDeploys = 3
INVARIANTS
    FailedPromotionClearsCandidate
CHECK_DEADLOCK FALSE

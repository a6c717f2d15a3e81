SPECIFICATION Spec
CONSTANTS
    Nil = Nil
    first = first
    again = again
    upgrade = upgrade
    reuse = reuse
    Requests <- MCRequests
    Releases <- MCReleases
    ReleaseOf <- MCReleaseOf
    Version <- MCVersion
    Digest <- MCDigest
    FaultKinds = {"append", "save"}
    MaxFaults = 2
    MaxDeploys = 3
PROPERTIES
    ActiveSlotRemainsInService
CHECK_DEADLOCK FALSE

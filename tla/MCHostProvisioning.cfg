SPECIFICATION ProvisioningFairSpec
CONSTANTS
    Accounts = 2
    Directories = 2
    Files = 3
    MaxFaults = 3
INVARIANTS FailureIsLocated Step20SuccessIsDurable NoOtherDeadEnd
PROPERTIES EventuallyProvisioned
CHECK_DEADLOCK FALSE

SPECIFICATION RootlessFairSpec
CONSTANTS
    Payloads = 2
    RootfulUnits = 2
    Resources = 2
    MaxEpoch = 1
    MaxStarts = 3
INVARIANTS RootfulNeverStarts EvidenceIsTrue NoOtherDeadEnd
PROPERTIES EnabledDaemonReturns
CHECK_DEADLOCK FALSE

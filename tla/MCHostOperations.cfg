SPECIFICATION MCSpec
CONSTANTS
    Files = 2
    Directories = 1
    Shas = {s1, s2}
    PREDECESSOR_WORKFLOW_SHA = s1
    s1 = s1
    s2 = s2
    MaxFaults = 3
    MaxMishaps = 2
    Requests = {r1}
    Assets = 1
    StreamSources = 2
INVARIANTS
    SuccessIsTrue
    NoOtherDeadEnd
    UnacceptedIsStopped
    MixtureIsRecoverable
PROPERTIES
    ApplicationKeepsGeneration
    ResultIsTrue
CHECK_DEADLOCK FALSE

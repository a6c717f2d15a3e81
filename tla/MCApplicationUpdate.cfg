SPECIFICATION FairSpec
CONSTANTS
    Updater = {u1, u2}
    CHANGED = 3
    Payload = 2
    MaxInterruptions = 4
INVARIANTS AlwaysRecognized ConfigurationIsLast SuccessIsDurable
PROPERTY RunCompletes

SPECIFICATION FairSpec
CONSTANTS
    Slot = {a, b, c, d}
    None = None
    MaxRetries <- OneRetry
    Probes <- AnyProbe
    MayFail = {}
    MaxUserRetries = 0
    MaxCrashes = 0
CHECK_DEADLOCK FALSE
PROPERTY SubmittedIsAnswered

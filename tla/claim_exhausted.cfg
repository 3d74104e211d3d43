SPECIFICATION Spec
CONSTANTS
    Slot = {a, b, c, d}
    None = None
    MaxRetries <- NoRetry
    Probes <- BothOrNeither
    MayFail = {"taxonomy"}
    MaxUserRetries = 0
    MaxCrashes = 0
CHECK_DEADLOCK FALSE
INVARIANT ExhaustedIsDeadLetter

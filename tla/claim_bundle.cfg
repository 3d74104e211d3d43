SPECIFICATION Spec
CONSTANTS
    Slot = {a, b, c, d}
    None = None
    MaxRetries <- NoRetry
    Probes <- AnyProbe
    MayFail = {}
    MaxUserRetries = 0
    MaxCrashes = 0
CHECK_DEADLOCK FALSE
INVARIANT OneBundle

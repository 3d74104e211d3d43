SPECIFICATION FairSpec
CONSTANTS
    Slot = {a, b, c}
    None = None
    MaxRetries <- FewRetries
    Probes <- BothOrNeither
    MayFail <- AllKinds
    MaxUserRetries = 1
    MaxCrashes = 0
CHECK_DEADLOCK FALSE
INVARIANTS StageHasInput StatusIsBacked
PROPERTIES StoresInOrder ComesToRest

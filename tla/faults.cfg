SPECIFICATION Spec
CONSTANTS
    Slot = {a, b, c, d, e}
    None = None
    MaxRetries <- OneRetry
    Probes <- AnyProbe
    MayFail <- Workers
    MaxUserRetries = 0
    MaxCrashes = 1
SYMMETRY Interchangeable
CHECK_DEADLOCK FALSE
INVARIANTS TypeOK StageHasInput StatusIsBacked UploadHasMedia OneManifest ChordCanFire NoSilentLoss
PROPERTY StoresInOrder

SPECIFICATION Spec
CONSTANTS
    Text = {x, y}
    Similar <- SameText
    Bounds <- AloneAndTogether
    Tolerance = 1
    MergeWindow = 4
    GapThreshold = 4
CHECK_DEADLOCK FALSE
INVARIANTS TypeOK OverlapsResolved PeaksSurvive MergedOnce NoDuplicateLeft GapsAreFound

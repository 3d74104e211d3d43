SPECIFICATION Spec
CONSTANTS
    Chain = {first, second}
    None = None
    Extractor = {asr}
    MaxRetries <- RetryDownload
    ExtractorRuns = 1
    TimeLimit = 1
    MaxAge = 2
CHECK_DEADLOCK FALSE
INVARIANTS TypeOK ExpiredIsIdle UploadWindow VideoIsStored NothingForgotten

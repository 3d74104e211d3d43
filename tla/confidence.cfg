SPECIFICATION FairSpec
CONSTANTS
    Percent = {0, 19, 34, 35, 40, 55}
    None = None
    NoAudio = NoAudio
    Low <- SourceLow
    RescanAt <- SourceRescanAt
    DowngradeAt = 20
    GapPenalty = 15
    MaxAttempts = 2
CHECK_DEADLOCK FALSE
INVARIANTS TypeOK MarksAgree
PROPERTIES LostSpeechStaysMarked ComesToAVerdict

SPECIFICATION FairSpec
CONSTANTS
    None = None
    NoKey = NoKey
    Name = {"Dune", "DUNE", "Alien", "Solaris"}
    Key <- Spelling
    Inferred <- Guess
    Evidences <- SmallEvidences
    Replies <- SmallReplies
    MaxFound = 3
    MaxRetries = 1
CHECK_DEADLOCK FALSE
INVARIANTS TypeOK RankedItemsFirst NothingRejected
PROPERTIES NamesSurvive AddedOnce EveryVideoIsAnswered

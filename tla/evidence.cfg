SPECIFICATION Spec
CONSTANTS
    None = None
    Voiced = {0, 19, 20}
    Captioned = {0, 1, 2}
    Sampled = {1, 2, 4, 15}
    Answers = {"none", "list", "countdown", "slideshow", "unknown"}
    Segments <- Patterns
CHECK_DEADLOCK FALSE
INVARIANTS TypeOK NothingOverlooked LossIsVisible SpeechIsNotSilenced StructureIsKept MoreEvidenceIsNoLess

CONSTANTS
    NoHolder = NoHolder
    Other = Other
    PAUSED = PAUSED
    Actors = {"chat", "tts", "reaper", "guardian"}
    Procs = {"channel", "tts"}
    External = {"tts"}
    Serves <- CountServes
    Performs <- CountPerforms
    MaxOps <- CountOps
    MaxMoves = 1
SPECIFICATION Spec
INVARIANTS TypeOK CountCoversKnown CountNotNegative

CONSTANTS
    NoHolder = NoHolder
    Other = Other
    PAUSED = PAUSED
    Actors = {"chat", "late", "pauser", "resumer", "status"}
    Procs = {"channel"}
    External = {}
    Serves <- SyncServes
    Performs <- SyncPerforms
    MaxOps <- SyncOps
    MaxMoves = 0
SPECIFICATION FairSpec
PROPERTY SyncHeals

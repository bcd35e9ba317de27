CONSTANTS
    NoLock = NoLock
    PAUSED = PAUSED
    Names = {"Guardian", "Context Summary", "Response Generation", "Vision Analysis"}
    Tasks = {"guardian", "response"}
    NameOf <- DistinctNameOf
    KindOf <- DistinctKindOf
    Bypass = {}
    Disturbances = {"pause", "expiry", "cancel", "panic", "crash"}
    MaxRuns = 2
    MaxPauses = 2
SPECIFICATION FairSpec
INVARIANT NoOrphanLock
PROPERTIES EveryWaiterServed LockComesFree

CONSTANTS
    NoLock = NoLock
    PAUSED = PAUSED
    Names = {"Guardian", "Context Summary", "Response Generation", "Vision Analysis"}
    Tasks = {"guardian", "summary", "response", "test-vision"}
    NameOf <- DistinctNameOf
    KindOf <- DistinctKindOf
    Bypass = {"test-vision"}
    Disturbances = {"panic", "crash"}
    MaxRuns = 2
    MaxPauses = 0
SPECIFICATION Spec
INVARIANTS TypeOK MutualExclusion
PROPERTY UsesExclusively

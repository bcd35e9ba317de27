CONSTANTS
    NoEvent = NoEvent
    e1 = e1
    e2 = e2
    e3 = e3
    e4 = e4
    d1 = d1
    d2 = d2
    Events <- FourEvents
    Privileged <- OnePrivileged
    Malformed <- OneMalformed
    Drains <- TwoDrains
    Faults = {"redis", "http", "crash"}
    MaxLocks = 2
    MaxFaults = 2
SPECIFICATION FairSpec
INVARIANTS TypeOK OnePlace QueuedIsKept ReplayInOrder
PROPERTY DrainsEnd

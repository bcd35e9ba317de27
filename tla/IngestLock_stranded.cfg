CONSTANTS
    NoEvent = NoEvent
    e1 = e1
    e2 = e2
    e3 = e3
    e4 = e4
    d1 = d1
    d2 = d2
    Events <- ThreeEvents
    Privileged = {}
    Malformed = {}
    Drains <- OneDrain
    Faults = {}
    MaxLocks = 1
    MaxFaults = 0
SPECIFICATION Spec
INVARIANT NothingStranded

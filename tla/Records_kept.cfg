CONSTANTS
    NoTask = NoTask
    NoChore = NoChore
    t1 = t1
    t2 = t2
    c1 = c1
    u1 = u1
    ch1 = ch1
    Tasks = {t1, t2}
    Chores = {c1}
    Users = {u1}
    Channels = {ch1}
    RawEvents = 3
    Batch = 2
    Keep = 1
    MaxEvents = 5
    MaxOps = 4
SPECIFICATION Spec
SYMMETRY Interchangeable
INVARIANTS TypeOK ChoresKept ProfilesKept
PROPERTY HeadForward
CHECK_DEADLOCK FALSE

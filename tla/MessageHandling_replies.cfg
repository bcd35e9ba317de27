CONSTANTS
    NoJob = NoJob
    m1 = m1
    m2 = m2
    public = public
    direct = direct
    Messages <- TwoMessages
    Channels <- TwoChannels
    Private <- OneDirect
    Capacity = 1
    MaxTime = 2
    MaxFaults = 1
SPECIFICATION Spec
INVARIANTS TypeOK NoDoubleAnswer SkippedForReply ChannelHeard LockFoundFree WaiterHasJob
CHECK_DEADLOCK FALSE

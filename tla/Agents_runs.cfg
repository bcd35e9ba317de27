CONSTANTS
    NoRun = NoRun
    NoChore = NoChore
    NoIssue = NoIssue
    NoLock = NoLock
    PAUSED = PAUSED
    c1 = c1
    u1 = u1
    i1 = i1
    MaxRuns = 2
    Chores = {c1}
    Users = {u1}
    Issues = {i1}
    MaxRetries = 2
    MaxStarts = 2
    MaxRestarts = 1
SPECIFICATION Spec
INVARIANTS TypeOK EntryHasRun OnlyValidated OncePerDue
PROPERTY NoWayBack

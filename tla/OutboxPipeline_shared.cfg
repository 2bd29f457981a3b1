SPECIFICATION FairSpec
CONSTANTS
    m = m
    s = s
    r = r
    Events = {m, s, r}
    Kind <- KindOfThree
    HandledKinds = {"message", "send"}
    Retryable = {m}
    Bridges = {b}
    Workers = {w}
    Dispatchers = {d}
    Confirmers = {u}
    MaxAttempts = 2
    BatchSize = 2
    MaxDeaths = 1
PROPERTIES
    PendingLeavesTheTable
    EnqueuedIsSettledOrStranded
CHECK_DEADLOCK FALSE

SPECIFICATION FairSpec
CONSTANTS
    m = m
    s = s
    r = r
    Events = {m, s}
    Kind <- KindOfThree
    HandledKinds = {"message"}
    Retryable = {}
    Bridges = {b}
    Workers = {w}
    Dispatchers = {}
    Confirmers = {u}
    MaxAttempts = 3
    BatchSize = 2
    MaxDeaths = 0
PROPERTIES
    EveryEnqueuedRowSettles
CHECK_DEADLOCK FALSE

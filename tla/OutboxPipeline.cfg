SPECIFICATION Spec
CONSTANTS
    m = m
    s = s
    r = r
    Events = {m, s}
    Kind <- KindOfThree
    HandledKinds = {"message", "send"}
    Retryable = {m}
    Bridges = {b1, b2}
    Workers = {w1, w2}
    Dispatchers = {}
    Confirmers = {u1, u2}
    MaxAttempts = 2
    BatchSize = 2
    MaxDeaths = 2
INVARIANTS
    PipelineTypeOK
    OneEntryPerKey
    EnqueuedIsOnStream
    RowMatchesSubject
    AckedIsRecorded
PROPERTIES
    OnceSpec
CHECK_DEADLOCK FALSE

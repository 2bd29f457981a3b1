SPECIFICATION Spec
CONSTANTS
    u = u
    r = r
    Slots = {u}
    Kind <- KindOfTwo
    Workers = {w1}
    Requests = {q1, q2}
    MaxVersion = 1
PROPERTIES
    DriftedRecordIsRefused
CHECK_DEADLOCK FALSE

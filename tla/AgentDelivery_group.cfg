SPECIFICATION DeliverySpec
CONSTANTS
    c1 = c1
    c2 = c2
    c3 = c3
    w1 = w1
    w2 = w2
    Commands <- TwoCommands
    NoCommand = NoCommand
    FanIns = {"composed", "grounded"}
    FailureFanIns = {"none", "grounded"}
    ObjectiveRuns = TRUE
    SupervisorActs = TRUE
    MaxFailures = 4
    Consumers <- TwoConsumers
    FanInMayRaise = TRUE
    MaxCrashes = 2
INVARIANTS
    AckedIsDurable
PROPERTIES
    Spec
CHECK_DEADLOCK FALSE

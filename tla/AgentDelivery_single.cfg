SPECIFICATION FairDeliverySpec
CONSTANTS
    c1 = c1
    c2 = c2
    c3 = c3
    w1 = w1
    w2 = w2
    Commands <- ThreeCommands
    NoCommand = NoCommand
    FanIns = {"composed", "grounded"}
    FailureFanIns = {"composed"}
    ObjectiveRuns = FALSE
    SupervisorActs = FALSE
    MaxFailures = 4
    Consumers <- OneConsumer
    FanInMayRaise = TRUE
    MaxCrashes = 1
PROPERTIES
    CommandsRestWithRun
    EveryCommandSettles
    EveryRunTerminates
CHECK_DEADLOCK FALSE

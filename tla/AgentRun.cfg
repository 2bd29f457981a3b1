SPECIFICATION Spec
CONSTANTS
    c1 = c1
    c2 = c2
    c3 = c3
    Commands <- MCCommands
    NoCommand = NoCommand
    FanIns = {"composed", "grounded"}
    FailureFanIns = {"none", "composed", "grounded"}
    ObjectiveRuns = TRUE
    SupervisorActs = TRUE
    MaxFailures = 2
SYMMETRY Symmetry
INVARIANTS
    TypeOK
    RequiredFailureCloses
    OutcomeFitsCommands
    OneTerminalEvent
    CompletedOnce
PROPERTIES
    TerminalIsFinal
CHECK_DEADLOCK FALSE

SPECIFICATION DagSpec
CONSTANTS
    Commands <- Keys
    NoCommand = 0
    FanIns = {"grounded"}
    FailureFanIns = {"none", "grounded"}
    ObjectiveRuns = TRUE
    SupervisorActs = TRUE
    MaxFailures = 2
    Plans <- AllPlans
INVARIANTS
    ObjectiveTracksCommand
    DispatchedOnResults
    AnswerCoversPlan
PROPERTIES
    CompletionSweeps
    Spec
CHECK_DEADLOCK FALSE

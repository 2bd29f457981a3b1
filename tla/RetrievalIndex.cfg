SPECIFICATION FairSpec
CONSTANTS
    NumRecords = 1
    MaxVersion = 2
    MaxSchema = 2
    MaxGens = 2
    PageSize = 1
    MaxAttempts = 1
    LabelMoves = {FALSE}
    PolicyMoves = {TRUE}
    MaxFaults = 1
INVARIANTS
    IndexTypeOK
    RevokedScopeIsDark
    NewestIsActive
PROPERTIES
    EverySourceIsServed
CHECK_DEADLOCK FALSE

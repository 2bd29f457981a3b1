SPECIFICATION FairSpec
CONSTANTS
    NumRecords = 1
    MaxVersion = 2
    MaxSchema = 2
    MaxGens = 2
    PageSize = 1
    MaxAttempts = 1
    LabelMoves = {FALSE}
    PolicyMoves = {TRUE}
    MaxFaults = 0
PROPERTIES
    EverySourceIsIndexed
CHECK_DEADLOCK FALSE

SPECIFICATION FairSpec
CONSTANTS
    u = u
    r = r
    Slots = {u, r}
    Kind <- KindOfTwo
    Workers = {w1}
    Requests = {q1, q2}
    MaxVersion = 1
INVARIANTS
    SlotsTypeOK
    RunCompletesWithItsSlots
    ObjectiveFollowsSlot
    OutcomeMatchesDraft
PROPERTIES
    SlotOnceSpec
    EveryTransactionEnds
CHECK_DEADLOCK FALSE

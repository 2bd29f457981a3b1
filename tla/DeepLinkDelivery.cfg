SPECIFICATION FairSpec
CONSTANTS
    Dispatches = {d1, d2, d3}
    MaxDeaths = 1
    MaxOutages = 1
INVARIANTS
    DeliveryRowsOK
    AtMostOneCall
    ClosedLinkIsRevoked
    SentIsWhole
PROPERTIES
    ClosedStaysClosed
    ReservedIsClosed
CHECK_DEADLOCK FALSE

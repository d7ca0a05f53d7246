CONSTANTS
    a = a
    i1 = i1
    i2 = i2
    Flows = {a}
    Requests <- SomeRequests
    Grants <- SomeGrants
    Setups <- SomeSetups
    Kinds = {"swap", "route", "quote"}
    Cap = 2
    Hops = 2
SPECIFICATION MCSpec
INVARIANTS
    CommittedIsReal
    CallsAreAuthorized
    NotifiedIsFunded
    CloseStopsSettlement
    StreamInOrder
PROPERTIES
    CancelEnds
CHECK_DEADLOCK FALSE

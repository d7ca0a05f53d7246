\* One call whose handler returns an error; the caller's ctx has no end.
CONSTANTS
    None = None
    ACall = {a1}
    BCall = {}
    Outbound = {}
    Outcomes = {"error"}
    Nesting = FALSE
    Expiring = {}
    MayDrop = FALSE
    IdSpace = 4
    WireCap = 3
SPECIFICATION FairSpec
PROPERTY ErrorObserved
CHECK_DEADLOCK FALSE

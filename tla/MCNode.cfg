\* "conns": two nodes dial each other, by address and on demand, and one dials a
\* third at an address that has changed hands; a connection may break, discovery
\* may report a loss at n1, and n1 may stop.  "any" and "replying": calls in both
\* directions, nested calls, late answers, full buffers, a lost connection.
CONSTANTS
    None = None
    NoConn = NoConn
    n1 = n1
    n2 = n2
    n3 = n3
    Node = {n1, n2, n3}
    Direct <- LowerDials
    Lookup <- StaleToo
    Lost <- LostAtLower
    Stops = {n1}
    Sock = {s1, s2}
    MaxBreaks = 1
    a1 = a1
    ACall = {a1, a2}
    BCall = {b1}
    Outbound = {}
    Outcomes = {"reply", "nil", "unknown"}
    Nesting = TRUE
    Expiring = {a1, b1}
    MayDrop = TRUE
    IdSpace = 2
    WireCap = 1
SPECIFICATION MCSpec
INVARIANTS
    EntryHasLoop
    OneLiveConn
    PendingIsLive
PROPERTIES
    StopDrains
    HalfOpenHeals
    AtMostOnce
    TimeoutOrParked
    
CHECK_DEADLOCK FALSE

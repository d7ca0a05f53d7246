SPECIFICATION MCSpec
CONSTANTS
    n1 = n1
    n2 = n2
    n3 = n3
    k1 = k1
    k2 = k2
    w1 = w1
    w2 = w2
    None = None
    Node = {n1, n2, n3}
    Call = {k1, k2}
    Conn <- MCConn
    From <- MCFrom
    To <- MCTo
    Listed <- MCListed
    Direct <- MCDirect
    Handled = {k1}
    Expiring = {k1}
    Stopping = {n1}
    Writers = {w1, w2}
    SendAt <- MCSendAt
    Fragile = {"d"}
    Nobody = Nobody
INVARIANTS
    TableIsTrue
    FramesArrive
PROPERTIES
    QuicAtMostOnce
    QuicEnds
    StopCleans
CHECK_DEADLOCK FALSE

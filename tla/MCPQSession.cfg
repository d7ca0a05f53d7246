\* The "faults" part; the "close" part has its bounds in MCPQSession.
CONSTANTS
    s1 = s1
    s2 = s2
    ISender = {s1, s2}
    RSender = {}
    FrameCap = 2
    EpochMax = 1
    WireCap = 2
    MaxSend = 2
    MaxFaults = 1
    Key = {k1, k2}
    Worker = {w1, w2}
    TTL = 2
    Window = 1
    MaxLen = 1
    MaxTime = 4
    None = None
SPECIFICATION MCSpec
INVARIANTS
    RememberedForTTL
    ReadmittedOnlyAfterWindow
    GenerationsBounded
    OneFramePerNonce
    UndisturbedIsReliable
    KeysHeldAreLive
PROPERTIES
    Streams
    MCCloseReturns
CHECK_DEADLOCK FALSE

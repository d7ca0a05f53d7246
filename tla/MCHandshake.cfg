CONSTANTS
    Conns = {1, 2}
    Setups <- SomeSetups
    Strict = TRUE
    AcceptedSuites = {}
    Lifetime = 1
    Window = 1
    MaxTime = 2
    MaxFaults = 1
SPECIFICATION Spec
INVARIANTS
    FullAgreement
    ResumedKeysTellDamage
    AcceptedOnce
PROPERTIES
    HandshakeEnds
CHECK_DEADLOCK FALSE

SPECIFICATION MCSpec
CONSTANTS
    Messages <- MCMessages
    Patterns <- MCPatterns
    FlagChoices <- MCFlagChoices
    Capacity = 40
    Words <- MCWords
    Loop = {l1, l2}
    Slab = {s1, s2, s3}
    MaxFrames = 5
    NoSlab = NoSlab
    Rounds = 2
INVARIANTS
    ReadsBack
    ReuseInvisible
    MCStaysInside
    HeldIsIntact
CHECK_DEADLOCK FALSE

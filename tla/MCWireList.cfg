SPECIFICATION MCSpec
CONSTANTS
    Messages <- OddList
    Patterns <- MCPatterns
    FlagChoices <- MCFlagChoices
    Capacity = 40
    Words = {}
    Loop = {l1, l2}
    Slab = {s1, s2, s3}
    MaxFrames = 0
    NoSlab = NoSlab
    Rounds = 1
INVARIANT ElementsReadBack
CHECK_DEADLOCK FALSE

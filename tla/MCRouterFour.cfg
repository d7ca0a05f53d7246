\* Four interfaces: the fourth append writes into the array senders walk.
CONSTANTS
    None = None
    i1 = i1
    i2 = i2
    i3 = i3
    i4 = i4
    Iface = {i1, i2, i3, i4}
    Cost <- FourCosts
    Sender = {a}
    MaxFlaps = 0
SPECIFICATION Spec
INVARIANT CheapestReachable
CHECK_DEADLOCK FALSE

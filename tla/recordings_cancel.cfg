SPECIFICATION Spec
CONSTANTS
    k1 = k1
    k2 = k2
    r1 = r1
    drain = drain
    purger = purger
    Keys = {k1, k2}
    Recs = {r1}
    Deleters = {drain, purger}
    Drain = drain
    Purger = purger
    MaxFaults = 2
    MaxCreates = 2
INVARIANTS
    OwnedObjectsStay
CHECK_DEADLOCK FALSE

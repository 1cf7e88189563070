SPECIFICATION Spec
CONSTANTS
    k1 = k1
    k2 = k2
    j1 = j1
    w1 = w1
    drain = drain
    purger = purger
    Jobs = {j1}
    Workers = {w1}
    Keys = {k1, k2}
    Deleters = {drain, purger}
    Drain = drain
    Purger = purger
    Retries = 1
    Lease = 2
    Delay = 1
    Memory = 1
    Grace = 1
    MaxFaults = 1
    MaxSchedules = 2
INVARIANTS
    FailureLeavesJournaled
CHECK_DEADLOCK FALSE

SPECIFICATION FairSpec
CONSTANTS
    d1 = d1
    d2 = d2
    h1 = h1
    h2 = h2
    r1 = r1
    w1 = w1
    w2 = w2
    DeliveryKeys = {d1, d2}
    Handlers = {h1, h2}
    Jobs = {r1}
    Workers = {w1, w2}
    Retries = 1
    Lease = 1
    Delay = 1
    Memory = 1
    MaxClaims = 2
    MaxPurges = 1
    MaxFaults = 1
INVARIANTS
    FetchesInv
PROPERTIES
    FetchSettles
CHECK_DEADLOCK FALSE

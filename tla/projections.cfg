SPECIFICATION FairSpec
CONSTANTS
    Calls = {1, 2}
    Projectors = {p1, p2}
    p1 = p1
    p2 = p2
    low = low
    high = high
    Lapsing = {p2}
    Tariffs = {low, high}
    Broken <- BrokenRevisions
    BatchSize = 1
    RetryTicks <- Retries
    MaxChanges = 2
    MaxPrices = 1
    MaxFaults = 1
INVARIANTS
    ProjectionInv
    CurrentIsTrue
PROPERTIES
    NeverOlder
    NoneOnceDeleting
    StaleIsProjected

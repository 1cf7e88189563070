SPECIFICATION FairSpec
CONSTANTS
    LastSeq = 3
    BigSeq = 2
    Drains <- MCDrains
    RingSize = 2
    MaxFaults = 3
    MaxAttempts = 2
    MaxQueued = 1
INVARIANTS
    CaptureInv
    LiveIsCommitted
    LossesDeclared
PROPERTIES
    ImplementsLog
    RetrySettles
CHECK_DEADLOCK FALSE

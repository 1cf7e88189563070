SPECIFICATION FairSpec
CONSTANTS
    MaxRecords = 2
    MaxFacts = 2
    BigFacts = {1}
    MaxFaults = 2
    BatchFrames = 2
INVARIANTS
    CheckpointInv
    EvidenceKept
    FinalIsCounted
PROPERTIES
    StreamExtends
    SpoolSettles
    StreamCatchesUp
CHECK_DEADLOCK FALSE

SPECIFICATION FairSpec
CONSTANTS
    k1 = k1
    t1 = t1
    t2 = t2
    a = a
    b = b
    x = x
    Keys = {k1}
    NoKey = NoKey
    Traces = {t1, t2}
    NoCall = NoCall
    Spans = {a, b, x}
    TraceOf <- SpanTraces
    SessionSpans = {b}
    LongQuiet = 1
    TombstoneGrace = 1
    ParkedBatch = 1
    DeleteBatchSize = 1
    MaxPurges = 2
INVARIANTS
    BindingInv
    PurgeHolds
PROPERTIES
    ParkedSettles
    DeletionEnds

SPECIFICATION Spec
CONSTANTS
    s1 = s1
    tail = tail
    r1 = r1
    e1 = e1
    c1 = c1
    c2 = c2
    Spans = {s1, tail, e1}
    EndMarkers = {e1}
    TailSpans = {tail, e1}
    Recordings = {r1}
    MaxRecordings = 1
    RevisionCap = 2
    EndGrace = 0
    LongQuiet = 1
    LateDebounce = 1
    UploadHold = 1
    MaxUploads = 1
    Closers = {c1, c2}
    LeaseTime = 1
    MaxFaults = 2
SYMMETRY Symmetry
INVARIANTS
    CloserInv
    RevisionsExact
    NoEvidenceLost
    EndSignalPending
    CloseReasonsTrue
    PastCapTold
PROPERTIES
    ImplementsPromise

SPECIFICATION FairSpec
CONSTANTS
    s1 = s1
    tail = tail
    e1 = e1
    c1 = c1
    Spans = {s1, tail, e1}
    EndMarkers = {e1}
    TailSpans = {tail}
    Recordings = {}
    MaxRecordings = 1
    RevisionCap = 1
    EndGrace = 0
    LongQuiet = 2
    LateDebounce = 1
    UploadHold = 1
    MaxUploads = 1
    Closers = {c1}
    LeaseTime = 1
    MaxFaults = 1
PROPERTIES
    OpenCallCloses

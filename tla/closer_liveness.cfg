SPECIFICATION FairSpec
CONSTANTS
    s1 = s1
    r1 = r1
    e1 = e1
    c1 = c1
    Spans = {s1, e1}
    EndMarkers = {e1}
    TailSpans = {}
    Recordings = {r1}
    MaxRecordings = 1
    RevisionCap = 1
    EndGrace = 0
    LongQuiet = 2
    LateDebounce = 1
    UploadHold = 1
    MaxUploads = 1
    Closers = {c1}
    LeaseTime = 1
    MaxFaults = 1
PROPERTIES
    EvidenceShown
    RecordingSettles

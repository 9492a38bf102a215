CONSTANTS
    q1 = q1
    q2 = q2
    k1 = k1
    k2 = k2
    Askers = {q1, q2}
    Views = {k1, k2}
    Blocks = {1, 2}
    Hour = 1
    MaxTime = 2
    Connections = 2
    LookedAt = 1
    MaxKept = 2
    NoBriefing = NoBriefing
    s1 = s1
    s2 = s2
    f1 = f1
    Streamed = {s1, s2}
    Whole = {f1}
    Permits = 1
    Segments = 2
    Gpu = TRUE
    Spoken = {f1}
SPECIFICATION Spec
INVARIANTS PermitsAndFiles TranscriptWhole
PROPERTIES EveryBriefingEnds EveryRecordingEnds
CHECK_DEADLOCK FALSE

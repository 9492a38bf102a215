CONSTANTS
    i1 = i1
    i2 = i2
    Records = {1, 2, 3}
    Undated = {3}
    Ingests = {i1, i2}
    PageSizes = {1, 2}
    BatchSize = 1
    Limits = {None, 1}
    Faults = {"remote", "delete", "drop"}
    MaxTime = 2
    MaxVer = 2
    None = None
    Gone = Gone
SPECIFICATION IngestSpec
INVARIANTS
    NothingBehind
PROPERTIES
    CaughtUp
    EveryIngestEnds
CHECK_DEADLOCK FALSE

CONSTANTS
    w1 = w1
    t1 = t1
    t2 = t2
    v1 = v1
    v2 = v2
    None = None
    Workers = {w1}
    Tasks = {t1, t2}
    Versions = {v1, v2}
    Ttl = 1
    Retry = 1
    StaleMax = 2
    Faults = {"database", "cancel"}
SPECIFICATION FairSpec
INVARIANTS
    BoundedStaleness
    NoneOnlyWhenTooOld
PROPERTIES
    FetchSpaced
    EveryGetReturns

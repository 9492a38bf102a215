CONSTANTS
    r1 = r1
    w1 = w1
    w2 = w2
    w3 = w3
    Calls = {r1, w1, w2, w3}
    ReadOnly = {r1}
    MaxConcurrency = 2
    FailureThreshold = 2
SPECIFICATION FairSpec
INVARIANTS
    TrialHasOwner
    TrippedByFailures
    PermitsConserved
    WriteAtMostOnce
PROPERTIES
    EveryCallReturns
CHECK_DEADLOCK FALSE

CONSTANTS
    t1 = t1
    t2 = t2
    t3 = t3
    c1 = c1
    p1 = p1
    e1 = e1
    None = None
    Turns = {t1, t2, t3}
    Callbacks = {}
    Puts = {}
    EventOf <- NoRecord
    Body <- NoBody
    Elsewhere = {}
    Echoes = {FALSE}
    MaxOpen = 2
SPECIFICATION Spec
INVARIANT ConfirmIdempotent
SYMMETRY Users
CHECK_DEADLOCK FALSE

CONSTANTS
    t1 = t1
    t2 = t2
    t3 = t3
    c1 = c1
    p1 = p1
    e1 = e1
    None = None
    Turns = {t1, t2, t3}
    Callbacks = {c1}
    Puts = {p1}
    EventOf <- OneRecord
    Body <- OneAnswer
    Elsewhere = {e1}
    Echoes = {FALSE}
    MaxOpen = 3
SPECIFICATION LiveSpec
PROPERTIES
    ImplementsSlot
    EveryRequestEnds
CHECK_DEADLOCK FALSE

CONSTANTS
    t1 = t1
    t2 = t2
    t3 = t3
    c1 = c1
    p1 = p1
    e1 = e1
    None = None
    Turns = {t1, t2, t3}
    Callbacks = {}
    Puts = {p1}
    EventOf <- NoRecord
    Body <- OneAnswer
    Elsewhere = {e1}
    Echoes = {FALSE, TRUE}
    MaxOpen = 3
SPECIFICATION Spec
INVARIANTS
    QuestionThenAnswer
    LoadedIsCurrent
    ExecutedAsOffered
    ConfirmsWhatWasNamed
SYMMETRY Users
CHECK_DEADLOCK FALSE

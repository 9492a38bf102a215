CONSTANTS
    Ids = {"c1", "m1"}
    Contacts = {"c1"}
    Window = 2
    EventWindow = 1
    MaxMessages = 2
    Unknown = Unknown
SPECIFICATION ContextSpec
INVARIANT OpenRecordNeverWritten
CHECK_DEADLOCK FALSE

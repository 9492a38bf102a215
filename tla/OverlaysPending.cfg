CONSTANTS
    Requests = {"r1", "r2"}
    Users = {"u1"}
    Names = {"n1"}
    Texts = {"a", "b"}
    Tenant = "tenant"
    MaxServed = 1
    None = None
SPECIFICATION OverlaySpec
PROPERTY PendingNeverOverwrites
CHECK_DEADLOCK FALSE

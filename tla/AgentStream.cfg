CONSTANTS
    None = None
    MaxIterations = 3
    EmptyRetries = 2
    MaxDeltas = 1
    Statuses <- ToolStatuses
    Ending = {"confirm", "contacts"}
    Confirming = {"confirm"}
    Failing = {"failed"}
    Showing = {"form", "contacts"}
    Patching = {"form"}
SPECIFICATION FairSpec
INVARIANTS
    ReportedAsStored
    ProposalEndsTurn
    AnnouncedAnswerStands
PROPERTIES
    NothingBegunAfterStop
    StayingGetsVerdict
    StreamEnds
CHECK_DEADLOCK FALSE

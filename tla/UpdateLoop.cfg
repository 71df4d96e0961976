SPECIFICATION Spec
CONSTANTS
    Names = {a, b}
    UnlockedNames = {a}
    NoName = NoName
    Nobody = Nobody
    MaxRequests = 2
    MaxNotices = 1
    max_events_executed_per_frame = 1
INVARIANTS
    TypeOK
    ClosedStateIsQuiet
    OneInstanceRuns
    SectionExcludesLoop
    DeadlockNeedsRequestFromLua
PROPERTIES
    ImplementsQueue
CHECK_DEADLOCK FALSE

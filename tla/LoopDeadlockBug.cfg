SPECIFICATION Spec
CONSTANTS
    Names = {a}
    UnlockedNames = {a}
    NoName = NoName
    Nobody = Nobody
    MaxRequests = 2
    MaxNotices = 0
    max_events_executed_per_frame = 1
INVARIANTS
    NoCircularWait
CHECK_DEADLOCK FALSE

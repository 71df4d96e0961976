SPECIFICATION FairSpec
CONSTANTS
    Names = {a}
    UnlockedNames = {}
    NoName = NoName
    Nobody = Nobody
    MaxRequests = 1
    MaxNotices = 2
    max_events_executed_per_frame = 1
PROPERTIES
    EventsServed
    NoticesServed
CHECK_DEADLOCK FALSE

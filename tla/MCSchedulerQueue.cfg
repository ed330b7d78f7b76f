SPECIFICATION FairSpec
CONSTANTS
    ContentId = {c1, c2}
    Slug = {s1, s2}
    Fields = {f}
    ScheduleId = {j1, j2}
    Worker = {w1}
    Time = {0, 1, 2, 3}
    NULL = NULL
    BatchSize = 1
    MaxVersions = 2
    MaxEvents = 0
    LeaseTTL = 1
    MaxNow = 2
PROPERTIES
    EventuallySettled
CHECK_DEADLOCK FALSE

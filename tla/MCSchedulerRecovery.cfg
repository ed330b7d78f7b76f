SPECIFICATION FairSpec
CONSTANTS
    ContentId = {c1}
    Slug = {s1}
    Fields = {f}
    ScheduleId = {j1}
    Worker = {w1, w2}
    Time = {0, 1, 2, 3, 4}
    NULL = NULL
    BatchSize = 1
    MaxVersions = 1
    MaxEvents = 2
    LeaseTTL = 1
    MaxNow = 2
INVARIANTS
    SchedulerTypeOK
PROPERTIES
    EventuallySettled
    StopsWhenTold
CHECK_DEADLOCK FALSE

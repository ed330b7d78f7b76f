SPECIFICATION QuietSpec
CONSTANTS
    ContentId = {c1, c2}
    Slug = {s1, s2}
    Fields = {f}
    NoIndex = {}
    ScheduleId = {}
    Worker = {w1}
    Time = {1, 2, 3, 4, 5}
    NULL = NULL
    BatchSize = 1
    MaxVersions = 2
    MaxEvents = 3
INVARIANT
    ListFresh

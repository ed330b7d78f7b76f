SPECIFICATION PublicSpec
CONSTANTS
    ContentId = {c1}
    Slug = {s1}
    Fields = {f}
    NoIndex = {}
    ScheduleId = {}
    Worker = {w1}
    Time = {1, 2, 3, 4, 5}
    NULL = NULL
    BatchSize = 1
    MaxVersions = 2
    MaxEvents = 3
INVARIANT
    SitemapFresh

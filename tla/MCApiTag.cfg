SPECIFICATION ApiSpec
CONSTANTS
    ContentId = {c1}
    Slug = {s1}
    Fields = {f}
    ScheduleId = {}
    Worker = {w1}
    Time = {0}
    NULL = NULL
    BatchSize = 1
    MaxVersions = 1
    MaxEvents = 1
    Editor = {e1, e2}
SYMMETRY Symmetry
INVARIANTS
    SameTagSameView

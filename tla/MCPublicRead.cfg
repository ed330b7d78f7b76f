SPECIFICATION PublicSpec
CONSTANTS
    ContentId = {c1, c2}
    Slug = {s1, s2}
    Fields = {f, g}
    NoIndex = {g}
    ScheduleId = {j1}
    Worker = {w1}
    Time = {1, 2}
    NULL = NULL
    BatchSize = 1
    MaxVersions = 2
    MaxEvents = 2
SYMMETRY Symmetry
INVARIANTS
    PublicTypeOK
    PageFresh
    ServedWasPublished
    NothingMissed

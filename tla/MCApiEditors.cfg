SPECIFICATION ApiSpec
CONSTANTS
    ContentId = {c1, c2}
    Slug = {s1, s2}
    Fields = {f, g}
    ScheduleId = {}
    Worker = {w1}
    Time = {0}
    NULL = NULL
    BatchSize = 1
    MaxVersions = 3
    MaxEvents = 1
    Editor = {e1, e2}
SYMMETRY Symmetry
INVARIANTS
    TagIdentifiesDraft
    ConflictTellsNewer
PROPERTIES
    NoBlindOverwrite
    ApiImplementsStore

SPECIFICATION ListingsSpec
CONSTANTS
    ContentId = {1, 2, 3}
    Slug = {s1, s2, s3}
    Fields = {f}
    ScheduleId = {}
    Worker = {w1}
    Time = {0, 1}
    NULL = NULL
    BatchSize = 1
    MaxVersions = 3
    MaxEvents = 3
    DefaultLimit = 1
    MaxLimit = 1
SYMMETRY Symmetry
INVARIANTS
    ListingsTypeOK
    WalkMissesNothing
    TotalCoversItems

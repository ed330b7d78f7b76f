SPECIFICATION StoreSpec
CONSTANTS
    ContentId = {c1, c2}
    Slug = {s1, s2}
    Fields = {f, g}
    ScheduleId = {j1, j2}
    Worker = {w1, w2}
    Time = {0, 1}
    NULL = NULL
    BatchSize = 1
    MaxVersions = 2
    MaxEvents = 3
SYMMETRY Symmetry
INVARIANTS
    TypeOK
    VersionHistory
    PointersOwned
    OneActiveSchedule
    ExactlyOnce
    AuditExplainsPointer
    ClaimHasLease
PROPERTIES
    AppendOnly
    SettledForever
    ImplementsPublication

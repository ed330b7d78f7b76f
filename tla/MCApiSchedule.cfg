SPECIFICATION ApiSpec
CONSTANTS
    ContentId = {c1, c2}
    Slug = {s1, s2}
    Fields = {f}
    ScheduleId = {j1}
    Worker = {w1, w2}
    Time = {0, 1}
    NULL = NULL
    BatchSize = 1
    MaxVersions = 2
    MaxEvents = 3
    Editor = {e1, e2}
SYMMETRY Symmetry
CONSTRAINT NoneRemembered
INVARIANTS
    ApiTypeOK
    CalledOffStaysOff
PROPERTIES
    DoneAsAsked

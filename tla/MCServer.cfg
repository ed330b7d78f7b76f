SPECIFICATION ServerSpec
CONSTANTS
    Process = {p1, p2}
    Scheduling = {p1}
    NULL = NULL
    MaxUnsynced = 2
INVARIANTS
    ServerTypeOK
    NothingTorn
    AnswersTrue
    LockedExactlyInside
    ServesMigrated
    NobodyMeetsClosedPool
PROPERTIES
    ImplementsLedger
    ToldToStopStops
CHECK_DEADLOCK FALSE

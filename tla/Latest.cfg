SPECIFICATION Spec
CONSTANTS
    q1 = q1
    q2 = q2
    Requests = {q1, q2}
    Readings <- SomeReadings
    Day = 3
    N = 2
    Driver = "valkey"
    Zone = 0
    Life = 2
    Grain = 2
    MaxClock = 3
    Never = Never
INVARIANTS
    TypeOK
    NothingNewerMissed
    SetsExpire
PROPERTIES
    CacheIsInvisible
SYMMETRY Interchangeable
CHECK_DEADLOCK FALSE

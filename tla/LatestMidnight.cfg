SPECIFICATION Spec
CONSTANTS
    q1 = q1
    q2 = q2
    Requests = {q1}
    Readings <- SomeReadings
    Day = 3
    N = 2
    Driver = "valkey"
    Zone = 1
    Life = 2
    Grain = 2
    MaxClock = 3
    Never = Never
INVARIANTS
    LatestOfAllDays
CHECK_DEADLOCK FALSE

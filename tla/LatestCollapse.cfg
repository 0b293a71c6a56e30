SPECIFICATION Spec
CONSTANTS
    q1 = q1
    q2 = q2
    Requests = {q1}
    Readings <- SomeReadings
    Day = 3
    N = 2
    Driver = "valkey"
    Zone = 0
    Life = 2
    Grain = 2
    MaxClock = 3
    Never = Never
PROPERTIES
    OlderLeaveRecentAlone
CHECK_DEADLOCK FALSE
